--------------------------- MODULE CohortsProofs ---------------------------
(***************************************************************************)
(* Cohorts, for any dimensions, names, values and orders of them, and any  *)
(* number of requests: every user is in the cohort the documentation       *)
(* promises unless a checkpoint was moved, and none is moved but by an     *)
(* order that is not the dimension's own or after an update was lost.      *)
(***************************************************************************)
EXTENDS Cohorts, SequenceTheorems, FiniteSetTheorems, WellFoundedInduction, TLAPS

----------------------------------------------------------------------------
(* Sequences and numbers.                                                  *)

\* The least of a set of numbers.
LEMMA MinOf ==
  ASSUME NEW S, S \subseteq Nat, S # {}
  PROVE  Min(S) \in S /\ \A x \in S : Min(S) <= x
<1>1. PICK m \in S : \A x \in S : ~(<<x, m>> \in OpToRel(<, Nat))
  BY NatLessThanWellFounded, WFMin
<1>2. \A x \in S : m <= x
  <2> SUFFICES ASSUME NEW x \in S PROVE m <= x
    OBVIOUS
  <2>1. m \in Nat /\ x \in Nat
    OBVIOUS
  <2>2. ~(x < m)
    BY <1>1, <2>1 DEF OpToRel
  <2> QED BY <2>1, <2>2
<1> QED BY <1>2 DEF Min

\* The greatest of a bounded one.
LEMMA MaxOf ==
  ASSUME NEW S, NEW b \in Nat, S \subseteq 0 .. b, S # {}
  PROVE  Max(S) \in S /\ \A x \in S : x <= Max(S)
<1> DEFINE T == {b - x : x \in S}
<1>1. T \subseteq Nat /\ T # {}
  <2>1. \A x \in S : b - x \in Nat
    OBVIOUS
  <2> QED BY <2>1
<1>2. Min(T) \in T /\ \A t \in T : Min(T) <= t
  BY <1>1, MinOf
<1>3. PICK x \in S : Min(T) = b - x
  BY <1>2
<1>4. \A y \in S : x >= y
  <2> SUFFICES ASSUME NEW y \in S PROVE x >= y
    OBVIOUS
  <2>1. b - y \in T /\ x \in Nat /\ y \in Nat
    OBVIOUS
  <2>2. b - x <= b - y
    BY <1>2, <1>3, <2>1
  <2> QED BY <2>1, <2>2
<1> QED BY <1>4 DEF Max

\* A part of a sequence.
LEMMA PartOf ==
  ASSUME NEW T, NEW q \in Seq(T), NEW from \in Nat \ {0}, NEW to \in Nat,
         from <= to + 1, to <= Len(q)
  PROVE  /\ SubSeq(q, from, to) \in Seq(T)
         /\ Len(SubSeq(q, from, to)) = to - from + 1
         /\ \A j \in 1 .. to - from + 1 : SubSeq(q, from, to)[j] = q[from + j - 1]
<1>1. Len(q) \in Nat /\ \A j \in 1 .. Len(q) : q[j] \in T
  BY LenProperties
<1>2. \A j \in from .. to : q[j] \in T
  BY <1>1
<1> QED BY <1>1, <1>2, SubSeqProperties

\* Without the entry at i, the later ones move up.
LEMMA RemoveAtProperties ==
  ASSUME NEW T, NEW q \in Seq(T), NEW i \in 1 .. Len(q)
  PROVE  /\ RemoveAt(q, i) \in Seq(T)
         /\ Len(RemoveAt(q, i)) = Len(q) - 1
         /\ \A j \in 1 .. Len(q) - 1 : RemoveAt(q, i)[j] = IF j < i THEN q[j] ELSE q[j + 1]
<1> DEFINE a == SubSeq(q, 1, i - 1)
           z == SubSeq(q, i + 1, Len(q))
<1>1. Len(q) \in Nat /\ Len(q) >= i /\ i \in Nat
  BY LenProperties
<1>2. a \in Seq(T) /\ Len(a) = i - 1 /\ \A j \in 1 .. i - 1 : a[j] = q[j]
  <2>1. /\ a \in Seq(T) /\ Len(a) = i - 1 - 1 + 1
        /\ \A j \in 1 .. i - 1 - 1 + 1 : a[j] = q[1 + j - 1]
    BY <1>1, PartOf
  <2> QED BY <2>1, <1>1
<1>3. z \in Seq(T) /\ Len(z) = Len(q) - i /\ \A j \in 1 .. Len(q) - i : z[j] = q[i + j]
  <2>1. /\ z \in Seq(T) /\ Len(z) = Len(q) - (i + 1) + 1
        /\ \A j \in 1 .. Len(q) - (i + 1) + 1 : z[j] = q[i + 1 + j - 1]
    BY <1>1, PartOf
  <2> QED BY <2>1, <1>1
<1> HIDE DEF a, z
<1>4. /\ a \o z \in Seq(T) /\ Len(a \o z) = Len(q) - 1
      /\ \A j \in 1 .. Len(q) - 1 : (a \o z)[j] = IF j <= i - 1 THEN a[j] ELSE z[j - (i - 1)]
  <2>1. /\ a \o z \in Seq(T) /\ Len(a \o z) = Len(a) + Len(z)
        /\ \A j \in 1 .. Len(a) + Len(z) :
              (a \o z)[j] = IF j <= Len(a) THEN a[j] ELSE z[j - Len(a)]
    BY <1>2, <1>3, ConcatProperties
  <2>2. Len(a) + Len(z) = Len(q) - 1
    BY <1>1, <1>2, <1>3
  <2> QED BY <2>1, <2>2, <1>2
<1>5. ASSUME NEW j \in 1 .. Len(q) - 1
      PROVE  (a \o z)[j] = IF j < i THEN q[j] ELSE q[j + 1]
  <2>1. CASE j < i
    BY <2>1, <1>1, <1>2, <1>4
  <2>2. CASE ~(j < i)
    <3>1. j - (i - 1) \in 1 .. Len(q) - i /\ i + (j - (i - 1)) = j + 1
      BY <2>2, <1>1
    <3> QED BY <2>2, <3>1, <1>1, <1>3, <1>4
  <2> QED BY <2>1, <2>2
<1>6. RemoveAt(q, i) = a \o z
  BY DEF RemoveAt, a, z
<1> QED BY <1>4, <1>5, <1>6

\* One more entry at i, the others move down.
LEMMA InsertAtProperties ==
  ASSUME NEW T, NEW q \in Seq(T), NEW i \in 1 .. Len(q) + 1, NEW n \in T
  PROVE  /\ InsertAt(q, i, n) \in Seq(T)
         /\ Len(InsertAt(q, i, n)) = Len(q) + 1
         /\ \A j \in 1 .. Len(q) + 1 :
               InsertAt(q, i, n)[j] = IF j < i THEN q[j] ELSE IF j = i THEN n ELSE q[j - 1]
<1> DEFINE a == SubSeq(q, 1, i - 1)
           z == SubSeq(q, i, Len(q))
<1>1. Len(q) \in Nat /\ Len(q) + 1 >= i /\ i \in Nat \ {0}
  BY LenProperties
<1>2. a \in Seq(T) /\ Len(a) = i - 1 /\ \A j \in 1 .. i - 1 : a[j] = q[j]
  <2>1. /\ a \in Seq(T) /\ Len(a) = i - 1 - 1 + 1
        /\ \A j \in 1 .. i - 1 - 1 + 1 : a[j] = q[1 + j - 1]
    BY <1>1, PartOf
  <2> QED BY <2>1, <1>1
<1>3. z \in Seq(T) /\ Len(z) = Len(q) + 1 - i /\ \A j \in 1 .. Len(q) + 1 - i : z[j] = q[i + j - 1]
  <2>1. /\ z \in Seq(T) /\ Len(z) = Len(q) - i + 1
        /\ \A j \in 1 .. Len(q) - i + 1 : z[j] = q[i + j - 1]
    BY <1>1, PartOf
  <2> QED BY <2>1, <1>1
<1> HIDE DEF a, z
<1>4. <<n>> \in Seq(T) /\ Len(<<n>>) = 1 /\ <<n>>[1] = n
  OBVIOUS
<1>5. /\ a \o <<n>> \in Seq(T) /\ Len(a \o <<n>>) = i
      /\ \A j \in 1 .. i : (a \o <<n>>)[j] = IF j <= i - 1 THEN a[j] ELSE <<n>>[j - (i - 1)]
  BY <1>1, <1>2, <1>4, ConcatProperties
<1>6. \A j \in 1 .. i : (a \o <<n>>)[j] = IF j < i THEN q[j] ELSE n
  <2> DEFINE w == <<n>>
  <2>0. w[1] = n
    OBVIOUS
  <2> HIDE DEF w
  <2> SUFFICES ASSUME NEW j \in 1 .. i PROVE (a \o w)[j] = IF j < i THEN q[j] ELSE n
    BY DEF w
  <2>3. (a \o w)[j] = IF j <= i - 1 THEN a[j] ELSE w[j - (i - 1)]
    BY <1>5 DEF w
  <2>1. CASE j < i
    BY <2>1, <2>3, <1>1, <1>2
  <2>2. CASE j = i
    <3>1. j - (i - 1) = 1 /\ ~(j <= i - 1) /\ ~(j < i)
      BY <2>2, <1>1
    <3> QED BY <2>3, <3>1, <2>0
  <2>4. j < i \/ j = i
    BY <1>1
  <2> QED BY <2>1, <2>2, <2>4
<1> DEFINE h == a \o <<n>>
<1>7. h \in Seq(T) /\ Len(h) = i /\ \A j \in 1 .. i : h[j] = IF j < i THEN q[j] ELSE n
  BY <1>5, <1>6
<1> HIDE DEF h
<1>8. /\ h \o z \in Seq(T) /\ Len(h \o z) = Len(q) + 1
      /\ \A j \in 1 .. Len(q) + 1 : (h \o z)[j] = IF j <= i THEN h[j] ELSE z[j - i]
  <2>1. /\ h \o z \in Seq(T) /\ Len(h \o z) = Len(h) + Len(z)
        /\ \A j \in 1 .. Len(h) + Len(z) :
              (h \o z)[j] = IF j <= Len(h) THEN h[j] ELSE z[j - Len(h)]
    BY <1>3, <1>7, ConcatProperties
  <2>2. Len(h) + Len(z) = Len(q) + 1
    BY <1>1, <1>3, <1>7
  <2> QED BY <2>1, <2>2, <1>7
<1>9. ASSUME NEW j \in 1 .. Len(q) + 1
      PROVE  (h \o z)[j] = IF j < i THEN q[j] ELSE IF j = i THEN n ELSE q[j - 1]
  <2>1. CASE j <= i
    BY <2>1, <1>1, <1>7, <1>8
  <2>2. CASE ~(j <= i)
    <3>1. j - i \in 1 .. Len(q) + 1 - i /\ i + (j - i) - 1 = j - 1
      BY <2>2, <1>1
    <3> QED BY <2>2, <3>1, <1>1, <1>3, <1>8
  <2> QED BY <2>1, <2>2
<1>10. InsertAt(q, i, n) = h \o z
  BY DEF InsertAt, h, a, z
<1> QED BY <1>8, <1>9, <1>10

\* A name that is listed is at its index.
LEMMA IndexOf ==
  ASSUME NEW T, NEW q \in Seq(T), NEW n \in ToSet(q)
  PROVE  Index(q, n) \in 1 .. Len(q) /\ q[Index(q, n)] = n /\ n \in T
<1>1. DOMAIN q = 1 .. Len(q) /\ \A i \in 1 .. Len(q) : q[i] \in T
  BY LenProperties
<1>2. \E i \in DOMAIN q : q[i] = n
  BY DEF ToSet
<1> QED BY <1>1, <1>2 DEF Index

\* What a sequence lists is at one of its places.
LEMMA ListedAt ==
  ASSUME NEW T, NEW q \in Seq(T)
  PROVE  /\ \A i \in 1 .. Len(q) : q[i] \in ToSet(q)
         /\ \A n \in ToSet(q) : \E i \in 1 .. Len(q) : q[i] = n
         /\ ToSet(q) \subseteq T
<1>1. DOMAIN q = 1 .. Len(q) /\ \A i \in 1 .. Len(q) : q[i] \in T
  BY LenProperties
<1> QED BY <1>1 DEF ToSet

----------------------------------------------------------------------------
(* The order of a schema. What a list is after priorities were applied to  *)
(* its first b names: the same names, the others where they were.          *)
Rearranged(new, old, b) ==
    /\ new \in Seq(Listed) /\ Len(new) = Len(old) /\ ToSet(new) = ToSet(old)
    /\ \A i \in 1 .. b : \E j \in 1 .. b : new[i] = old[j]
    /\ \A i \in b + 1 .. Len(old) : new[i] = old[i]

\* One rearrangement after another is a rearrangement.
LEMMA RearrangedTwice ==
  ASSUME NEW p, NEW q, NEW r, NEW b \in Nat, Rearranged(q, p, b), Rearranged(r, q, b)
  PROVE  Rearranged(r, p, b)
<1>1. \A i \in 1 .. b : \E j \in 1 .. b : r[i] = p[j]
  <2> SUFFICES ASSUME NEW i \in 1 .. b PROVE \E j \in 1 .. b : r[i] = p[j]
    OBVIOUS
  <2>1. PICK j \in 1 .. b : r[i] = q[j]
    BY DEF Rearranged
  <2>2. PICK m \in 1 .. b : q[j] = p[m]
    BY DEF Rearranged
  <2> QED BY <2>1, <2>2
<1> QED BY <1>1 DEF Rearranged

\* Entry by entry, a list after one of its names was put at an index.
LEMMA PutEntries ==
  ASSUME NEW e \in Seq(Listed), NEW n \in ToSet(e), NEW to \in 0 .. Len(e) - 1
  PROVE  LET i == Index(e, n) IN
         /\ Put(e, n, to) \in Seq(Listed) /\ Len(Put(e, n, to)) = Len(e)
         /\ Put(e, n, to)[to + 1] = n
         /\ \A j \in 1 .. to : Put(e, n, to)[j] = IF j < i THEN e[j] ELSE e[j + 1]
         /\ \A j \in to + 2 .. Len(e) : Put(e, n, to)[j] = IF j - 1 < i THEN e[j - 1] ELSE e[j]
<1> DEFINE i == Index(e, n)
           rest == RemoveAt(e, i)
           at == IF to < Len(rest) THEN to ELSE Len(rest)
           put == InsertAt(rest, at + 1, n)
<1>1. i \in 1 .. Len(e) /\ e[i] = n /\ n \in Listed /\ Len(e) \in Nat
  BY IndexOf, LenProperties
<1>2. /\ rest \in Seq(Listed) /\ Len(rest) = Len(e) - 1
      /\ \A j \in 1 .. Len(e) - 1 : rest[j] = IF j < i THEN e[j] ELSE e[j + 1]
  <2> HIDE DEF i
  <2> QED BY <1>1, RemoveAtProperties
<1>3. Put(e, n, to) = put
  BY DEF Put
<1> HIDE DEF i, rest
<1>4. at = to /\ at + 1 \in 1 .. Len(rest) + 1
  BY <1>1, <1>2
<1> HIDE DEF at
<1>5. /\ put \in Seq(Listed) /\ Len(put) = Len(rest) + 1
      /\ \A j \in 1 .. Len(rest) + 1 :
            put[j] = IF j < at + 1 THEN rest[j] ELSE IF j = at + 1 THEN n ELSE rest[j - 1]
  <2>1. PICK k : k = at + 1
    OBVIOUS
  <2>2. k \in 1 .. Len(rest) + 1
    BY <2>1, <1>4
  <2>3. /\ InsertAt(rest, k, n) \in Seq(Listed) /\ Len(InsertAt(rest, k, n)) = Len(rest) + 1
        /\ \A j \in 1 .. Len(rest) + 1 :
              InsertAt(rest, k, n)[j] = IF j < k THEN rest[j] ELSE IF j = k THEN n ELSE rest[j - 1]
    BY <1>1, <1>2, <2>2, InsertAtProperties
  <2> QED BY <2>1, <2>3
<1> HIDE DEF put
<1>6. Len(put) = Len(e) /\ put[to + 1] = n
  BY <1>1, <1>2, <1>4, <1>5
<1>7. ASSUME NEW j \in 1 .. to
      PROVE  put[j] = IF j < i THEN e[j] ELSE e[j + 1]
  <2>1. j \in 1 .. Len(e) - 1 /\ j < at + 1 /\ j \in 1 .. Len(rest) + 1
    BY <1>1, <1>2, <1>4
  <2>2. put[j] = rest[j]
    BY <2>1, <1>5
  <2> QED BY <2>1, <2>2, <1>2
<1>8. ASSUME NEW j \in to + 2 .. Len(e)
      PROVE  put[j] = IF j - 1 < i THEN e[j - 1] ELSE e[j]
  <2>1. /\ j - 1 \in 1 .. Len(e) - 1 /\ ~(j < at + 1) /\ j # at + 1
        /\ j \in 1 .. Len(rest) + 1 /\ (j - 1) + 1 = j
    BY <1>1, <1>2, <1>4
  <2>2. put[j] = rest[j - 1]
    BY <2>1, <1>5
  <2>3. rest[j - 1] = IF j - 1 < i THEN e[j - 1] ELSE e[(j - 1) + 1]
    BY <2>1, <1>2
  <2> QED BY <2>1, <2>2, <2>3
<1> QED BY <1>3, <1>5, <1>6, <1>7, <1>8 DEF i

\* A name of the first b put at an index among them rearranges those.
LEMMA PutRearranges ==
  ASSUME NEW e \in Seq(Listed), NEW b \in 0 .. Len(e), NEW n \in ToSet(e), NEW to \in 0 .. b - 1,
         \A i \in b + 1 .. Len(e) : e[i] # n
  PROVE  Rearranged(Put(e, n, to), e, b)
<1> DEFINE i == Index(e, n)
           put == Put(e, n, to)
<1>1. i \in 1 .. Len(e) /\ e[i] = n /\ Len(e) \in Nat /\ to \in 0 .. Len(e) - 1
  BY IndexOf, LenProperties
<1>2. i <= b
  <2> HIDE DEF i
  <2> QED BY <1>1
<1>3. /\ put \in Seq(Listed) /\ Len(put) = Len(e) /\ put[to + 1] = n
      /\ \A j \in 1 .. to : put[j] = IF j < i THEN e[j] ELSE e[j + 1]
      /\ \A j \in to + 2 .. Len(e) : put[j] = IF j - 1 < i THEN e[j - 1] ELSE e[j]
  BY <1>1, PutEntries
<1> HIDE DEF i, put
<1>4. ASSUME NEW j \in b + 1 .. Len(e) PROVE put[j] = e[j]
  <2>1. j \in to + 2 .. Len(e) /\ ~(j - 1 < i)
    BY <1>1, <1>2
  <2> QED BY <2>1, <1>3
<1>5. ASSUME NEW j \in 1 .. b PROVE \E m \in 1 .. b : put[j] = e[m]
  <2>1. CASE j = to + 1
    BY <2>1, <1>1, <1>2, <1>3
  <2>2. CASE j <= to
    <3>1. j \in 1 .. to /\ j \in 1 .. b /\ j + 1 \in 1 .. b
      BY <2>2, <1>1
    <3> QED BY <3>1, <1>3
  <2>3. CASE j > to + 1
    <3>1. j \in to + 2 .. Len(e) /\ j - 1 \in 1 .. b
      BY <2>3, <1>1
    <3> QED BY <3>1, <1>3
  <2> QED BY <2>1, <2>2, <2>3, <1>1
<1>6. ToSet(put) \subseteq ToSet(e)
  <2> SUFFICES ASSUME NEW m \in ToSet(put) PROVE m \in ToSet(e)
    OBVIOUS
  <2>1. PICK j \in 1 .. Len(e) : put[j] = m
    BY <1>3, ListedAt
  <2>2. \A l \in 1 .. Len(e) : e[l] \in ToSet(e)
    BY ListedAt
  <2>3. CASE j \in 1 .. b
    <3>1. PICK l \in 1 .. b : put[j] = e[l]
      BY <2>3, <1>5
    <3>2. l \in 1 .. Len(e)
      BY <1>1
    <3>3. e[l] \in ToSet(e)
      BY <3>2, <2>2
    <3> QED BY <3>1, <2>1, <3>3
  <2>4. CASE j \in b + 1 .. Len(e)
    BY <2>4, <2>1, <2>2, <1>4
  <2> QED BY <2>3, <2>4, <1>1
<1>7. ToSet(e) \subseteq ToSet(put)
  <2> SUFFICES ASSUME NEW m \in ToSet(e) PROVE m \in ToSet(put)
    OBVIOUS
  <2>1. PICK j \in 1 .. Len(e) : e[j] = m
    BY ListedAt
  <2>2. \A l \in 1 .. Len(e) : put[l] \in ToSet(put)
    BY <1>3, ListedAt
  <2>3. CASE j = i
    <3>1. to + 1 \in 1 .. Len(e)
      BY <1>1
    <3> QED BY <2>1, <2>2, <2>3, <3>1, <1>1, <1>3
  <2>4. CASE j < i /\ j <= to
    <3>1. j \in 1 .. to
      BY <2>4
    <3> QED BY <3>1, <2>1, <2>2, <2>4, <1>3
  <2>5. CASE j < i /\ j > to
    <3>1. j + 1 \in to + 2 .. Len(e) /\ j + 1 \in 1 .. Len(e) /\ (j + 1) - 1 = j
      BY <2>5, <1>1
    <3> QED BY <3>1, <2>1, <2>2, <2>5, <1>3
  <2>6. CASE j > i /\ j - 1 <= to
    <3>1. j - 1 \in 1 .. to /\ j - 1 \in 1 .. Len(e) /\ (j - 1) + 1 = j /\ ~(j - 1 < i)
      BY <2>6, <1>1
    <3> QED BY <3>1, <2>1, <2>2, <1>3
  <2>7. CASE j > i /\ j - 1 > to
    <3>1. j \in to + 2 .. Len(e) /\ ~(j - 1 < i)
      BY <2>7, <1>1
    <3> QED BY <3>1, <2>1, <2>2, <1>3
  <2> QED BY <2>3, <2>4, <2>5, <2>6, <2>7, <1>1
<1> QED BY <1>3, <1>4, <1>5, <1>6, <1>7 DEF Rearranged, put

(* What a list may be after each set of entries was applied, the last one  *)
(* any of the set.                                                         *)
IsAfter(f, enum, map, N) ==
    f = [S \in SUBSET N |->
            IF S = {} THEN {enum}
            ELSE UNION {{Put(e, n, map[n]) : e \in f[S \ {n}]} : n \in S}]

\* It exists: found for the sets of up to k entries, k from 0 on.
LEMMA AfterExists ==
  ASSUME NEW enum, NEW map, NEW N, IsFiniteSet(N)
  PROVE  \E f : IsAfter(f, enum, map, N)
<1> DEFINE Step(f, S) == IF S = {} THEN {enum}
                         ELSE UNION {{Put(e, n, map[n]) : e \in f[S \ {n}]} : n \in S}
           Upto(k) == {S \in SUBSET N : Cardinality(S) <= k}
           Good(k) == \E f : f = [S \in Upto(k) |-> Step(f, S)]
           Bad == {k \in Nat : ~Good(k)}
<1>1. \A S \in SUBSET N : /\ IsFiniteSet(S) /\ Cardinality(S) \in Nat
                          /\ Cardinality(S) <= Cardinality(N)
                          /\ Cardinality(S) = 0 <=> S = {}
                          /\ \A n \in S : Cardinality(S \ {n}) = Cardinality(S) - 1
  BY FS_Subset, FS_CardinalityType, FS_EmptySet, FS_RemoveElement
<1>2. Good(0)
  <2> DEFINE f == [S \in Upto(0) |-> {enum}]
  <2>1. \A S \in Upto(0) : S = {}
    BY <1>1
  <2>2. f = [S \in Upto(0) |-> Step(f, S)]
    BY <2>1
  <2> QED BY <2>2
<1>3. ASSUME NEW k \in Nat, Good(k) PROVE Good(k + 1)
  <2>1. PICK g : g = [S \in Upto(k) |-> Step(g, S)]
    BY <1>3
  <2> DEFINE f == [S \in Upto(k + 1) |-> Step(g, S)]
  <2>2. ASSUME NEW S \in Upto(k) PROVE f[S] = g[S]
    <3>1. S \in Upto(k + 1)
      BY <1>1
    <3>2. g[S] = Step(g, S)
      BY <2>1
    <3> HIDE DEF Step
    <3> QED BY <3>1, <3>2
  <2>3. ASSUME NEW S \in Upto(k + 1) PROVE Step(g, S) = Step(f, S)
    <3>1. \A n \in S : S \ {n} \in Upto(k)
      BY <1>1
    <3>2. \A n \in S : f[S \ {n}] = g[S \ {n}]
      BY <3>1, <2>2
    <3> HIDE DEF f
    <3> DEFINE A(h, n) == {Put(e, n, map[n]) : e \in h[S \ {n}]}
    <3>3. \A n \in S : A(g, n) = A(f, n)
      BY <3>2
    <3>4. Step(g, S) = IF S = {} THEN {enum} ELSE UNION {A(g, n) : n \in S}
      OBVIOUS
    <3>5. Step(f, S) = IF S = {} THEN {enum} ELSE UNION {A(f, n) : n \in S}
      OBVIOUS
    <3> HIDE DEF A, Step
    <3>6. UNION {A(g, n) : n \in S} = UNION {A(f, n) : n \in S}
      <4>1. ASSUME NEW x PROVE x \in UNION {A(g, n) : n \in S} <=> x \in UNION {A(f, n) : n \in S}
        BY <3>3
      <4> QED BY <4>1
    <3> QED BY <3>4, <3>5, <3>6
  <2>4. f = [S \in Upto(k + 1) |-> Step(f, S)]
    <3> HIDE DEF Step
    <3> QED BY <2>3
  <2> QED BY <2>4
<1> HIDE DEF Good
<1>4. Bad = {}
  <2> SUFFICES ASSUME Bad # {} PROVE FALSE
    OBVIOUS
  <2>1. Min(Bad) \in Bad /\ \A k \in Bad : Min(Bad) <= k
    BY MinOf
  <2>2. PICK m \in Nat : m = Min(Bad)
    BY <2>1
  <2>3. m # 0
    BY <2>1, <2>2, <1>2
  <2>4. m - 1 \in Nat /\ m - 1 \notin Bad /\ (m - 1) + 1 = m
    BY <2>1, <2>2, <2>3
  <2>5. Good(m)
    BY <2>4, <1>3
  <2> QED BY <2>1, <2>2, <2>5
<1>5. Good(Cardinality(N))
  BY <1>1, <1>4
<1>6. Upto(Cardinality(N)) = SUBSET N
  BY <1>1
<1> HIDE DEF Upto
<1> QED BY <1>5, <1>6 DEF Good, IsAfter

\* Names listed in the first b places: there are b at most.
LEMMA NamesFinite ==
  ASSUME NEW q \in Seq(Listed), NEW b \in 0 .. Len(q), NEW S,
         \A n \in S : \E i \in 1 .. b : q[i] = n
  PROVE  IsFiniteSet(S) /\ Cardinality(S) \in Nat /\ Cardinality(S) <= b
<1> DEFINE T == {q[i] : i \in 1 .. b}
           f == [i \in 1 .. b |-> q[i]]
<1>1. b \in Nat
  BY LenProperties
<1>2. IsFiniteSet(1 .. b) /\ Cardinality(1 .. b) = b
  BY <1>1, FS_Interval
<1>3. f \in Surjection(1 .. b, T)
  <2>1. \A i \in 1 .. b : f[i] = q[i] /\ q[i] \in T
    OBVIOUS
  <2>2. \A n \in T : \E i \in 1 .. b : f[i] = n
    OBVIOUS
  <2>3. f \in [1 .. b -> T]
    BY <2>1
  <2> HIDE DEF f, T
  <2> QED BY <2>2, <2>3 DEF Surjection
<1>4. IsFiniteSet(T) /\ Cardinality(T) <= b
  <2> HIDE DEF f, T
  <2> QED BY <1>2, <1>3, FS_Surjection
<1>5. S \in SUBSET T
  OBVIOUS
<1> HIDE DEF T
<1>6. IsFiniteSet(S) /\ Cardinality(S) <= Cardinality(T)
  BY <1>4, <1>5, FS_Subset
<1> QED BY <1>1, <1>4, <1>6, FS_CardinalityType

\* Whatever the order of the entries, names among the first b that are put
\* at indexes among them rearrange those.
LEMMA ReorderedRearranges ==
  ASSUME NEW enum \in Seq(Listed), NEW map, NEW b \in 0 .. Len(enum),
         \A n \in Named(enum, map) : map[n] \in 0 .. b - 1,
         \A i \in b + 1 .. Len(enum) : enum[i] \notin Named(enum, map),
         NEW e \in Reordered(enum, map)
  PROVE  Rearranged(e, enum, b)
<1> DEFINE N == Named(enum, map)
           after == CHOOSE f : IsAfter(f, enum, map, N)
<1>1. N \subseteq ToSet(enum) /\ IsFiniteSet(N) /\ Len(enum) \in Nat
  <2>1. N \subseteq ToSet(enum)
    BY DEF Named
  <2>2. \A n \in N : \E i \in 1 .. Len(enum) : enum[i] = n
    BY <2>1, ListedAt
  <2>3. Len(enum) \in Nat /\ Len(enum) \in 0 .. Len(enum)
    BY LenProperties
  <2> HIDE DEF N
  <2> QED BY <2>1, <2>2, <2>3, NamesFinite
<1>2. IsAfter(after, enum, map, N)
  <2> HIDE DEF N
  <2>1. \E f : IsAfter(f, enum, map, N)
    BY <1>1, AfterExists
  <2> QED BY <2>1
<1>3. e \in after[N]
  BY DEF Reordered, IsAfter
<1> HIDE DEF after
<1> DEFINE Bad == {k \in Nat : \E S \in SUBSET N : Cardinality(S) = k
                                  /\ \E p \in after[S] : ~Rearranged(p, enum, b)}
<1>4. \A S \in SUBSET N : Cardinality(S) \in Nat
                          /\ \A n \in S : Cardinality(S \ {n}) = Cardinality(S) - 1
  <2> HIDE DEF N
  <2> QED BY <1>1, FS_Subset, FS_CardinalityType, FS_RemoveElement
<1>5. Bad = {}
  <2> SUFFICES ASSUME Bad # {} PROVE FALSE
    OBVIOUS
  <2>1. Min(Bad) \in Bad /\ \A k \in Bad : Min(Bad) <= k
    BY MinOf
  <2>2. PICK S \in SUBSET N : Cardinality(S) = Min(Bad) /\ \E p \in after[S] : ~Rearranged(p, enum, b)
    BY <2>1
  <2>3. PICK p \in after[S] : ~Rearranged(p, enum, b)
    BY <2>2
  <2>4. Rearranged(enum, enum, b)
    BY DEF Rearranged
  <2>45. after[S] = IF S = {} THEN {enum}
                    ELSE UNION {{Put(q, n, map[n]) : q \in after[S \ {n}]} : n \in S}
    <3> HIDE DEF N
    <3> QED BY <1>2 DEF IsAfter
  <2>5. S # {}
    BY <2>3, <2>4, <2>45
  <2>6. PICK n \in S : \E r \in after[S \ {n}] : p = Put(r, n, map[n])
    <3>1. p \in UNION {{Put(q, n, map[n]) : q \in after[S \ {n}]} : n \in S}
      BY <2>3, <2>5, <2>45
    <3> QED BY <3>1
  <2>7. PICK r \in after[S \ {n}] : p = Put(r, n, map[n])
    BY <2>6
  <2>8. Rearranged(r, enum, b)
    <3>1. Cardinality(S \ {n}) \notin Bad /\ S \ {n} \in SUBSET N /\ Cardinality(S \ {n}) \in Nat
      BY <1>4, <2>1, <2>2
    <3> QED BY <3>1, <2>7
  <2>9. n \in N /\ map[n] \in 0 .. b - 1
    OBVIOUS
  <2>10. r \in Seq(Listed) /\ Len(r) = Len(enum) /\ n \in ToSet(r)
         /\ \A i \in b + 1 .. Len(r) : r[i] # n
    BY <2>8, <2>9, <1>1 DEF Rearranged
  <2>11. Rearranged(Put(r, n, map[n]), r, b)
    BY <2>9, <2>10, PutRearranges
  <2> QED BY <2>3, <2>7, <2>8, <2>11, RearrangedTwice, <1>1
<1>6. N \in SUBSET N /\ Cardinality(N) \in Nat /\ Cardinality(N) \notin Bad
  BY <1>4, <1>5
<1> QED BY <1>3, <1>6

----------------------------------------------------------------------------
(* What is true of every value of a schema, of a request and of the page.  *)

SchemaInv(sch) == IsSchema(sch) /\ (~sch.moved => Proper(sch))

\* The lists of a schema.
LEMMA SchemaLists ==
  ASSUME NEW sch, IsSchema(sch)
  PROVE  /\ sch.enum \in Seq(Listed) /\ Len(sch.enum) \in Nat /\ DOMAIN sch.enum = 1 .. Len(sch.enum)
         /\ \A i \in 1 .. Len(sch.enum) : sch.enum[i] \in Listed
         /\ Len(sch.created) \in Nat /\ DOMAIN sch.created = 1 .. Len(sch.created)
         /\ \A j \in 1 .. Len(sch.created) : /\ sch.created[j].name \in Names
                                             /\ sch.created[j].cond \in Threshold
<1>1. sch.enum \in Seq(Listed) /\ sch.created \in Seq([name : Names, cond : Threshold])
  BY DEF IsSchema
<1>2. /\ Len(sch.enum) \in Nat /\ DOMAIN sch.enum = 1 .. Len(sch.enum)
      /\ \A i \in 1 .. Len(sch.enum) : sch.enum[i] \in Listed
  BY <1>1, LenProperties
<1>3. /\ Len(sch.created) \in Nat /\ DOMAIN sch.created = 1 .. Len(sch.created)
      /\ \A j \in 1 .. Len(sch.created) : sch.created[j] \in [name : Names, cond : Threshold]
  BY <1>1, LenProperties
<1> QED BY <1>1, <1>2, <1>3

\* The places of an arranged schema.
LEMMA ArrangedPlaces ==
  ASSUME NEW sch, IsSchema(sch), NEW n \in Nat, Arranged(sch, n)
  PROVE  /\ Groups(sch) = 1 .. n
         /\ Checkpoints(sch) = n + 1 .. n + Len(sch.created)
         /\ DefaultKey \notin ToSet(sch.enum)
<1> DEFINE k == Len(sch.created)
<1>1. /\ k \in Nat /\ Len(sch.enum) = n + k + 1 /\ DOMAIN sch.enum = 1 .. n + k + 1
      /\ sch.enum \in Seq(Listed)
      /\ \A j \in 1 .. k : sch.created[j].name \in Names
  BY SchemaLists DEF Arranged
<1>2. \A i \in 1 .. n : IsGroup(sch, sch.enum[i])
  BY DEF Arranged
<1>3. ASSUME NEW i \in n + 1 .. n + k
      PROVE  sch.enum[i] \in DOMAIN sch.defs /\ ~IsGroup(sch, sch.enum[i]) /\ sch.enum[i] \in Names
  <2>1. PICK j \in 1 .. k : n + k + 1 - j = i
    <3> HIDE DEF k
    <3>1. k \in Nat
      BY <1>1
    <3>2. n + k + 1 - i \in 1 .. k /\ n + k + 1 - (n + k + 1 - i) = i
      BY <3>1
    <3> QED BY <3>2
  <2>2. /\ sch.enum[n + k + 1 - j] = sch.created[j].name
        /\ sch.created[j].name \in DOMAIN sch.defs
        /\ sch.defs[sch.created[j].name].is = "range"
    <3>1. \A conds : Checkpoint(conds).is = "range"
      BY DEF Checkpoint
    <3>2. /\ sch.enum[n + k + 1 - j] = sch.created[j].name
          /\ sch.created[j].name \in DOMAIN sch.defs
      BY DEF Arranged
    <3>3. \E conds : sch.defs[sch.created[j].name] = Checkpoint(conds)
      BY DEF Arranged
    <3> QED BY <3>1, <3>2, <3>3
  <2> QED BY <1>1, <2>1, <2>2 DEF IsGroup
<1>4. sch.enum[n + k + 1] = Otherwise /\ Otherwise \notin DOMAIN sch.defs
  BY DEF Arranged
<1>5. \A i \in 1 .. n + k + 1 : i \in 1 .. n \/ i \in n + 1 .. n + k \/ i = n + k + 1
  BY <1>1
<1>6. /\ 1 .. n \subseteq 1 .. n + k + 1 /\ n + 1 .. n + k \subseteq 1 .. n + k + 1
      /\ \A i \in 1 .. n : i \notin n + 1 .. n + k
  BY <1>1
<1> HIDE DEF k
<1>7. Groups(sch) = 1 .. n
  BY <1>1, <1>2, <1>3, <1>4, <1>5, <1>6 DEF Groups, IsGroup
<1>8. Checkpoints(sch) = n + 1 .. n + k
  <2>1. {i \in DOMAIN sch.enum : sch.enum[i] \in DOMAIN sch.defs} = 1 .. n + k
    <3>1. \A i \in 1 .. n + k : i \in 1 .. n \/ i \in n + 1 .. n + k
      BY <1>1
    <3>2. \A i \in 1 .. n + k : i \in 1 .. n + k + 1 /\ i # n + k + 1
      BY <1>1
    <3>3. \A i \in 1 .. n + k + 1 : i # n + k + 1 => i \in 1 .. n + k
      BY <1>1
    <3> QED BY <1>1, <1>2, <1>3, <1>4, <3>1, <3>2, <3>3 DEF IsGroup
  <2> QED BY <2>1, <1>1, <1>7 DEF Checkpoints
<1>9. DefaultKey \notin ToSet(sch.enum)
  <2> SUFFICES ASSUME NEW i \in 1 .. n + k + 1, sch.enum[i] = DefaultKey PROVE FALSE
    BY <1>1 DEF ToSet
  <2>1. i \notin 1 .. n
    BY <1>2 DEF IsSchema
  <2> QED BY <2>1, <1>3, <1>4, <1>5, ConstantsAssumption
<1> QED BY <1>7, <1>8, <1>9 DEF k

\* Without the default a schema is arranged, and has the groups it had.
LEMMA WithoutDefaultInv ==
  ASSUME NEW old, SchemaInv(old), NEW sch, sch = WithoutDefault(old)
  PROVE  /\ IsSchema(sch) /\ sch.moved = old.moved /\ sch.created = old.created
         /\ ~sch.moved => \E n \in 0 .. Len(sch.enum) : Arranged(sch, n)
         /\ ToSet(sch.enum) \subseteq ToSet(old.enum)
         /\ \A m : IsGroup(sch, m) <=> IsGroup(old, m)
<1> USE DEF SchemaInv
<1>1. CASE DefaultKey \notin ToSet(old.enum)
  <2>1. sch = old
    BY <1>1 DEF WithoutDefault
  <2>2. old # NewDimension
    <3>1. DefaultKey \in ToSet(NewDimension.enum)
      BY DEF NewDimension, ToSet
    <3> QED BY <3>1, <1>1
  <2> QED BY <2>1, <2>2 DEF Proper
<1>2. CASE DefaultKey \in ToSet(old.enum)
  <2> DEFINE i == Index(old.enum, DefaultKey)
             enum == RemoveAt(old.enum, i)
             defs == [n \in DOMAIN old.defs \ {DefaultKey} |-> old.defs[n]]
  <2>1. /\ i \in 1 .. Len(old.enum) /\ old.enum[i] = DefaultKey
        /\ old.enum \in Seq(Listed) /\ Len(old.enum) \in Nat
    BY <1>2, IndexOf, SchemaLists
  <2>2. sch = [enum |-> enum, defs |-> defs, created |-> old.created, moved |-> old.moved]
    BY <1>2 DEF WithoutDefault, IsSchema
  <2> HIDE DEF i
  <2>3. /\ enum \in Seq(Listed) /\ Len(enum) = Len(old.enum) - 1
        /\ \A j \in 1 .. Len(old.enum) - 1 : enum[j] = IF j < i THEN old.enum[j] ELSE old.enum[j + 1]
    BY <2>1, RemoveAtProperties
  <2> HIDE DEF enum
  <2>4. ToSet(enum) \subseteq ToSet(old.enum)
    <3> SUFFICES ASSUME NEW m \in ToSet(enum) PROVE m \in ToSet(old.enum)
      OBVIOUS
    <3>1. PICK j \in 1 .. Len(old.enum) - 1 : enum[j] = m
      BY <2>3, ListedAt
    <3>2. j \in 1 .. Len(old.enum) /\ j + 1 \in 1 .. Len(old.enum)
      BY <2>1
    <3> QED BY <3>1, <3>2, <2>1, <2>3, ListedAt
  <2>5. ASSUME NEW m \in ToSet(old.enum), m # DefaultKey PROVE m \in ToSet(enum)
    <3>1. PICK j \in 1 .. Len(old.enum) : old.enum[j] = m
      BY <2>1, ListedAt
    <3>2. \A l \in 1 .. Len(old.enum) - 1 : enum[l] \in ToSet(enum)
      BY <2>3, ListedAt
    <3>3. j # i
      BY <2>1, <3>1, <2>5
    <3>4. CASE j < i
      <4>1. j \in 1 .. Len(old.enum) - 1
        BY <2>1, <3>4
      <4> QED BY <4>1, <3>4, <3>1, <3>2, <2>3
    <3>5. CASE j > i
      <4>1. j - 1 \in 1 .. Len(old.enum) - 1 /\ (j - 1) + 1 = j /\ ~(j - 1 < i)
        BY <2>1, <3>5
      <4> QED BY <4>1, <3>1, <3>2, <2>3
    <3> QED BY <3>3, <3>4, <3>5, <2>1
  <2>6. IsSchema(sch)
    BY <2>2, <2>3, <2>5 DEF IsSchema, IsGroup
  <2>7. \A m : IsGroup(sch, m) <=> IsGroup(old, m)
    BY <2>2 DEF IsSchema, IsGroup
  <2>8. ASSUME ~sch.moved PROVE Arranged(sch, 0) /\ 0 \in 0 .. Len(sch.enum)
    <3>1. old = NewDimension
      BY <1>2, <2>2, <2>8, ArrangedPlaces, SchemaLists DEF Proper
    <3>2. old.enum = <<DefaultKey, Otherwise>> /\ old.created = <<>> /\ Len(old.enum) = 2
      BY <3>1 DEF NewDimension
    <3>3. DOMAIN old.defs = {DefaultKey}
      BY <3>1 DEF NewDimension
    <3>4. i = 1
      BY <2>1, <3>2, ConstantsAssumption
    <3>5. Len(enum) = 1 /\ enum[1] = Otherwise
      BY <2>3, <3>2, <3>4
    <3> QED BY <2>2, <3>2, <3>3, <3>5 DEF Arranged
  <2>9. sch.moved = old.moved /\ sch.created = old.created /\ sch.enum = enum
    BY <2>2
  <2> HIDE DEF defs
  <2> QED BY <2>9, <2>4, <2>6, <2>7, <2>8
<1> QED BY <1>1, <1>2

\* A new list with one more name has that name and the others.
LEMMA InsertedNames ==
  ASSUME NEW q \in Seq(Listed), NEW i \in 1 .. Len(q) + 1, NEW n \in Listed
  PROVE  n \in ToSet(InsertAt(q, i, n)) /\ ToSet(q) \subseteq ToSet(InsertAt(q, i, n))
<1>0. PICK r : r = InsertAt(q, i, n)
  OBVIOUS
<1>1. Len(q) \in Nat
  BY LenProperties
<1>2. /\ r \in Seq(Listed) /\ Len(r) = Len(q) + 1
      /\ \A j \in 1 .. Len(q) + 1 : r[j] = IF j < i THEN q[j] ELSE IF j = i THEN n ELSE q[j - 1]
  <2>1. InsertAt(q, i, n) \in Seq(Listed)
    BY InsertAtProperties
  <2>2. Len(InsertAt(q, i, n)) = Len(q) + 1
    BY InsertAtProperties
  <2>3. \A j \in 1 .. Len(q) + 1 :
          InsertAt(q, i, n)[j] = IF j < i THEN q[j] ELSE IF j = i THEN n ELSE q[j - 1]
    BY InsertAtProperties
  <2> QED BY <1>0, <2>1, <2>2, <2>3
<1>3. \A j \in 1 .. Len(q) + 1 : r[j] \in ToSet(r)
  BY <1>2, ListedAt
<1>4. n \in ToSet(r)
  BY <1>1, <1>2, <1>3
<1>5. ASSUME NEW m \in ToSet(q) PROVE m \in ToSet(r)
  <2>1. PICK j \in 1 .. Len(q) : q[j] = m
    BY ListedAt
  <2>2. CASE j < i
    <3>1. j \in 1 .. Len(q) + 1
      BY <1>1
    <3> QED BY <2>1, <2>2, <3>1, <1>2, <1>3
  <2>3. CASE ~(j < i)
    <3>1. j + 1 \in 1 .. Len(q) + 1 /\ ~(j + 1 < i) /\ j + 1 # i /\ (j + 1) - 1 = j
      BY <2>3, <1>1
    <3> QED BY <2>1, <3>1, <1>2, <1>3
  <2> QED BY <2>2, <2>3
<1> QED BY <1>0, <1>4, <1>5

\* The place of a new checkpoint and the one it bounds.
LEMMA CheckpointPlace ==
  ASSUME NEW sch, IsSchema(sch)
  PROVE  /\ Groups(sch) # {} => Max(Groups(sch)) \in Groups(sch) /\ \A i \in Groups(sch) : i <= Max(Groups(sch))
         /\ Checkpoints(sch) # {} => /\ Min(Checkpoints(sch)) \in Checkpoints(sch)
                                     /\ \A i \in Checkpoints(sch) : Min(Checkpoints(sch)) <= i
         /\ Groups(sch) \subseteq 1 .. Len(sch.enum) /\ Checkpoints(sch) \subseteq 1 .. Len(sch.enum)
<1>1. DOMAIN sch.enum = 1 .. Len(sch.enum) /\ Len(sch.enum) \in Nat
  BY SchemaLists
<1>2. Groups(sch) \subseteq 1 .. Len(sch.enum) /\ Checkpoints(sch) \subseteq 1 .. Len(sch.enum)
  BY <1>1 DEF Groups, Checkpoints
<1>3. Groups(sch) \subseteq 0 .. Len(sch.enum) /\ Checkpoints(sch) \subseteq Nat
  BY <1>1, <1>2
<1> QED BY <1>1, <1>2, <1>3, MinOf, MaxOf

\* Adding a checkpoint leaves a schema with the groups it had, and its
\* checkpoints arranged.
LEMMA AddCheckpointInv ==
  ASSUME NEW old, SchemaInv(old), NEW name \in Names, name \notin ToSet(old.enum),
         NEW c \in Threshold, NEW new, new = AddCheckpoint(old, name, c)
  PROVE  /\ SchemaInv(new) /\ new.moved = old.moved
         /\ \A m : IsGroup(old, m) => IsGroup(new, m)
<1> DEFINE sch == WithoutDefault(old)
           at == IF Groups(sch) = {} THEN 1 ELSE Max(Groups(sch)) + 1
           newest == sch.enum[Min(Checkpoints(sch))]
           bounded == Checkpoint(sch.defs[newest].conds \cup {Complement(c)})
           kept == IF Checkpoints(sch) = {} THEN sch.defs ELSE [sch.defs EXCEPT ![newest] = bounded]
           enum == InsertAt(sch.enum, at, name)
           defs == Define(kept, name, Checkpoint({c}))
           created == Append(sch.created, [name |-> name, cond |-> c])
<1>1. /\ IsSchema(sch) /\ sch.moved = old.moved
      /\ ~sch.moved => \E n \in 0 .. Len(sch.enum) : Arranged(sch, n)
      /\ name \notin ToSet(sch.enum)
      /\ \A m : IsGroup(sch, m) <=> IsGroup(old, m)
  BY WithoutDefaultInv
<1>2. new = [sch EXCEPT !.enum = enum, !.defs = defs, !.created = created]
  BY DEF AddCheckpoint
<1> HIDE DEF sch
<1>3. new = [enum |-> enum, defs |-> defs, created |-> created, moved |-> sch.moved]
  <2> HIDE DEF enum, defs, created
  <2> QED BY <1>1, <1>2 DEF IsSchema
<1>4. at \in 1 .. Len(sch.enum) + 1 /\ name \in Listed /\ sch.enum \in Seq(Listed)
  <2>1. Len(sch.enum) \in Nat
    BY <1>1, SchemaLists
  <2>2. CASE Groups(sch) = {}
    BY <2>1, <2>2, <1>1 DEF IsSchema, Listed
  <2>3. CASE Groups(sch) # {}
    <3>1. Max(Groups(sch)) \in 1 .. Len(sch.enum)
      BY <2>3, <1>1, CheckpointPlace
    <3> QED BY <2>1, <2>3, <3>1, <1>1 DEF IsSchema, Listed
  <2> QED BY <2>2, <2>3
<1> HIDE DEF at
<1>5. /\ enum \in Seq(Listed) /\ Len(enum) = Len(sch.enum) + 1
      /\ \A j \in 1 .. Len(sch.enum) + 1 :
            enum[j] = IF j < at THEN sch.enum[j] ELSE IF j = at THEN name ELSE sch.enum[j - 1]
      /\ name \in ToSet(enum) /\ ToSet(sch.enum) \subseteq ToSet(enum)
  <2>1. PICK q \in Seq(Listed) : q = sch.enum
    BY <1>4
  <2>2. at \in 1 .. Len(q) + 1 /\ name \in Listed
    BY <2>1, <1>4
  <2>3. /\ InsertAt(q, at, name) \in Seq(Listed) /\ Len(InsertAt(q, at, name)) = Len(q) + 1
        /\ \A j \in 1 .. Len(q) + 1 :
              InsertAt(q, at, name)[j] = IF j < at THEN q[j] ELSE IF j = at THEN name ELSE q[j - 1]
    BY <2>2, InsertAtProperties
  <2>4. name \in ToSet(InsertAt(q, at, name)) /\ ToSet(q) \subseteq ToSet(InsertAt(q, at, name))
    BY <2>2, InsertedNames
  <2> QED BY <2>1, <2>3, <2>4
<1> HIDE DEF enum
<1>6. /\ [name |-> name, cond |-> c] \in [name : Names, cond : Threshold]
      /\ created \in Seq([name : Names, cond : Threshold])
      /\ Len(created) = Len(sch.created) + 1
      /\ \A j \in 1 .. Len(sch.created) : created[j] = sch.created[j]
      /\ created[Len(sch.created) + 1] = [name |-> name, cond |-> c]
  <2>1. [name |-> name, cond |-> c] \in [name : Names, cond : Threshold]
    OBVIOUS
  <2>2. sch.created \in Seq([name : Names, cond : Threshold])
    BY <1>1 DEF IsSchema
  <2> QED BY <2>1, <2>2, AppendProperties
<1> HIDE DEF created
<1>7. /\ DOMAIN kept = DOMAIN sch.defs
      /\ \A m \in DOMAIN sch.defs :
            kept[m] = IF Checkpoints(sch) # {} /\ m = newest THEN bounded ELSE sch.defs[m]
  <2> HIDE DEF newest, bounded
  <2> QED OBVIOUS
<1>8. Checkpoints(sch) # {} => newest \in DOMAIN sch.defs /\ sch.defs[newest].is # "in"
  <2>1. Checkpoints(sch) # {} => Min(Checkpoints(sch)) \in Checkpoints(sch)
    BY <1>1, CheckpointPlace
  <2> QED BY <2>1 DEF Checkpoints, Groups, IsGroup
<1>9. bounded.is = "range"
  BY DEF Checkpoint
<1>10. name \notin DOMAIN sch.defs
  BY <1>1 DEF IsSchema
<1> HIDE DEF kept
<1>11. /\ DOMAIN defs = DOMAIN sch.defs \cup {name}
       /\ defs[name] = Checkpoint({c})
       /\ \A m \in DOMAIN sch.defs : defs[m] = kept[m]
  BY <1>7, <1>10 DEF Define
<1> HIDE DEF defs, bounded, newest
<1>12. \A m : IsGroup(new, m) <=> IsGroup(sch, m)
  <2>1. Checkpoint({c}).is = "range"
    BY DEF Checkpoint
  <2> QED BY <2>1, <1>3, <1>7, <1>8, <1>9, <1>10, <1>11 DEF IsGroup
<1>13. IsSchema(new)
  <2>1. DOMAIN defs \subseteq ToSet(enum)
    BY <1>1, <1>5, <1>11 DEF IsSchema
  <2> QED BY <2>1, <1>1, <1>3, <1>5, <1>6, <1>12 DEF IsSchema
<1>14. ASSUME NEW n \in 0 .. Len(sch.enum), Arranged(sch, n)
       PROVE  Arranged(new, n) /\ n \in 0 .. Len(new.enum)
  <2> DEFINE k == Len(sch.created)
  <2>1. /\ k \in Nat /\ n \in Nat /\ Len(sch.enum) = n + k + 1
        /\ Groups(sch) = 1 .. n /\ Checkpoints(sch) = n + 1 .. n + k
    <3>1. k \in Nat /\ Len(sch.enum) \in Nat
      BY <1>1, SchemaLists
    <3>2. n \in Nat
      BY <3>1
    <3>3. Groups(sch) = 1 .. n /\ Checkpoints(sch) = n + 1 .. n + k
      BY <3>2, <1>1, <1>14, ArrangedPlaces
    <3> QED BY <3>1, <3>2, <3>3, <1>14 DEF Arranged
  <2>20. /\ Len(created) = k + 1 /\ created[k + 1] = [name |-> name, cond |-> c]
         /\ \A j \in 1 .. k : created[j] = sch.created[j]
    BY <1>6
  <2>21. /\ \A j \in 1 .. k : LET bound == IF j = k THEN {} ELSE {Complement(sch.created[j + 1].cond)} IN
            /\ sch.enum[n + k + 1 - j] = sch.created[j].name
            /\ sch.created[j].name \in DOMAIN sch.defs
            /\ sch.defs[sch.created[j].name] = Checkpoint({sch.created[j].cond} \cup bound)
            /\ \A l \in 1 .. k : sch.created[j].name = sch.created[l].name => j = l
         /\ sch.enum[n + k + 1] = Otherwise /\ Otherwise \notin DOMAIN sch.defs
    BY <1>14 DEF Arranged
  <2> HIDE DEF k
  <2>2. at = n + 1
    <3>1. CASE n = 0
      <4>1. Groups(sch) = {}
        BY <2>1, <3>1
      <4> QED BY <4>1, <3>1 DEF at
    <3>2. CASE n # 0
      <4>0. n \in 1 .. n
        BY <2>1, <3>2
      <4>1. Groups(sch) # {} /\ n \in Groups(sch)
        BY <4>0, <2>1
      <4>2. Max(Groups(sch)) \in 1 .. n /\ n <= Max(Groups(sch))
        BY <4>1, <2>1, <1>1, CheckpointPlace
      <4>3. Max(Groups(sch)) = n
        BY <4>2, <2>1
      <4> QED BY <4>1, <4>3 DEF at
    <3> QED BY <3>1, <3>2
  <2>3. ASSUME k # 0 PROVE newest = sch.created[k].name
    <3>1. n + 1 \in Checkpoints(sch)
      BY <2>1, <2>3
    <3>2. Min(Checkpoints(sch)) \in n + 1 .. n + k /\ Min(Checkpoints(sch)) <= n + 1
      BY <3>1, <2>1, <1>1, CheckpointPlace
    <3>3. Min(Checkpoints(sch)) = n + 1
      BY <3>2, <2>1
    <3>4. k \in 1 .. k /\ n + k + 1 - k = n + 1
      BY <2>1, <2>3
    <3>5. sch.enum[n + k + 1 - k] = sch.created[k].name
      BY <3>4, <2>21
    <3> QED BY <3>3, <3>4, <3>5 DEF newest
  <2>4. Len(enum) = n + (k + 1) + 1 /\ Len(created) = k + 1
    BY <2>1, <1>5, <2>20
  <2>5. ASSUME NEW i \in 1 .. n PROVE IsGroup(new, enum[i])
    <3>1. i \in 1 .. Len(sch.enum) + 1 /\ i < at
      BY <2>1, <2>2
    <3>2. enum[i] = sch.enum[i]
      BY <3>1, <1>5
    <3> QED BY <3>2, <1>12, <1>14 DEF Arranged
  <2>6. ASSUME NEW j \in 1 .. k
        PROVE  /\ sch.enum[n + k + 1 - j] = sch.created[j].name
               /\ sch.created[j].name \in DOMAIN sch.defs /\ sch.created[j].name # name
               /\ enum[n + (k + 1) + 1 - j] = sch.created[j].name
    <3>1. sch.enum[n + k + 1 - j] = sch.created[j].name /\ sch.created[j].name \in DOMAIN sch.defs
      BY <2>21
    <3>2. LET i == n + (k + 1) + 1 - j IN
          i \in 1 .. Len(sch.enum) + 1 /\ ~(i < at) /\ i # at /\ i - 1 = n + k + 1 - j
      BY <2>1, <2>2
    <3>3. enum[n + (k + 1) + 1 - j] = sch.enum[n + k + 1 - j]
      BY <3>2, <1>5
    <3> QED BY <3>1, <3>3, <1>10
  <2>7. enum[n + (k + 1) + 1 - (k + 1)] = name
    <3>1. n + (k + 1) + 1 - (k + 1) = n + 1 /\ n + 1 \in 1 .. Len(sch.enum) + 1 /\ ~(n + 1 < n + 1)
      BY <2>1
    <3> QED BY <3>1, <2>2, <1>5
  <2>8. ASSUME NEW j \in 1 .. k
        PROVE  defs[created[j].name] = Checkpoint({created[j].cond} \cup {Complement(created[j + 1].cond)})
    <3>1. created[j] = sch.created[j]
      BY <2>20
    <3>2. CASE j = k
      <4>1. sch.defs[sch.created[k].name] = Checkpoint({sch.created[k].cond} \cup {})
        BY <3>2, <2>21
      <4>7. k # 0 /\ n + 1 \in n + 1 .. n + k
        BY <2>1, <3>2
      <4>2. newest = sch.created[k].name /\ Checkpoints(sch) # {}
        BY <2>1, <2>3, <4>7
      <4>3. defs[newest] = bounded
        BY <4>2, <2>6, <3>2, <1>7, <1>11
      <4>4. sch.defs[newest].conds = {sch.created[k].cond}
        BY <4>1, <4>2 DEF Checkpoint
      <4>5. bounded = Checkpoint({sch.created[k].cond} \cup {Complement(c)})
        BY <4>4 DEF bounded
      <4>6. created[j + 1].cond = c
        BY <3>2, <2>20
      <4> QED BY <3>1, <3>2, <4>2, <4>3, <4>5, <4>6
    <3>3. CASE j # k
      <4>1. j + 1 \in 1 .. k /\ k \in 1 .. k /\ k # 0
        BY <2>1, <3>3
      <4>2. sch.created[j].name # sch.created[k].name
        BY <4>1, <3>3, <2>21
      <4>3. defs[sch.created[j].name] = sch.defs[sch.created[j].name]
        BY <4>1, <4>2, <2>3, <2>6, <1>7, <1>11
      <4>4. sch.defs[sch.created[j].name]
              = Checkpoint({sch.created[j].cond} \cup {Complement(sch.created[j + 1].cond)})
        BY <3>3, <2>21
      <4>5. created[j + 1] = sch.created[j + 1]
        BY <4>1, <2>20
      <4> QED BY <3>1, <4>3, <4>4, <4>5
    <3> QED BY <3>2, <3>3
  <2>9. enum[n + (k + 1) + 1] = Otherwise /\ Otherwise \notin DOMAIN defs
    <3>1. /\ n + (k + 1) + 1 \in 1 .. Len(sch.enum) + 1 /\ ~(n + (k + 1) + 1 < n + 1)
          /\ n + (k + 1) + 1 # n + 1 /\ n + (k + 1) + 1 - 1 = n + k + 1
      BY <2>1
    <3>4. PICK i : i = n + (k + 1) + 1
      OBVIOUS
    <3>5. i \in 1 .. Len(sch.enum) + 1 /\ ~(i < at) /\ i # at /\ i - 1 = n + k + 1
      BY <3>1, <3>4, <2>1, <2>2
    <3>6. enum[i] = sch.enum[i - 1]
      BY <3>5, <1>5
    <3>2. enum[n + (k + 1) + 1] = sch.enum[n + k + 1]
      BY <3>4, <3>5, <3>6
    <3>3. sch.enum[n + k + 1] = Otherwise /\ Otherwise \notin DOMAIN sch.defs
      BY <2>21
    <3> QED BY <3>2, <3>3, <1>11, ConstantsAssumption
  <2>10. ASSUME NEW j \in 1 .. k + 1
         PROVE  /\ enum[n + (k + 1) + 1 - j] = created[j].name
                /\ created[j].name \in DOMAIN defs
                /\ defs[created[j].name]
                     = Checkpoint({created[j].cond} \cup
                                  (IF j = k + 1 THEN {} ELSE {Complement(created[j + 1].cond)}))
    <3>1. CASE j \in 1 .. k
      <4>1. j # k + 1 /\ created[j] = sch.created[j]
        BY <3>1, <2>1, <2>20
      <4> QED BY <4>1, <3>1, <2>6, <2>8, <1>11
    <3>2. CASE j = k + 1
      <4>1. created[j].name = name /\ created[j].cond = c
        BY <3>2, <2>20
      <4> QED BY <4>1, <3>2, <2>7, <1>11
    <3> QED BY <3>1, <3>2, <2>1
  <2>11. ASSUME NEW j \in 1 .. k + 1, NEW l \in 1 .. k + 1, created[j].name = created[l].name
         PROVE  j = l
    <3>1. (j \in 1 .. k \/ j = k + 1) /\ (l \in 1 .. k \/ l = k + 1)
      BY <2>1
    <3>2. CASE j \in 1 .. k /\ l \in 1 .. k
      BY <3>2, <2>11, <2>20, <2>21
    <3>3. CASE j \in 1 .. k /\ l = k + 1
      BY <3>3, <2>11, <2>6, <2>20
    <3>4. CASE j = k + 1 /\ l \in 1 .. k
      BY <3>4, <2>11, <2>6, <2>20
    <3> QED BY <3>1, <3>2, <3>3, <3>4
  <2>12. n \in 0 .. Len(enum)
    BY <2>1, <2>4
  <2>13. new.enum = enum /\ new.defs = defs /\ new.created = created
    BY <1>3
  <2>14. Len(new.created) = k + 1
    BY <2>4, <2>13
  <2>15. Arranged(new, n)
    <3> DEFINE l == Len(new.created)
    <3>1. Len(new.enum) = n + l + 1
      BY <2>4, <2>13, <2>14
    <3>2. \A i \in 1 .. n : IsGroup(new, new.enum[i])
      BY <2>5, <2>13
    <3>3. ASSUME NEW j \in 1 .. l
          PROVE  LET bound == IF j = l THEN {} ELSE {Complement(new.created[j + 1].cond)} IN
                 /\ new.enum[n + l + 1 - j] = new.created[j].name
                 /\ new.created[j].name \in DOMAIN new.defs
                 /\ new.defs[new.created[j].name] = Checkpoint({new.created[j].cond} \cup bound)
                 /\ \A m \in 1 .. l : new.created[j].name = new.created[m].name => j = m
      <4>1. j \in 1 .. k + 1 /\ l = k + 1
        BY <2>14
      <4>2. \A m \in 1 .. l : new.created[j].name = new.created[m].name => j = m
        BY <4>1, <2>11, <2>13
      <4> HIDE DEF l
      <4> QED BY <4>1, <4>2, <2>10, <2>13
    <3>4. new.enum[n + l + 1] = Otherwise /\ Otherwise \notin DOMAIN new.defs
      BY <2>9, <2>13, <2>14
    <3> QED BY <3>1, <3>2, <3>3, <3>4 DEF Arranged
  <2> QED BY <2>12, <2>13, <2>15
<1> QED BY <1>1, <1>3, <1>12, <1>13, <1>14 DEF SchemaInv, Proper

\* A group put before all others leaves the rest as it was.
LEMMA AddGroupInv ==
  ASSUME NEW old, SchemaInv(old), NEW name \in Names, name \notin ToSet(old.enum),
         NEW members, NEW new, new = AddGroup(old, name, members)
  PROVE  /\ SchemaInv(new) /\ new.moved = old.moved
         /\ \A m : IsGroup(old, m) => IsGroup(new, m)
<1> DEFINE sch == WithoutDefault(old)
           enum == <<name>> \o sch.enum
           defs == Define(sch.defs, name, Group(members))
<1>1. /\ IsSchema(sch) /\ sch.moved = old.moved
      /\ ~sch.moved => \E n \in 0 .. Len(sch.enum) : Arranged(sch, n)
      /\ name \notin ToSet(sch.enum)
      /\ \A m : IsGroup(sch, m) <=> IsGroup(old, m)
  BY WithoutDefaultInv
<1>2. new = [sch EXCEPT !.enum = enum, !.defs = defs]
  BY DEF AddGroup
<1> HIDE DEF sch
<1>3. /\ new.enum = enum /\ new.defs = defs /\ new.created = sch.created /\ new.moved = sch.moved
      /\ new = [enum |-> new.enum, defs |-> new.defs, created |-> new.created, moved |-> new.moved]
  <2> HIDE DEF enum, defs
  <2> QED BY <1>1, <1>2 DEF IsSchema
<1>4. name \in Listed /\ sch.enum \in Seq(Listed) /\ Len(sch.enum) \in Nat
      /\ name # DefaultKey /\ name # Otherwise
  BY <1>1, SchemaLists, ConstantsAssumption DEF Listed
<1>5. /\ enum \in Seq(Listed) /\ Len(enum) = Len(sch.enum) + 1
      /\ enum[1] = name /\ \A j \in 1 .. Len(sch.enum) : enum[j + 1] = sch.enum[j]
  <2> DEFINE w == <<name>>
  <2>1. w \in Seq(Listed) /\ Len(w) = 1 /\ w[1] = name
    BY <1>4
  <2> HIDE DEF w
  <2>2. /\ w \o sch.enum \in Seq(Listed) /\ Len(w \o sch.enum) = Len(w) + Len(sch.enum)
        /\ \A j \in 1 .. Len(w) + Len(sch.enum) :
              (w \o sch.enum)[j] = IF j <= Len(w) THEN w[j] ELSE sch.enum[j - Len(w)]
    BY <2>1, <1>4, ConcatProperties
  <2>3. (w \o sch.enum)[1] = name
    BY <2>1, <2>2, <1>4
  <2>4. ASSUME NEW j \in 1 .. Len(sch.enum) PROVE (w \o sch.enum)[j + 1] = sch.enum[j]
    <3>1. j + 1 \in 1 .. Len(w) + Len(sch.enum) /\ ~(j + 1 <= Len(w)) /\ (j + 1) - Len(w) = j
      BY <2>1, <1>4
    <3> QED BY <3>1, <2>2
  <2> QED BY <2>1, <2>2, <2>3, <2>4, <1>4 DEF w
<1> HIDE DEF enum
<1>6. name \in ToSet(enum) /\ ToSet(sch.enum) \subseteq ToSet(enum)
  <2>1. \A j \in 1 .. Len(sch.enum) + 1 : enum[j] \in ToSet(enum)
    BY <1>5, ListedAt
  <2>2. name \in ToSet(enum)
    <3>1. 1 \in 1 .. Len(sch.enum) + 1
      BY <1>4
    <3> QED BY <2>1, <3>1, <1>5
  <2>3. ASSUME NEW m \in ToSet(sch.enum) PROVE m \in ToSet(enum)
    <3>1. PICK j \in 1 .. Len(sch.enum) : sch.enum[j] = m
      BY <1>4, ListedAt
    <3>2. j + 1 \in 1 .. Len(sch.enum) + 1
      BY <1>4
    <3> QED BY <2>1, <3>1, <3>2, <1>5
  <2> QED BY <2>2, <2>3
<1>7. name \notin DOMAIN sch.defs
  BY <1>1 DEF IsSchema
<1>8. /\ DOMAIN defs = DOMAIN sch.defs \cup {name}
      /\ defs[name].is = "in"
      /\ \A m \in DOMAIN sch.defs : defs[m] = sch.defs[m]
  BY <1>7 DEF Define, Group
<1> HIDE DEF defs
<1>9. \A m : IsGroup(new, m) <=> m = name \/ IsGroup(sch, m)
  BY <1>3, <1>7, <1>8 DEF IsGroup
<1>10. IsSchema(new)
  <2>1. DOMAIN defs \subseteq ToSet(enum)
    BY <1>1, <1>6, <1>8 DEF IsSchema
  <2> QED BY <2>1, <1>1, <1>3, <1>4, <1>5, <1>9 DEF IsSchema
<1>11. ASSUME NEW n \in 0 .. Len(sch.enum), Arranged(sch, n)
       PROVE  Arranged(new, n + 1) /\ n + 1 \in 0 .. Len(new.enum)
  <2> DEFINE k == Len(sch.created)
  <2>1. /\ k \in Nat /\ n \in Nat /\ Len(sch.enum) = n + k + 1
    <3>1. k \in Nat /\ Len(sch.enum) \in Nat
      BY <1>1, SchemaLists
    <3> QED BY <3>1, <1>11 DEF Arranged
  <2>2. /\ \A j \in 1 .. k : LET bound == IF j = k THEN {} ELSE {Complement(sch.created[j + 1].cond)} IN
            /\ sch.enum[n + k + 1 - j] = sch.created[j].name
            /\ sch.created[j].name \in DOMAIN sch.defs
            /\ sch.defs[sch.created[j].name] = Checkpoint({sch.created[j].cond} \cup bound)
            /\ \A l \in 1 .. k : sch.created[j].name = sch.created[l].name => j = l
        /\ sch.enum[n + k + 1] = Otherwise /\ Otherwise \notin DOMAIN sch.defs
        /\ \A i \in 1 .. n : IsGroup(sch, sch.enum[i])
    BY <1>11 DEF Arranged
  <2>3. Len(new.created) = k
    BY <1>3
  <2> HIDE DEF k
  <2>4. Len(enum) = (n + 1) + k + 1 /\ n + 1 \in 0 .. Len(enum)
    BY <2>1, <1>5
  <2>5. ASSUME NEW i \in 1 .. n + 1 PROVE IsGroup(new, enum[i])
    <3>1. CASE i = 1
      BY <3>1, <1>5, <1>9
    <3>2. CASE i # 1
      <4>1. i - 1 \in 1 .. n /\ i - 1 \in 1 .. Len(sch.enum) /\ (i - 1) + 1 = i
        BY <3>2, <2>1
      <4>2. enum[i] = sch.enum[i - 1]
        BY <4>1, <1>5
      <4> QED BY <4>1, <4>2, <2>2, <1>9
    <3> QED BY <3>1, <3>2
  <2>6. ASSUME NEW j \in 0 .. k PROVE enum[(n + 1) + k + 1 - j] = sch.enum[n + k + 1 - j]
    <3>1. n + k + 1 - j \in 1 .. Len(sch.enum) /\ (n + k + 1 - j) + 1 = (n + 1) + k + 1 - j
      BY <2>1
    <3>2. enum[(n + k + 1 - j) + 1] = sch.enum[n + k + 1 - j]
      BY <3>1, <1>5
    <3> QED BY <3>1, <3>2
  <2>7. \A j \in 1 .. k : j \in 0 .. k
    BY <2>1
  <2>8. ASSUME NEW j \in 1 .. k
        PROVE  LET bound == IF j = k THEN {} ELSE {Complement(new.created[j + 1].cond)} IN
               /\ new.enum[(n + 1) + k + 1 - j] = new.created[j].name
               /\ new.created[j].name \in DOMAIN new.defs
               /\ new.defs[new.created[j].name] = Checkpoint({new.created[j].cond} \cup bound)
               /\ \A l \in 1 .. k : new.created[j].name = new.created[l].name => j = l
    <3>1. enum[(n + 1) + k + 1 - j] = sch.created[j].name
      BY <2>2, <2>6, <2>7
    <3>2. LET bound == IF j = k THEN {} ELSE {Complement(sch.created[j + 1].cond)} IN
          /\ sch.created[j].name \in DOMAIN sch.defs
          /\ sch.defs[sch.created[j].name] = Checkpoint({sch.created[j].cond} \cup bound)
          /\ \A l \in 1 .. k : sch.created[j].name = sch.created[l].name => j = l
      BY <2>2
    <3>3. /\ sch.created[j].name \in DOMAIN defs
          /\ defs[sch.created[j].name] = sch.defs[sch.created[j].name]
      BY <3>2, <1>8
    <3> QED BY <3>1, <3>2, <3>3, <1>3
  <2>9. enum[(n + 1) + k + 1] = Otherwise /\ Otherwise \notin DOMAIN defs
    <3>1. 0 \in 0 .. k /\ (n + 1) + k + 1 - 0 = (n + 1) + k + 1 /\ n + k + 1 - 0 = n + k + 1
      BY <2>1
    <3>2. enum[(n + 1) + k + 1] = sch.enum[n + k + 1]
      BY <3>1, <2>6
    <3> QED BY <3>2, <2>2, <1>4, <1>8
  <2>10. Arranged(new, n + 1)
    BY <1>3, <2>3, <2>4, <2>5, <2>8, <2>9 DEF Arranged
  <2> QED BY <2>4, <2>10, <1>3
<1>12. ~new.moved => \E n \in 0 .. Len(new.enum) : Arranged(new, n)
  BY <1>1, <1>3, <1>11
<1> QED BY <1>1, <1>3, <1>9, <1>10, <1>12 DEF SchemaInv, Proper

\* The priorities there are: of groups, no more than there are names.
LEMMA PrioritiesCounted ==
  ASSUME NEW sch, IsSchema(sch)
  PROVE  /\ DOMAIN PriorityOf(sch) = {m \in DOMAIN sch.defs : IsGroup(sch, m)}
         /\ IsFiniteSet(DOMAIN PriorityOf(sch))
         /\ Cardinality(DOMAIN PriorityOf(sch)) \in 0 .. Len(sch.enum)
         /\ \A n \in 0 .. Len(sch.enum) :
               Arranged(sch, n) => Cardinality(DOMAIN PriorityOf(sch)) \in 0 .. n
         /\ PriorityOf(sch) \in [DOMAIN PriorityOf(sch) -> Int]
<1> DEFINE N == {m \in DOMAIN sch.defs : IsGroup(sch, m)}
<1>1. DOMAIN PriorityOf(sch) = N
  BY DEF PriorityOf
<1>2. sch.enum \in Seq(Listed) /\ Len(sch.enum) \in Nat /\ N \subseteq ToSet(sch.enum)
  BY SchemaLists DEF IsSchema
<1>3. \A m \in N : \E i \in 1 .. Len(sch.enum) : sch.enum[i] = m
  BY <1>2, ListedAt
<1>4. IsFiniteSet(N) /\ Cardinality(N) \in 0 .. Len(sch.enum)
  <2> HIDE DEF N
  <2>1. Len(sch.enum) \in 0 .. Len(sch.enum)
    BY <1>2
  <2> QED BY <2>1, <1>2, <1>3, NamesFinite
<1>5. ASSUME NEW n \in 0 .. Len(sch.enum), Arranged(sch, n) PROVE Cardinality(N) \in 0 .. n
  <2>1. Groups(sch) = 1 .. n
    BY <1>2, <1>5, ArrangedPlaces
  <2>2. \A m \in N : \E i \in 1 .. n : sch.enum[i] = m
    <3> SUFFICES ASSUME NEW m \in N PROVE \E i \in 1 .. n : sch.enum[i] = m
      OBVIOUS
    <3>1. PICK i \in 1 .. Len(sch.enum) : sch.enum[i] = m
      BY <1>3
    <3>2. i \in Groups(sch)
      BY <3>1, SchemaLists DEF Groups
    <3> QED BY <3>1, <3>2, <2>1
  <2> HIDE DEF N
  <2> QED BY <2>2, <1>2, NamesFinite
<1>6. \A m \in N : Index(sch.enum, m) \in Int
  BY <1>2, IndexOf
<1>7. PriorityOf(sch) \in [N -> Int]
  <2> DEFINE at(m) == Index(sch.enum, m)
  <2>1. PriorityOf(sch) = [m \in N |-> at(m) - 1]
    BY DEF PriorityOf
  <2>2. \A m \in N : at(m) \in Int
    BY <1>6
  <2> HIDE DEF N, at
  <2> QED BY <2>1, <2>2
<1> QED BY <1>1, <1>4, <1>5, <1>7

\* Reordering groups leaves an arranged schema arranged, in any order of the
\* priorities; what no group was moved for is as it was.
LEMMA PriorityInv ==
  ASSUME NEW old, SchemaInv(old), NEW map,
         \A n \in DOMAIN map : map[n] \in 0 .. Cardinality(DOMAIN PriorityOf(old)) - 1,
         NEW new \in WithPriorities(old, map)
  PROVE  /\ SchemaInv(new)
         /\ \A m : IsGroup(old, m) <=> IsGroup(new, m)
         /\ new.moved => old.moved \/ \E n \in DOMAIN map : ~IsGroup(old, n)
<1> DEFINE N == Named(old.enum, map)
<1>1. /\ IsSchema(old) /\ old.enum \in Seq(Listed) /\ Len(old.enum) \in Nat
      /\ DOMAIN old.enum = 1 .. Len(old.enum)
  BY SchemaLists DEF SchemaInv
<1>2. PICK e \in Reordered(old.enum, map) :
        new = [old EXCEPT !.enum = e, !.moved = @ \/ \E n \in N : ~IsGroup(old, n)]
  BY DEF WithPriorities
<1>3. N \subseteq DOMAIN map
  BY DEF Named
<1> HIDE DEF N
<1>4. /\ new.enum = e /\ new.defs = old.defs /\ new.created = old.created
      /\ new.moved = (old.moved \/ \E n \in N : ~IsGroup(old, n))
      /\ new = [enum |-> new.enum, defs |-> new.defs, created |-> new.created, moved |-> new.moved]
  BY <1>1, <1>2 DEF IsSchema
<1>5. \A n \in N : map[n] \in 0 .. Cardinality(DOMAIN PriorityOf(old)) - 1
  BY <1>3
<1>6. Rearranged(e, old.enum, Len(old.enum))
  <2> DEFINE c == Cardinality(DOMAIN PriorityOf(old))
  <2>1. c \in 0 .. Len(old.enum)
    BY <1>1, PrioritiesCounted
  <2>2. \A n \in N : map[n] \in 0 .. c - 1
    BY <1>5
  <2> HIDE DEF c
  <2>3. \A n \in N : map[n] \in 0 .. Len(old.enum) - 1
    BY <2>1, <2>2, <1>1
  <2>4. Len(old.enum) \in 0 .. Len(old.enum) /\ \A i \in Len(old.enum) + 1 .. Len(old.enum) : old.enum[i] \notin N
    BY <1>1
  <2> QED BY <2>3, <2>4, <1>1, ReorderedRearranges DEF N
<1>7. \A m : IsGroup(old, m) <=> IsGroup(new, m)
  BY <1>4 DEF IsGroup
<1>8. IsSchema(new)
  <2>1. old.moved \in BOOLEAN /\ new.moved \in BOOLEAN
    BY <1>1, <1>4 DEF IsSchema
  <2> QED BY <2>1, <1>1, <1>4, <1>6, <1>7 DEF IsSchema, Rearranged
<1>9. ASSUME NEW n \in 0 .. Len(old.enum), Arranged(old, n), ~new.moved
      PROVE  Arranged(new, n) /\ n \in 0 .. Len(new.enum)
  <2> DEFINE c == Cardinality(DOMAIN PriorityOf(old))
  <2>1. c \in 0 .. n /\ n \in Nat
    <3>1. n \in Nat
      BY <1>1
    <3>2. \A i \in 0 .. Len(old.enum) : Arranged(old, i) => c \in 0 .. i
      BY <1>1, PrioritiesCounted
    <3> QED BY <3>1, <3>2, <1>9
  <2>2. \A m \in N : map[m] \in 0 .. c - 1
    BY <1>5
  <2> HIDE DEF c
  <2>3. \A m \in N : map[m] \in 0 .. n - 1
    BY <2>1, <2>2
  <2>4. Groups(old) = 1 .. n
    BY <2>1, <1>1, <1>9, ArrangedPlaces
  <2>5. \A m \in N : IsGroup(old, m)
    BY <1>4, <1>9
  <2>6. ASSUME NEW i \in n + 1 .. Len(old.enum) PROVE old.enum[i] \notin N
    <3>1. i \in 1 .. Len(old.enum) /\ i \notin 1 .. n
      BY <2>1
    <3> QED BY <3>1, <2>4, <2>5, <1>1 DEF Groups
  <2>7. Rearranged(e, old.enum, n)
    BY <2>3, <2>6, <1>1, ReorderedRearranges DEF N
  <2>8. \A i \in 1 .. n : IsGroup(new, e[i])
    BY <2>7, <1>7, <1>9 DEF Rearranged, Arranged
  <2> DEFINE k == Len(old.created)
  <2>9. k \in Nat /\ Len(old.enum) = n + k + 1 /\ Len(e) = n + k + 1
    BY <1>1, <1>9, <2>7, SchemaLists DEF Arranged, Rearranged
  <2>10. \A i \in n + 1 .. n + k + 1 : e[i] = old.enum[i]
    BY <2>7, <2>9 DEF Rearranged
  <2>11. /\ \A j \in 1 .. k : LET bound == IF j = k THEN {} ELSE {Complement(old.created[j + 1].cond)} IN
            /\ old.enum[n + k + 1 - j] = old.created[j].name
            /\ old.created[j].name \in DOMAIN old.defs
            /\ old.defs[old.created[j].name] = Checkpoint({old.created[j].cond} \cup bound)
            /\ \A l \in 1 .. k : old.created[j].name = old.created[l].name => j = l
         /\ old.enum[n + k + 1] = Otherwise /\ Otherwise \notin DOMAIN old.defs
    BY <1>9 DEF Arranged
  <2>12. Len(new.created) = k
    BY <1>4
  <2> HIDE DEF k
  <2>13. ASSUME NEW j \in 1 .. k
         PROVE  LET bound == IF j = k THEN {} ELSE {Complement(new.created[j + 1].cond)} IN
                /\ new.enum[n + k + 1 - j] = new.created[j].name
                /\ new.created[j].name \in DOMAIN new.defs
                /\ new.defs[new.created[j].name] = Checkpoint({new.created[j].cond} \cup bound)
                /\ \A l \in 1 .. k : new.created[j].name = new.created[l].name => j = l
    <3>1. n + k + 1 - j \in n + 1 .. n + k + 1
      BY <2>1, <2>9
    <3>2. e[n + k + 1 - j] = old.enum[n + k + 1 - j]
      BY <3>1, <2>10
    <3> QED BY <3>2, <2>11, <1>4
  <2>14. e[n + k + 1] = Otherwise
    <3>1. n + k + 1 \in n + 1 .. n + k + 1
      BY <2>1, <2>9
    <3> QED BY <3>1, <2>10, <2>11
  <2>15. Arranged(new, n)
    BY <2>8, <2>9, <2>11, <2>12, <2>13, <2>14, <1>4 DEF Arranged
  <2> QED BY <2>1, <2>9, <2>15, <1>4
<1>10. ASSUME old = NewDimension, ~new.moved PROVE new = NewDimension
  <2>1. DOMAIN PriorityOf(old) = {}
    <3>1. \A m \in DOMAIN old.defs : ~IsGroup(old, m)
      BY <1>10 DEF NewDimension, IsGroup, Nobody
    <3> QED BY <3>1, <1>1, PrioritiesCounted
  <2>2. Cardinality(DOMAIN PriorityOf(old)) = 0
    BY <2>1, FS_EmptySet
  <2>3. N = {}
    <3>1. \A n \in N : map[n] \in 0 .. 0 - 1
      BY <1>5, <2>2
    <3> QED BY <3>1
  <2>4. Rearranged(e, old.enum, 0)
    <3>1. 0 \in 0 .. Len(old.enum)
      BY <1>1
    <3> QED BY <3>1, <2>3, <1>1, ReorderedRearranges DEF N
  <2>5. Len(e) = Len(old.enum) /\ \A i \in 1 .. Len(old.enum) : e[i] = old.enum[i]
    BY <2>4 DEF Rearranged
  <2>6. e = old.enum
    BY <2>5, <1>1, <1>6, SeqEqual DEF Rearranged
  <2>7. old.moved = FALSE /\ new.moved = FALSE
    BY <1>10, <1>8 DEF NewDimension, IsSchema
  <2> QED BY <2>6, <2>7, <1>1, <1>4, <1>10 DEF IsSchema
<1>11. ~new.moved => Proper(new)
  <2> SUFFICES ASSUME ~new.moved PROVE Proper(new)
    OBVIOUS
  <2>1. Proper(old)
    BY <1>4 DEF SchemaInv
  <2> QED BY <2>1, <1>9, <1>10 DEF Proper
<1>12. new.moved => old.moved \/ \E n \in DOMAIN map : ~IsGroup(old, n)
  BY <1>3, <1>4
<1> QED BY <1>7, <1>8, <1>11, <1>12 DEF SchemaInv

----------------------------------------------------------------------------
(* Users. The bound put on an older checkpoint excludes exactly the users  *)
(* who reach the newer one, however the values are ordered.                *)

\* Whoever does not reach the newer threshold is within the bound, and no other.
LEMMA ComplementHolds ==
  ASSUME NEW c \in Threshold, NEW x \in Values
  PROVE  Holds(Complement(c), x) <=> ~Holds(c, x)
<1>1. /\ c.op \in {"gt", "ge"} /\ c.kind \in Kinds /\ c.val \in Values
      /\ c \in [op : {"gt", "ge", "lt", "le"}, kind : Kinds, val : Values]
  BY DEF Threshold, Condition
<1>2. Rank[c.kind][x] \in Nat /\ Rank[c.kind][c.val] \in Nat
  BY <1>1, ConstantsAssumption
<1>3. /\ Complement(c).op = IF c.op = "gt" THEN "le" ELSE "lt"
      /\ Complement(c).kind = c.kind /\ Complement(c).val = c.val
  BY <1>1 DEF Complement
<1> DEFINE at == Rank[c.kind][x]
           bound == Rank[c.kind][c.val]
<1>4. at \in Nat /\ bound \in Nat
  BY <1>2
<1>5. CASE c.op = "gt"
  <2>1. Complement(c).op = "le"
    BY <1>3, <1>5
  <2>2. Holds(c, x) <=> at > bound
    BY <1>5 DEF Holds
  <2>3. Holds(Complement(c), x) <=> at <= bound
    BY <2>1, <1>3 DEF Holds
  <2> HIDE DEF at, bound
  <2> QED BY <2>2, <2>3, <1>4
<1>6. CASE c.op = "ge"
  <2>1. Complement(c).op = "lt"
    BY <1>3, <1>6
  <2>2. Holds(c, x) <=> at >= bound
    BY <1>6 DEF Holds
  <2>3. Holds(Complement(c), x) <=> at < bound
    BY <2>1, <1>3 DEF Holds
  <2> HIDE DEF at, bound
  <2> QED BY <2>2, <2>3, <1>4
<1> QED BY <1>1, <1>5, <1>6

\* In an arranged schema the first cohort a user satisfies is the first group
\* the user is a member of, or else the newest checkpoint the user reaches.
LEMMA ArrangedAsPromised ==
  ASSUME NEW sch, IsSchema(sch), NEW n \in 0 .. Len(sch.enum), Arranged(sch, n), NEW x \in Values
  PROVE  CohortOf(sch, x) = Promised(sch, x)
<1> DEFINE k == Len(sch.created)
           hits == {i \in DOMAIN sch.enum :
                      sch.enum[i] \in DOMAIN sch.defs /\ Satisfies(sch.defs[sch.enum[i]], x)}
           member == {i \in Groups(sch) : x \in sch.defs[sch.enum[i]].members}
           reached == {j \in DOMAIN sch.created : Holds(sch.created[j].cond, x)}
<1>1. /\ k \in Nat /\ n \in Nat /\ Len(sch.enum) = n + k + 1
      /\ DOMAIN sch.enum = 1 .. n + k + 1 /\ DOMAIN sch.created = 1 .. k
      /\ \A j \in 1 .. k : sch.created[j].cond \in Threshold
  <2>1. /\ k \in Nat /\ Len(sch.enum) \in Nat /\ DOMAIN sch.enum = 1 .. Len(sch.enum)
        /\ DOMAIN sch.created = 1 .. k /\ \A j \in 1 .. k : sch.created[j].cond \in Threshold
    BY SchemaLists
  <2>2. Len(sch.enum) = n + k + 1
    BY DEF Arranged
  <2> QED BY <2>1, <2>2
<1>2. Groups(sch) = 1 .. n
  BY <1>1, ArrangedPlaces
<1>3. /\ \A j \in 1 .. k : LET bound == IF j = k THEN {} ELSE {Complement(sch.created[j + 1].cond)} IN
            /\ sch.enum[n + k + 1 - j] = sch.created[j].name
            /\ sch.created[j].name \in DOMAIN sch.defs
            /\ sch.defs[sch.created[j].name] = Checkpoint({sch.created[j].cond} \cup bound)
      /\ sch.enum[n + k + 1] = Otherwise /\ Otherwise \notin DOMAIN sch.defs
      /\ \A i \in 1 .. n : IsGroup(sch, sch.enum[i])
  BY DEF Arranged
<1> HIDE DEF k
<1>4. \A i \in 1 .. n : i \in hits <=> i \in member
  <2> SUFFICES ASSUME NEW i \in 1 .. n PROVE i \in hits <=> i \in member
    OBVIOUS
  <2>1. i \in DOMAIN sch.enum /\ i \in Groups(sch)
    BY <1>1, <1>2
  <2>2. sch.enum[i] \in DOMAIN sch.defs /\ sch.defs[sch.enum[i]].is = "in"
    BY <1>3 DEF IsGroup
  <2>3. Satisfies(sch.defs[sch.enum[i]], x) <=> x \in sch.defs[sch.enum[i]].members
    BY <2>2 DEF Satisfies
  <2> QED BY <2>1, <2>2, <2>3
<1>5. ASSUME NEW j \in 1 .. k
      PROVE  n + k + 1 - j \in hits <=> /\ Holds(sch.created[j].cond, x)
                                        /\ j # k => ~Holds(sch.created[j + 1].cond, x)
  <2> DEFINE i == n + k + 1 - j
             def == sch.defs[sch.enum[i]]
  <2>1. i \in DOMAIN sch.enum /\ sch.enum[i] \in DOMAIN sch.defs
    <3>1. n + k + 1 - j \in 1 .. n + k + 1
      BY <1>1
    <3>2. sch.enum[n + k + 1 - j] \in DOMAIN sch.defs
      BY <1>3
    <3> QED BY <3>1, <3>2, <1>1
  <2>2. def = Checkpoint({sch.created[j].cond} \cup (IF j = k THEN {} ELSE {Complement(sch.created[j + 1].cond)}))
    BY <1>3
  <2>3. def.is = "range"
        /\ def.conds = {sch.created[j].cond} \cup (IF j = k THEN {} ELSE {Complement(sch.created[j + 1].cond)})
    BY <2>2 DEF Checkpoint
  <2>4. Satisfies(def, x) <=> \A c \in def.conds : Holds(c, x)
    BY <2>3 DEF Satisfies
  <2>5. i \in hits <=> Satisfies(def, x)
    BY <2>1
  <2> HIDE DEF i, def, hits
  <2>6. CASE j = k
    BY <2>3, <2>4, <2>5, <2>6 DEF i
  <2>7. CASE j # k
    <3>1. j + 1 \in 1 .. k
      BY <1>1, <2>7
    <3>2. Holds(Complement(sch.created[j + 1].cond), x) <=> ~Holds(sch.created[j + 1].cond, x)
      BY <3>1, <1>1, ComplementHolds
    <3> QED BY <2>3, <2>4, <2>5, <2>7, <3>2 DEF i
  <2> QED BY <2>6, <2>7
<1>6. n + k + 1 \notin hits
  BY <1>3
<1>7. \A i \in hits : i \in 1 .. n + k + 1
  BY <1>1
<1>8. \A i \in 1 .. n + k + 1 : i \in 1 .. n \/ i = n + k + 1 \/ \E j \in 1 .. k : i = n + k + 1 - j
  <2> SUFFICES ASSUME NEW i \in 1 .. n + k + 1, i \notin 1 .. n, i # n + k + 1
               PROVE  \E j \in 1 .. k : i = n + k + 1 - j
    OBVIOUS
  <2>1. n + k + 1 - i \in 1 .. k /\ i = n + k + 1 - (n + k + 1 - i)
    BY <1>1
  <2> QED BY <2>1
<1>9. CohortOf(sch, x) = IF hits = {} THEN Otherwise ELSE sch.enum[Min(hits)]
  BY DEF CohortOf
<1>10. Promised(sch, x) = CASE member # {} -> sch.enum[Min(member)]
                            [] member = {} /\ reached # {} -> sch.created[Max(reached)].name
                            [] OTHER -> Otherwise
  BY DEF Promised
<1>11. /\ member \subseteq 1 .. n /\ reached \subseteq 1 .. k
       /\ \A j \in 1 .. k : j \in reached <=> Holds(sch.created[j].cond, x)
  BY <1>1, <1>2
<1> HIDE DEF hits, member, reached
<1>12. hits # {} => Min(hits) \in hits /\ \A i \in hits : Min(hits) <= i
  <2>1. hits \subseteq Nat
    BY <1>1, <1>7
  <2> QED BY <2>1, MinOf
<1>13. member # {} => Min(member) \in member /\ \A i \in member : Min(member) <= i
  <2>1. member \subseteq Nat
    BY <1>1, <1>11
  <2> QED BY <2>1, MinOf
<1>14. reached # {} => Max(reached) \in reached /\ \A j \in reached : j <= Max(reached)
  <2>1. reached \subseteq 0 .. k
    BY <1>1, <1>11
  <2> QED BY <2>1, <1>1, MaxOf
<1>15. CASE member # {}
  <2>1. Min(member) \in 1 .. n /\ Min(member) \in hits
    BY <1>4, <1>11, <1>13, <1>15
  <2>2. Min(hits) \in hits /\ Min(hits) <= Min(member) /\ Min(hits) \in 1 .. n + k + 1
    BY <2>1, <1>7, <1>12
  <2>3. Min(hits) \in 1 .. n
    BY <2>1, <2>2, <1>1
  <2>4. Min(hits) \in member
    BY <2>2, <2>3, <1>4
  <2>5. Min(hits) = Min(member)
    BY <2>1, <2>2, <2>3, <2>4, <1>13
  <2> QED BY <2>2, <2>5, <1>9, <1>10, <1>15
<1>16. CASE member = {} /\ reached = {}
  <2>1. hits = {}
    <3> SUFFICES ASSUME NEW i \in hits PROVE FALSE
      OBVIOUS
    <3>1. i \notin 1 .. n /\ i # n + k + 1
      BY <1>4, <1>6, <1>16
    <3>2. PICK j \in 1 .. k : i = n + k + 1 - j
      BY <3>1, <1>7, <1>8
    <3> QED BY <3>2, <1>5, <1>11, <1>16
  <2> QED BY <2>1, <1>9, <1>10, <1>16
<1>17. CASE member = {} /\ reached # {}
  <2> DEFINE m == Max(reached)
  <2>1. m \in 1 .. k /\ Holds(sch.created[m].cond, x) /\ \A j \in reached : j <= m
    BY <1>11, <1>14, <1>17
  <2> HIDE DEF m
  <2>2. m # k => ~Holds(sch.created[m + 1].cond, x)
    <3> SUFFICES ASSUME m # k PROVE ~Holds(sch.created[m + 1].cond, x)
      OBVIOUS
    <3>1. m + 1 \in 1 .. k /\ ~(m + 1 <= m)
      BY <2>1, <1>1
    <3> QED BY <3>1, <2>1, <1>11
  <2>3. n + k + 1 - m \in hits
    BY <2>1, <2>2, <1>5
  <2>4. ASSUME NEW i \in hits PROVE n + k + 1 - m <= i
    <3>1. i \notin 1 .. n /\ i # n + k + 1
      BY <1>4, <1>6, <1>17
    <3>2. PICK j \in 1 .. k : i = n + k + 1 - j
      BY <3>1, <1>7, <1>8
    <3>3. j \in reached
      BY <3>2, <1>5, <1>11
    <3>4. j <= m
      BY <3>3, <2>1
    <3> QED BY <3>2, <3>4, <2>1, <1>1
  <2>5. Min(hits) = n + k + 1 - m
    <3>1. Min(hits) \in hits /\ Min(hits) <= n + k + 1 - m
      BY <2>3, <1>12
    <3>2. n + k + 1 - m <= Min(hits) /\ Min(hits) \in 1 .. n + k + 1
      BY <3>1, <2>4, <1>7
    <3> QED BY <3>1, <3>2, <2>1, <1>1
  <2>6. CohortOf(sch, x) = sch.enum[n + k + 1 - m]
    BY <2>3, <2>5, <1>9
  <2>7. Promised(sch, x) = sch.created[m].name
    BY <1>10, <1>17 DEF m
  <2> QED BY <2>1, <2>6, <2>7, <1>3
<1> QED BY <1>15, <1>16, <1>17

\* Every cohort is the one promised, in a schema whose checkpoints stayed.
LEMMA SchemaAsPromised ==
  ASSUME NEW sch, SchemaInv(sch), ~sch.moved, NEW x \in Values
  PROVE  CohortOf(sch, x) = Promised(sch, x)
<1>1. CASE sch = NewDimension
  <2>1. /\ sch.enum = <<DefaultKey, Otherwise>> /\ DOMAIN sch.defs = {DefaultKey}
        /\ sch.defs[DefaultKey] = Nobody /\ sch.created = <<>>
    BY <1>1 DEF NewDimension
  <2>2. \A m : m \in DOMAIN sch.defs => ~Satisfies(sch.defs[m], x) /\ ~IsGroup(sch, m)
    BY <2>1 DEF Satisfies, IsGroup, Nobody
  <2>3. Groups(sch) = {}
    BY <2>2 DEF Groups, IsGroup
  <2>4. CohortOf(sch, x) = Otherwise
    BY <2>2 DEF CohortOf
  <2>5. Promised(sch, x) = Otherwise
    BY <2>1, <2>3 DEF Promised
  <2> QED BY <2>4, <2>5
<1>2. CASE \E n \in 0 .. Len(sch.enum) : Arranged(sch, n)
  BY <1>2, ArrangedAsPromised DEF SchemaInv
<1> QED BY <1>1, <1>2 DEF SchemaInv, Proper

----------------------------------------------------------------------------
(* The state. Of a request that was read, what refused it no longer could: *)
(* it is checked against what is replaced.                                 *)

RequestInv(q) ==
    /\ q = [st |-> q.st, op |-> q.op, client |-> q.client, dim |-> q.dim, name |-> q.name,
            cond |-> q.cond, members |-> q.members, map |-> q.map, from |-> q.from, old |-> q.old]
    /\ q.st \in {"free", "read", "write"} /\ q.dim \in Dims /\ q.client \in {"page", "other"}
    /\ q.map \in [DOMAIN q.map -> Int]
    /\ SchemaInv(q.old)
    /\ q.st # "free" => q.op \in {"checkpoint", "group", "priority"}
    /\ q.st # "free" /\ q.op # "priority" => q.name \in Names /\ q.cond \in Threshold
    /\ q.st = "write" => ~Refused(q, q.old)

LoadInv(l) ==
    /\ l = [op |-> l.op, dim |-> l.dim, st |-> l.st, map |-> l.map]
    /\ l.dim \in Dims /\ IsFiniteSet(DOMAIN l.map) /\ l.map \in [DOMAIN l.map -> Int]

PageInv(p) ==
    /\ p = [dim |-> p.dim, groups |-> p.groups, of |-> p.of, map |-> p.map, from |-> p.from,
            creating |-> p.creating]
    /\ p.dim \in Dims /\ IsFiniteSet(DOMAIN p.groups) /\ p.map \in [DOMAIN p.map -> Int]

(* What was a group of a dimension still is, unless an update was lost: so *)
(* are the names of an order of its own, shown or on its way.              *)
StillGroups(d, names) == history[d].lost \/ \A n \in names : IsGroup(schemas[d], n)

OfItself(q) == q.st # "free" /\ q.op = "priority" /\ q.client = "page" /\ q.from = {q.dim}

RequestGroups(q) == OfItself(q) => StillGroups(q.dim, DOMAIN q.map)
LoadGroups(l) == l.st = "answered" => StillGroups(l.dim, DOMAIN l.map)
PageGroups(p) ==
    \A d \in Dims : /\ p.from = {d} => StillGroups(d, DOMAIN p.map)
                    /\ p.of = {d} => StillGroups(d, DOMAIN p.groups)

RequestsInv(hs) ==
    /\ hs = [s \in Workers |-> hs[s]]
    /\ \A s \in Workers : RequestInv(hs[s]) /\ RequestGroups(hs[s])
LoadsInv(ls) == \A l \in ls : LoadInv(l) /\ LoadGroups(l)

DimensionsInv ==
    /\ schemas = [d \in Dims |-> schemas[d]] /\ \A d \in Dims : SchemaInv(schemas[d])
    /\ history \in [Dims -> [lost : BOOLEAN, given : BOOLEAN]]

(* The inductive invariant.                                                *)
CohortsInv ==
    /\ DimensionsInv
    /\ RequestsInv(handled) /\ LoadsInv(loads) /\ PageInv(page) /\ PageGroups(page)
    /\ CheckpointsStay

\* The first schema of a dimension, and what a free worker and a new page hold.
LEMMA NewInv ==
  /\ SchemaInv(NewDimension) /\ RequestInv(Idle) /\ ~OfItself(Idle)
  /\ \A op : \A d \in Dims : LoadInv(Load(op, d)) /\ LoadGroups(Load(op, d))
  /\ IsFiniteSet(DOMAIN NoMap) /\ NoMap \in [DOMAIN NoMap -> Int]
<1>1. SchemaInv(NewDimension)
  <2> DEFINE new == NewDimension
  <2>1. /\ new.enum = <<DefaultKey, Otherwise>> /\ DOMAIN new.defs = {DefaultKey}
        /\ new.defs[DefaultKey] = Nobody /\ new.created = <<>> /\ new.moved = FALSE
        /\ new = [enum |-> new.enum, defs |-> new.defs, created |-> new.created, moved |-> new.moved]
    BY DEF NewDimension
  <2> HIDE DEF new
  <2>2. new.enum \in Seq(Listed) /\ DefaultKey \in ToSet(new.enum)
    BY <2>1 DEF Listed, ToSet
  <2>3. ~IsGroup(new, DefaultKey)
    BY <2>1 DEF IsGroup, Nobody
  <2>4. new.created \in Seq([name : Names, cond : Threshold])
    BY <2>1
  <2>5. DOMAIN new.defs \subseteq ToSet(new.enum) /\ new.moved \in BOOLEAN
    BY <2>1, <2>2
  <2>6. ~IsGroup(new, DefaultKey)
    BY <2>3
  <2>7. IsSchema(new)
    BY <2>1, <2>2, <2>4, <2>5, <2>6 DEF IsSchema
  <2> QED BY <2>7 DEF new, SchemaInv, Proper
<1>2. DOMAIN NoMap = {} /\ NoMap \in [DOMAIN NoMap -> Int] /\ IsFiniteSet({})
  BY FS_EmptySet DEF NoMap
<1>3. RequestInv(Idle) /\ ~OfItself(Idle)
  BY <1>1, <1>2, ConstantsAssumption DEF RequestInv, Idle, OfItself
<1>4. \A op : \A d \in Dims : LoadInv(Load(op, d)) /\ LoadGroups(Load(op, d))
  BY <1>2 DEF LoadInv, LoadGroups, Load
<1> QED BY <1>1, <1>2, <1>3, <1>4

\* To begin with no update was lost, and no order is shown or on its way.
LEMMA InitCohorts == CohortsInit => CohortsInv
<1> SUFFICES ASSUME CohortsInit PROVE CohortsInv
  OBVIOUS
<1>1. PICK start \in Starts : schemas = start
  BY DEF CohortsInit
<1>2. /\ start = [d \in Dims |-> start[d]]
      /\ \A d \in Dims : IsSchema(start[d]) /\ ~start[d].moved /\ Proper(start[d])
  BY StartsAssumption
<1>3. history \in [Dims -> [lost : BOOLEAN, given : BOOLEAN]]
  BY DEF CohortsInit
<1>4. DimensionsInv
  BY <1>1, <1>2, <1>3 DEF DimensionsInv, SchemaInv
<1>5. CheckpointsStay
  <2>1. DOMAIN schemas = Dims /\ \A d \in Dims : ~schemas[d].moved
    BY <1>1, <1>2
  <2> QED BY <2>1 DEF CheckpointsStay
<1>6. RequestsInv(handled)
  BY NewInv DEF CohortsInit, RequestsInv, RequestGroups
<1>7. LoadsInv(loads)
  BY NewInv, ConstantsAssumption DEF CohortsInit, LoadsInv, Both
<1>8. PageInv(page) /\ PageGroups(page)
  BY NewInv, ConstantsAssumption DEF CohortsInit, PageInv, PageGroups
<1> QED BY <1>4, <1>5, <1>6, <1>7, <1>8 DEF CohortsInv

\* Whatever a request makes of the schema it read, that is a schema as good,
\* its groups stay groups, and a checkpoint is moved only by an order that
\* names one.
LEMMA ResultsInv ==
  ASSUME NEW q, RequestInv(q), q.st = "write", NEW new \in Results(q)
  PROVE  /\ SchemaInv(new)
         /\ \A m : IsGroup(q.old, m) => IsGroup(new, m)
         /\ new.moved => \/ q.old.moved
                         \/ q.op = "priority" /\ \E n \in DOMAIN q.map : ~IsGroup(q.old, n)
<1>1. SchemaInv(q.old) /\ q.op \in {"checkpoint", "group", "priority"} /\ ~Refused(q, q.old)
  BY DEF RequestInv
<1>2. q.op # "priority" => q.name \in Names /\ q.cond \in Threshold /\ q.name \notin ToSet(q.old.enum)
  BY <1>1 DEF RequestInv, Refused
<1>3. CASE q.op = "checkpoint"
  <2>1. new = AddCheckpoint(q.old, q.name, q.cond)
    BY <1>3 DEF Results
  <2> QED BY <2>1, <1>1, <1>2, <1>3, AddCheckpointInv
<1>4. CASE q.op = "group"
  <2>1. new = AddGroup(q.old, q.name, q.members)
    BY <1>4 DEF Results
  <2> QED BY <2>1, <1>1, <1>2, <1>4, AddGroupInv
<1>5. CASE q.op = "priority"
  <2>1. new \in WithPriorities(q.old, q.map)
    BY <1>5 DEF Results
  <2>2. \A n \in DOMAIN q.map : q.map[n] \in 0 .. Cardinality(DOMAIN PriorityOf(q.old)) - 1
    BY <1>1, <1>5 DEF Refused
  <2> QED BY <2>1, <2>2, <1>1, <1>5, PriorityInv
<1> QED BY <1>1, <1>3, <1>4, <1>5

\* A worker that takes a request.
LEMMA AcceptInv ==
  ASSUME CohortsInv, NEW q, RequestInv(q), RequestGroups(q), Accept(q)
  PROVE  RequestsInv(handled')
<1>1. PICK s \in Workers : handled' = [handled EXCEPT ![s] = q]
  BY DEF Accept
<1>2. handled = [t \in Workers |-> handled[t]]
      /\ \A t \in Workers : RequestInv(handled[t]) /\ RequestGroups(handled[t])
  BY DEF CohortsInv, RequestsInv
<1>3. handled' = [t \in Workers |-> IF t = s THEN q ELSE handled[t]]
  BY <1>1, <1>2
<1>4. \A t \in Workers : handled'[t] = IF t = s THEN q ELSE handled[t]
  BY <1>3
<1>5. \A t \in Workers : RequestInv(handled'[t]) /\ RequestGroups(handled'[t])
  BY <1>2, <1>4
<1> QED BY <1>3, <1>4, <1>5 DEF RequestsInv

\* One that answers, and the page that is answered.
LEMMA ReplyInv ==
  ASSUME CohortsInv, NEW s \in Workers, NEW ok, Reply(s, ok)
  PROVE  /\ RequestsInv(handled') /\ LoadsInv(loads')
         /\ PageInv(page') /\ PageGroups(page')
<1>1. handled = [t \in Workers |-> handled[t]]
      /\ \A t \in Workers : RequestInv(handled[t]) /\ RequestGroups(handled[t])
  BY DEF CohortsInv, RequestsInv
<1>2. handled' = [t \in Workers |-> IF t = s THEN Idle ELSE handled[t]]
  BY <1>1 DEF Reply
<1>3. \A t \in Workers : handled'[t] = IF t = s THEN Idle ELSE handled[t]
  BY <1>2
<1>4. RequestInv(Idle) /\ RequestGroups(Idle)
  BY NewInv DEF RequestGroups
<1>5. \A t \in Workers : RequestInv(handled'[t]) /\ RequestGroups(handled'[t])
  BY <1>1, <1>3, <1>4
<1>6. RequestsInv(handled')
  BY <1>2, <1>3, <1>5 DEF RequestsInv
<1>7. LoadsInv(loads) /\ handled[s].dim \in Dims
  BY <1>1 DEF CohortsInv, RequestInv
<1>8. loads' = loads \/ loads' = loads \cup Reloads(handled[s])
  BY DEF Reply
<1>9. LoadsInv(Reloads(handled[s]))
  BY <1>7, NewInv DEF Reloads, Both, LoadsInv
<1>10. LoadsInv(loads')
  BY <1>7, <1>8, <1>9 DEF LoadsInv
<1>11. PageInv(page) /\ PageGroups(page) /\ (page' = page \/ page' = [page EXCEPT !.creating = "none"])
  BY DEF CohortsInv, Reply
<1>12. PageInv(page') /\ PageGroups(page')
  <2>1. /\ page'.dim = page.dim /\ page'.groups = page.groups /\ page'.of = page.of
        /\ page'.map = page.map /\ page'.from = page.from
        /\ page' = [dim |-> page'.dim, groups |-> page'.groups, of |-> page'.of, map |-> page'.map,
                    from |-> page'.from, creating |-> page'.creating]
    BY <1>11 DEF PageInv
  <2> QED BY <2>1, <1>11 DEF PageInv, PageGroups
<1> QED BY <1>6, <1>10, <1>12

\* A step keeps the invariant when its requests, loads and page are right of
\* the dimensions there were, and the groups of each stay unless it loses an
\* update.
LEMMA StepInv ==
  ASSUME CohortsInv, DimensionsInv', CheckpointsStay',
         \A d \in Dims : \/ history'[d].lost
                         \/ /\ ~history[d].lost
                            /\ \A m : IsGroup(schemas[d], m) => IsGroup(schemas'[d], m),
         RequestsInv(handled'), LoadsInv(loads'), PageInv(page'), PageGroups(page')
  PROVE  CohortsInv'
<1>1. \A s \in Workers : RequestInv(handled'[s]) /\ handled'[s].dim \in Dims
  BY DEF RequestsInv, RequestInv
<1>2. RequestsInv(handled)'
  <2>1. ASSUME NEW s \in Workers, OfItself(handled'[s])
        PROVE  history'[handled'[s].dim].lost
               \/ \A n \in DOMAIN handled'[s].map : IsGroup(schemas'[handled'[s].dim], n)
    BY <2>1, <1>1 DEF RequestsInv, RequestGroups, StillGroups
  <2> QED BY <2>1, <1>1 DEF RequestsInv, RequestGroups, StillGroups
<1>3. LoadsInv(loads)'
  <2>1. \A l \in loads' : LoadInv(l) /\ l.dim \in Dims
    BY DEF LoadsInv, LoadInv
  <2> QED BY <2>1 DEF LoadsInv, LoadGroups, StillGroups
<1>4. PageGroups(page)'
  BY DEF PageGroups, StillGroups
<1> QED BY <1>2, <1>3, <1>4 DEF CohortsInv

\* What leaves the dimensions alone.
LEMMA QuietInv ==
  ASSUME CohortsInv, UNCHANGED <<schemas, history>>,
         RequestsInv(handled'), LoadsInv(loads'), PageInv(page'), PageGroups(page')
  PROVE  CohortsInv'
<1>1. DimensionsInv' /\ CheckpointsStay'
  BY DEF CohortsInv, DimensionsInv, CheckpointsStay
<1>2. \A d \in Dims : \/ history'[d].lost
                      \/ /\ ~history[d].lost
                         /\ \A m : IsGroup(schemas[d], m) => IsGroup(schemas'[d], m)
  OBVIOUS
<1> QED BY <1>1, <1>2, StepInv

----------------------------------------------------------------------------
(* The steps. The requests that are handled.                               *)

\* A request that has read a schema it is not refused by.
LEMMA RequestRead ==
  ASSUME NEW q, RequestInv(q), RequestGroups(q), q.st = "read",
         NEW sch, SchemaInv(sch), ~Refused(q, sch),
         NEW read, read = [q EXCEPT !.st = "write", !.old = sch]
  PROVE  RequestInv(read) /\ RequestGroups(read)
<1>1. PICK a, b, c, d, e, f, g, h, i, j :
        q = [st |-> a, op |-> b, client |-> c, dim |-> d, name |-> e,
             cond |-> f, members |-> g, map |-> h, from |-> i, old |-> j]
  BY Zenon DEF RequestInv
<1>2. read = [st |-> "write", op |-> b, client |-> c, dim |-> d, name |-> e,
              cond |-> f, members |-> g, map |-> h, from |-> i, old |-> sch]
  BY <1>1
<1>3. /\ read.st = "write" /\ read.old = sch /\ read.op = q.op /\ read.client = q.client
      /\ read.dim = q.dim /\ read.name = q.name /\ read.cond = q.cond
      /\ read.map = q.map /\ read.from = q.from
      /\ read = [st |-> read.st, op |-> read.op, client |-> read.client, dim |-> read.dim,
                 name |-> read.name, cond |-> read.cond, members |-> read.members,
                 map |-> read.map, from |-> read.from, old |-> read.old]
  BY <1>1, <1>2
<1>4. ~Refused(read, sch)
  BY <1>3 DEF Refused
<1>5. RequestInv(read)
  BY <1>3, <1>4 DEF RequestInv
<1>6. RequestGroups(read)
  BY <1>3 DEF RequestGroups, OfItself
<1> QED BY <1>5, <1>6

\* A schema is read, and the request refused or not.
LEMMA ReadInv ==
  ASSUME CohortsInv, NEW s \in Workers, ReadSchema(s)
  PROVE  CohortsInv'
<1> DEFINE q == handled[s]
           sch == schemas[q.dim]
           read == [q EXCEPT !.st = "write", !.old = sch]
<1>1. CASE Refused(q, sch)
  <2>1. Reply(s, FALSE) /\ UNCHANGED <<schemas, history>>
    BY <1>1 DEF ReadSchema
  <2> QED BY <2>1, ReplyInv, QuietInv
<1>2. CASE ~Refused(q, sch)
  <2>1. /\ handled' = [handled EXCEPT ![s] = read] /\ q.st = "read"
        /\ UNCHANGED <<schemas, history, page, loads>>
    BY <1>2 DEF ReadSchema
  <2>2. handled = [t \in Workers |-> handled[t]]
        /\ \A t \in Workers : RequestInv(handled[t]) /\ RequestGroups(handled[t])
    BY DEF CohortsInv, RequestsInv
  <2>3. RequestInv(q) /\ RequestGroups(q) /\ q.dim \in Dims
    BY <2>2 DEF RequestInv
  <2>4. SchemaInv(sch)
    BY <2>3 DEF CohortsInv, DimensionsInv
  <2>5. RequestInv(read) /\ RequestGroups(read)
    BY <2>1, <2>3, <2>4, <1>2, RequestRead
  <2> HIDE DEF read, sch, q
  <2>6. \A t \in Workers : handled'[t] = IF t = s THEN read ELSE handled[t]
    BY <2>1, <2>2
  <2>7. handled' = [t \in Workers |-> handled'[t]]
    BY <2>1, <2>2
  <2>8. RequestsInv(handled')
    BY <2>2, <2>5, <2>6, <2>7 DEF RequestsInv
  <2>9. LoadsInv(loads') /\ PageInv(page') /\ PageGroups(page')
    BY <2>1 DEF CohortsInv
  <2> QED BY <2>1, <2>8, <2>9, QuietInv
<1> QED BY <1>1, <1>2

\* A schema is replaced: by what was made of the one that was read. When
\* another had taken its place since, the update of that one is lost.
LEMMA WriteInv ==
  ASSUME CohortsInv, NEW s \in Workers, WriteSchema(s)
  PROVE  CohortsInv'
<1> DEFINE q == handled[s]
           d == q.dim
           was == history[d]
<1>1. RequestInv(q) /\ RequestGroups(q) /\ q.st = "write" /\ d \in Dims /\ q.client \in {"page", "other"}
  BY DEF CohortsInv, RequestsInv, RequestInv, WriteSchema
<1>2. PICK sch \in Results(q) : schemas' = [schemas EXCEPT ![d] = sch]
  BY DEF WriteSchema
<1>3. /\ SchemaInv(sch)
      /\ \A m : IsGroup(q.old, m) => IsGroup(sch, m)
      /\ sch.moved => q.old.moved \/ (q.op = "priority" /\ \E n \in DOMAIN q.map : ~IsGroup(q.old, n))
  BY <1>1, ResultsInv
<1>4. /\ schemas = [e \in Dims |-> schemas[e]] /\ \A e \in Dims : SchemaInv(schemas[e])
      /\ history \in [Dims -> [lost : BOOLEAN, given : BOOLEAN]]
  BY DEF CohortsInv, DimensionsInv
<1> DEFINE lost == was.lost \/ schemas[d] # q.old
           given == was.given \/ (q.op = "priority" /\ (q.client = "other" \/ q.from # {d}))
<1>5. history' = [history EXCEPT ![d] = [lost |-> lost, given |-> given]]
  BY DEF WriteSchema
<1>6. /\ Reply(s, TRUE)
      /\ was.lost \in BOOLEAN /\ was.given \in BOOLEAN /\ lost \in BOOLEAN /\ given \in BOOLEAN
  BY <1>1, <1>4 DEF WriteSchema
<1>7. /\ lost <=> (was.lost \/ schemas[d] # q.old)
      /\ given <=> (was.given \/ (q.op = "priority" /\ (q.client = "other" \/ q.from # {d})))
  OBVIOUS
<1> HIDE DEF d, q, was, lost, given
<1>8. /\ schemas' = [e \in Dims |-> schemas'[e]]
      /\ \A e \in Dims : schemas'[e] = IF e = d THEN sch ELSE schemas[e]
  BY <1>1, <1>2, <1>4
<1>9. /\ history' \in [Dims -> [lost : BOOLEAN, given : BOOLEAN]]
      /\ \A e \in Dims : history'[e] = IF e = d THEN [lost |-> lost, given |-> given] ELSE history[e]
  BY <1>1, <1>4, <1>5, <1>6
<1>10. history'[d].lost = lost /\ history'[d].given = given
  BY <1>1, <1>9
<1>11. DimensionsInv'
  <2>1. \A e \in Dims : SchemaInv(schemas'[e])
    BY <1>3, <1>4, <1>8
  <2> QED BY <2>1, <1>8, <1>9 DEF DimensionsInv
<1>12. ASSUME NEW e \in Dims
       PROVE  \/ history'[e].lost
              \/ /\ ~history[e].lost
                 /\ \A m : IsGroup(schemas[e], m) => IsGroup(schemas'[e], m)
  <2>1. CASE e = d
    BY <2>1, <1>3, <1>7, <1>8, <1>10 DEF was
  <2>2. CASE e # d
    BY <2>2, <1>8, <1>9
  <2> QED BY <2>1, <2>2
<1>13. ASSUME NEW e \in Dims, schemas'[e].moved, ~history'[e].lost, ~history'[e].given PROVE FALSE
  <2>1. ASSUME NEW x \in Dims, schemas[x].moved PROVE history[x].lost \/ history[x].given
    BY <2>1, <1>4 DEF CohortsInv, CheckpointsStay
  <2>2. CASE e # d
    BY <2>1, <2>2, <1>8, <1>9, <1>13
  <2>3. CASE e = d
    <3>1. /\ sch.moved /\ ~was.lost /\ ~was.given /\ schemas[d] = q.old
          /\ ~(q.op = "priority" /\ (q.client = "other" \/ q.from # {d}))
      BY <2>3, <1>7, <1>8, <1>10, <1>13
    <3>2. ~q.old.moved
      BY <2>1, <3>1, <1>1 DEF was
    <3>3. q.op = "priority" /\ \E n \in DOMAIN q.map : ~IsGroup(q.old, n)
      BY <3>1, <3>2, <1>3
    <3>4. OfItself(q)
      BY <3>1, <3>3, <1>1 DEF OfItself, d
    <3>5. StillGroups(d, DOMAIN q.map)
      BY <3>4, <1>1 DEF RequestGroups, d
    <3>6. \A n \in DOMAIN q.map : IsGroup(schemas[d], n)
      BY <3>1, <3>5 DEF StillGroups, was
    <3> QED BY <3>1, <3>3, <3>6
  <2> QED BY <2>2, <2>3
<1>14. CheckpointsStay'
  <2>1. DOMAIN schemas' = Dims
    BY <1>8
  <2> QED BY <2>1, <1>13 DEF CheckpointsStay
<1>15. RequestsInv(handled') /\ LoadsInv(loads') /\ PageInv(page') /\ PageGroups(page')
  BY <1>6, ReplyInv
<1> QED BY <1>11, <1>12, <1>14, <1>15, StepInv

\* A call fails: nothing was changed.
LEMMA FailInv ==
  ASSUME CohortsInv, NEW s \in Workers, CallFails(s)
  PROVE  CohortsInv'
<1>1. Reply(s, FALSE) /\ UNCHANGED <<schemas, history>>
  BY DEF CallFails
<1> QED BY <1>1, ReplyInv, QuietInv

\* What clients ask for: an addition, or an order of groups.
LEMMA AdditionAsked ==
  ASSUME NEW a \in Additions, NEW d \in Dims, NEW client \in {"page", "other"}
  PROVE  RequestInv(New(a, d, client)) /\ ~OfItself(New(a, d, client))
<1>1. a.op \in {"checkpoint", "group"} /\ a.name \in Names /\ a.cond \in Threshold
  BY ConstantsAssumption
<1>2. PICK q : q = New(a, d, client)
  OBVIOUS
<1>3. q = [st |-> "read", op |-> a.op, client |-> client, dim |-> d, name |-> a.name,
           cond |-> a.cond, members |-> a.members, map |-> NoMap, from |-> {},
           old |-> NewDimension]
  BY <1>2 DEF New, Idle
<1>4. /\ q = [st |-> q.st, op |-> q.op, client |-> q.client, dim |-> q.dim, name |-> q.name,
              cond |-> q.cond, members |-> q.members, map |-> q.map, from |-> q.from, old |-> q.old]
      /\ q.st = "read" /\ q.op = a.op /\ q.client = client /\ q.dim = d /\ q.name = a.name
      /\ q.cond = a.cond /\ q.map = NoMap /\ q.old = NewDimension
  BY <1>3
<1>5. RequestInv(q) /\ ~OfItself(q)
  BY <1>1, <1>4, NewInv DEF RequestInv, OfItself
<1> QED BY <1>2, <1>5

\* An order asked for, by the page or another client.
LEMMA OrderAsked ==
  ASSUME NEW map, map \in [DOMAIN map -> Int], NEW d \in Dims,
         NEW client \in {"page", "other"}, NEW from, NEW q,
         q = [st |-> "read", op |-> "priority", client |-> client, dim |-> d, name |-> Otherwise,
              cond |-> NoCondition, members |-> {}, map |-> map, from |-> from,
              old |-> NewDimension]
  PROVE  RequestInv(q) /\ q.dim = d /\ q.map = map /\ q.client = client /\ q.from = from
<1>1. /\ q = [st |-> q.st, op |-> q.op, client |-> q.client, dim |-> q.dim, name |-> q.name,
              cond |-> q.cond, members |-> q.members, map |-> q.map, from |-> q.from, old |-> q.old]
      /\ q.st = "read" /\ q.op = "priority" /\ q.client = client /\ q.dim = d
      /\ q.map = map /\ q.from = from /\ q.old = NewDimension
  OBVIOUS
<1> QED BY <1>1, NewInv DEF RequestInv

\* A client other than the page asks.
LEMMA OthersInv ==
  ASSUME CohortsInv, OthersChange
  PROVE  CohortsInv'
<1>1. PICK d \in Dims : \/ \E a \in Additions : Accept(New(a, d, "other"))
                        \/ \E map \in ApiMaps :
                             Accept([Idle EXCEPT !.st = "read", !.op = "priority", !.dim = d, !.map = map])
  BY DEF OthersChange
<1>2. RequestsInv(handled')
  <2>1. ASSUME NEW a \in Additions, Accept(New(a, d, "other")) PROVE RequestsInv(handled')
    <3>1. PICK q : q = New(a, d, "other")
      OBVIOUS
    <3>2. RequestInv(q) /\ RequestGroups(q) /\ Accept(q)
      BY <2>1, <3>1, AdditionAsked DEF RequestGroups
    <3> QED BY <3>2, AcceptInv
  <2>2. ASSUME NEW map \in ApiMaps,
               Accept([Idle EXCEPT !.st = "read", !.op = "priority", !.dim = d, !.map = map])
        PROVE  RequestsInv(handled')
    <3>1. PICK q : q = [Idle EXCEPT !.st = "read", !.op = "priority", !.dim = d, !.map = map]
      OBVIOUS
    <3>2. q = [st |-> "read", op |-> "priority", client |-> "other", dim |-> d,
               name |-> Otherwise, cond |-> NoCondition, members |-> {}, map |-> map,
               from |-> {}, old |-> NewDimension]
      BY <3>1 DEF Idle
    <3>3. map \in [DOMAIN map -> Int]
      BY ConstantsAssumption
    <3>4. RequestInv(q) /\ q.client = "other"
      BY <3>2, <3>3, OrderAsked
    <3>5. RequestGroups(q) /\ Accept(q)
      BY <3>1, <3>4, <2>2 DEF RequestGroups, OfItself
    <3> QED BY <3>4, <3>5, AcceptInv
  <2> QED BY <1>1, <2>1, <2>2
<1>3. /\ UNCHANGED <<schemas, history>>
      /\ LoadsInv(loads') /\ PageInv(page') /\ PageGroups(page')
  BY DEF OthersChange, CohortsInv
<1> QED BY <1>2, <1>3, QuietInv

----------------------------------------------------------------------------
(* The page.                                                               *)

\* Another dimension is selected: what is shown is still of the one before.
LEMMA SelectInv ==
  ASSUME CohortsInv, SelectDimension
  PROVE  CohortsInv'
<1>1. PICK d \in Dims : page' = [page EXCEPT !.dim = d] /\ loads' = loads \cup Both(d)
  BY DEF SelectDimension
<1>2. UNCHANGED <<schemas, handled, history>>
  BY DEF SelectDimension
<1>3. RequestsInv(handled')
  BY <1>2 DEF CohortsInv
<1>4. LoadsInv(loads')
  BY <1>1, NewInv DEF CohortsInv, LoadsInv, Both
<1>5. /\ page'.dim = d /\ page'.groups = page.groups /\ page'.of = page.of
      /\ page'.map = page.map /\ page'.from = page.from
      /\ page' = [dim |-> page'.dim, groups |-> page'.groups, of |-> page'.of, map |-> page'.map,
                  from |-> page'.from, creating |-> page'.creating]
  BY <1>1 DEF CohortsInv, PageInv
<1>6. PageInv(page') /\ PageGroups(page')
  BY <1>5 DEF CohortsInv, PageInv, PageGroups
<1> QED BY <1>2, <1>3, <1>4, <1>6, QuietInv

\* An answer holds the groups there are.
LEMMA AnswerInv ==
  ASSUME CohortsInv, AnswerLoad
  PROVE  CohortsInv'
<1>1. PICK l \in loads :
        loads' = (loads \ {l}) \cup {[l EXCEPT !.st = "answered", !.map = PriorityOf(schemas[l.dim])]}
  BY DEF AnswerLoad
<1>2. UNCHANGED <<schemas, handled, page, history>>
  BY DEF AnswerLoad
<1>3. LoadInv(l) /\ l.dim \in Dims
  BY DEF CohortsInv, LoadsInv, LoadInv
<1>4. PICK map : map = PriorityOf(schemas[l.dim])
  OBVIOUS
<1>5. PICK answer : answer = [l EXCEPT !.st = "answered", !.map = map]
  OBVIOUS
<1>6. /\ answer = [op |-> answer.op, dim |-> answer.dim, st |-> answer.st, map |-> answer.map]
      /\ answer.dim = l.dim /\ answer.map = map
  BY <1>3, <1>5 DEF LoadInv
<1>7. IsSchema(schemas[l.dim])
  BY <1>3 DEF CohortsInv, DimensionsInv, SchemaInv
<1>8. /\ map \in [DOMAIN map -> Int] /\ IsFiniteSet(DOMAIN map)
      /\ \A n \in DOMAIN map : IsGroup(schemas[l.dim], n)
  BY <1>4, <1>7, PrioritiesCounted
<1>9. LoadInv(answer) /\ LoadGroups(answer)
  BY <1>3, <1>6, <1>8 DEF LoadInv, LoadGroups, StillGroups
<1>10. loads' = (loads \ {l}) \cup {answer}
  BY <1>1, <1>4, <1>5
<1>11. LoadsInv(loads')
  BY <1>9, <1>10 DEF CohortsInv, LoadsInv
<1>12. RequestsInv(handled') /\ PageInv(page') /\ PageGroups(page')
  BY <1>2 DEF CohortsInv
<1> QED BY <1>2, <1>11, <1>12, QuietInv

\* An answer is taken: what is shown is of the dimension it was asked for.
LEMMA TakeInv ==
  ASSUME CohortsInv, TakeLoad
  PROVE  CohortsInv'
<1>1. PICK l \in loads :
        /\ l.st = "answered" /\ loads' = loads \ {l}
        /\ \/ page' = [page EXCEPT !.groups = l.map, !.of = {l.dim}]
           \/ page' = [page EXCEPT !.map = l.map, !.from = {l.dim}]
  BY DEF TakeLoad
<1>2. UNCHANGED <<schemas, handled, history>>
  BY DEF TakeLoad
<1>3. /\ l.dim \in Dims /\ IsFiniteSet(DOMAIN l.map) /\ l.map \in [DOMAIN l.map -> Int]
      /\ StillGroups(l.dim, DOMAIN l.map)
  BY <1>1 DEF CohortsInv, LoadsInv, LoadInv, LoadGroups
<1>4. LoadsInv(loads') /\ RequestsInv(handled')
  BY <1>1, <1>2 DEF CohortsInv, LoadsInv
<1>5. /\ page'.dim = page.dim
      /\ page' = [dim |-> page'.dim, groups |-> page'.groups, of |-> page'.of, map |-> page'.map,
                  from |-> page'.from, creating |-> page'.creating]
      /\ \/ /\ page'.groups = l.map /\ page'.of = {l.dim}
            /\ page'.map = page.map /\ page'.from = page.from
         \/ /\ page'.map = l.map /\ page'.from = {l.dim}
            /\ page'.groups = page.groups /\ page'.of = page.of
  BY <1>1 DEF CohortsInv, PageInv
<1>6. PageInv(page')
  BY <1>3, <1>5 DEF CohortsInv, PageInv
<1>7. PageGroups(page')
  <2>1. \A d : {l.dim} = {d} => d = l.dim
    OBVIOUS
  <2> QED BY <2>1, <1>3, <1>5 DEF CohortsInv, PageGroups
<1> QED BY <1>2, <1>4, <1>6, <1>7, QuietInv

\* A checkpoint or a group is asked for.
LEMMA CreateInv ==
  ASSUME CohortsInv, CreateCohort
  PROVE  CohortsInv'
<1>1. PICK a \in Additions :
        Accept(New(a, page.dim, "page")) /\ page' = [page EXCEPT !.creating = a.op]
  BY DEF CreateCohort
<1>2. UNCHANGED <<schemas, loads, history>>
  BY DEF CreateCohort
<1>3. page.dim \in Dims /\ LoadsInv(loads')
  BY <1>2 DEF CohortsInv, PageInv
<1>4. PICK q : q = New(a, page.dim, "page")
  OBVIOUS
<1>5. RequestInv(q) /\ RequestGroups(q) /\ Accept(q)
  BY <1>1, <1>3, <1>4, AdditionAsked DEF RequestGroups
<1>6. RequestsInv(handled')
  BY <1>5, AcceptInv
<1>7. /\ page'.dim = page.dim /\ page'.groups = page.groups /\ page'.of = page.of
      /\ page'.map = page.map /\ page'.from = page.from
      /\ page' = [dim |-> page'.dim, groups |-> page'.groups, of |-> page'.of, map |-> page'.map,
                  from |-> page'.from, creating |-> page'.creating]
  BY <1>1 DEF CohortsInv, PageInv
<1>8. PageInv(page') /\ PageGroups(page')
  BY <1>7 DEF CohortsInv, PageInv, PageGroups
<1> QED BY <1>2, <1>3, <1>6, <1>8, QuietInv

\* Dropping one of the groups shown on another gives an order of those
\* groups.
LEMMA Dropped ==
  ASSUME NEW S, IsFiniteSet(S), NEW sorted \in SetToSeqs(S),
         NEW i \in DOMAIN sorted, NEW j \in DOMAIN sorted,
         NEW order, order = InsertAt(RemoveAt(sorted, i), j, sorted[i]),
         NEW map, map = [n \in ToSet(order) |-> Index(order, n) - 1]
  PROVE  DOMAIN map \subseteq S /\ map \in [DOMAIN map -> Int]
<1>1. Cardinality(S) \in Nat
  BY FS_CardinalityType
<1>2. sorted \in [1 .. Cardinality(S) -> S]
  BY DEF SetToSeqs
<1>3. sorted \in Seq(S) /\ Len(sorted) = Cardinality(S) /\ DOMAIN sorted = 1 .. Len(sorted)
  BY <1>1, <1>2
<1>4. i \in 1 .. Len(sorted) /\ j \in 1 .. Len(sorted) /\ sorted[i] \in S
  BY <1>2, <1>3
<1>5. RemoveAt(sorted, i) \in Seq(S) /\ Len(RemoveAt(sorted, i)) = Len(sorted) - 1
  BY <1>3, <1>4, RemoveAtProperties
<1>6. j \in 1 .. Len(RemoveAt(sorted, i)) + 1
  BY <1>1, <1>3, <1>4, <1>5
<1>7. order \in Seq(S)
  BY <1>4, <1>5, <1>6, InsertAtProperties
<1>8. DOMAIN map = ToSet(order) /\ ToSet(order) \subseteq S
  BY <1>7, ListedAt
<1>9. Len(order) \in Nat /\ \A n \in ToSet(order) : Index(order, n) \in 1 .. Len(order)
  BY <1>7, IndexOf, LenProperties
<1>10. \A n \in ToSet(order) : Index(order, n) - 1 \in Int
  BY <1>9
<1> QED BY <1>8, <1>10

\* A drop makes the order one of the groups shown, and of their dimension.
LEMMA DropInv ==
  ASSUME CohortsInv, DropGroup
  PROVE  CohortsInv'
<1>1. PICK sorted \in SortedGroups : \E i, j \in DOMAIN sorted :
        LET order == InsertAt(RemoveAt(sorted, i), j, sorted[i]) IN
          page' = [page EXCEPT !.map = [n \in ToSet(order) |-> Index(order, n) - 1],
                               !.from = page.of]
  BY DEF DropGroup
<1>2. PICK i \in DOMAIN sorted, j \in DOMAIN sorted :
        LET order == InsertAt(RemoveAt(sorted, i), j, sorted[i]) IN
          page' = [page EXCEPT !.map = [n \in ToSet(order) |-> Index(order, n) - 1],
                               !.from = page.of]
  BY <1>1
<1>3. PICK order : order = InsertAt(RemoveAt(sorted, i), j, sorted[i])
  OBVIOUS
<1>4. PICK map : map = [n \in ToSet(order) |-> Index(order, n) - 1]
  OBVIOUS
<1>5. page' = [page EXCEPT !.map = map, !.from = page.of]
  BY <1>2, <1>3, <1>4
<1>6. UNCHANGED <<schemas, handled, loads, history>>
  BY DEF DropGroup
<1>7. IsFiniteSet(DOMAIN page.groups) /\ sorted \in SetToSeqs(DOMAIN page.groups)
  BY DEF CohortsInv, PageInv, SortedGroups
<1>8. DOMAIN map \subseteq DOMAIN page.groups /\ map \in [DOMAIN map -> Int]
  BY <1>3, <1>4, <1>7, Dropped
<1>9. /\ page'.dim = page.dim /\ page'.groups = page.groups /\ page'.of = page.of
      /\ page'.map = map /\ page'.from = page.of
      /\ page' = [dim |-> page'.dim, groups |-> page'.groups, of |-> page'.of, map |-> page'.map,
                  from |-> page'.from, creating |-> page'.creating]
  BY <1>5 DEF CohortsInv, PageInv
<1>10. PageInv(page')
  BY <1>8, <1>9 DEF CohortsInv, PageInv
<1>11. PageGroups(page')
  BY <1>8, <1>9 DEF CohortsInv, PageGroups, StillGroups
<1>12. RequestsInv(handled') /\ LoadsInv(loads')
  BY <1>6 DEF CohortsInv
<1> QED BY <1>6, <1>10, <1>11, <1>12, QuietInv

\* The order is asked for of the selected dimension: of itself only if the order is.
LEMMA SaveInv ==
  ASSUME CohortsInv, SaveOrder
  PROVE  CohortsInv'
<1>1. PICK q : q = [Idle EXCEPT !.st = "read", !.op = "priority", !.client = "page",
                                !.dim = page.dim, !.map = page.map, !.from = page.from]
  OBVIOUS
<1>2. Accept(q) /\ page' = [page EXCEPT !.creating = "priority"]
  BY <1>1 DEF SaveOrder
<1>3. UNCHANGED <<schemas, loads, history>>
  BY DEF SaveOrder
<1>4. page.dim \in Dims /\ page.map \in [DOMAIN page.map -> Int] /\ LoadsInv(loads')
  BY <1>3 DEF CohortsInv, PageInv
<1>5. q = [st |-> "read", op |-> "priority", client |-> "page", dim |-> page.dim,
           name |-> Otherwise, cond |-> NoCondition, members |-> {}, map |-> page.map,
           from |-> page.from, old |-> NewDimension]
  BY <1>1 DEF Idle
<1>6. RequestInv(q) /\ q.dim = page.dim /\ q.map = page.map /\ q.from = page.from
  BY <1>4, <1>5, OrderAsked
<1>7. RequestGroups(q)
  BY <1>4, <1>6 DEF CohortsInv, PageGroups, RequestGroups, OfItself
<1>8. RequestsInv(handled')
  BY <1>2, <1>6, <1>7, AcceptInv
<1>9. /\ page'.dim = page.dim /\ page'.groups = page.groups /\ page'.of = page.of
      /\ page'.map = page.map /\ page'.from = page.from
      /\ page' = [dim |-> page'.dim, groups |-> page'.groups, of |-> page'.of, map |-> page'.map,
                  from |-> page'.from, creating |-> page'.creating]
  BY <1>2 DEF CohortsInv, PageInv
<1>10. PageInv(page') /\ PageGroups(page')
  BY <1>9 DEF CohortsInv, PageInv, PageGroups
<1> QED BY <1>3, <1>4, <1>8, <1>10, QuietInv

----------------------------------------------------------------------------
\* Every step.
LEMMA NextCohorts ==
  ASSUME CohortsInv, [CohortsNext]_cohortVars
  PROVE  CohortsInv'
<1>1. CASE \E s \in Workers : HandleChange(s)
  BY <1>1, ReadInv, WriteInv, FailInv DEF HandleChange
<1>2. CASE OthersChange
  BY <1>2, OthersInv
<1>3. CASE PageStep
  BY <1>3, SelectInv, AnswerInv, TakeInv, CreateInv, DropInv, SaveInv DEF PageStep
<1>4. CASE UNCHANGED cohortVars
  <2>1. UNCHANGED <<schemas, history, handled, loads, page>>
    BY <1>4 DEF cohortVars
  <2>2. RequestsInv(handled') /\ LoadsInv(loads') /\ PageInv(page') /\ PageGroups(page')
    BY <2>1 DEF CohortsInv
  <2> QED BY <2>1, <2>2, QuietInv
<1> QED BY <1>1, <1>2, <1>3, <1>4 DEF CohortsNext

(* Whatever the handlers, the page and other clients do, however their     *)
(* calls are interleaved and fail, every dimension is a schema: what it    *)
(* defines is listed, the place of the first cohort is no group, and while *)
(* no checkpoint was moved its groups are over its checkpoints, each of    *)
(* these bounded by the next. What is a group stays one, in the schema and *)
(* in every order of it, unless an update was lost.                        *)
THEOREM SchemasArranged == CohortsSpec => []CohortsInv
<1>1. CohortsInv /\ [CohortsNext]_cohortVars => CohortsInv'
  BY NextCohorts
<1> QED BY <1>1, InitCohorts, PTL DEF CohortsSpec

(* Every user is in the cohort the documentation promises, for any numbers *)
(* of dimensions, cohorts and requests and any orders of the values; and a *)
(* checkpoint is moved only by a client that names one, by an order of the *)
(* page that is of another dimension, or after an update was lost.         *)
THEOREM CohortsCorrect == CohortsSpec => []CohortsSafe
<1>1. CohortsInv => CohortsSafe
  <2> SUFFICES ASSUME CohortsInv PROVE CohortsSafe
    OBVIOUS
  <2>1. DOMAIN schemas = Dims /\ \A d \in Dims : SchemaInv(schemas[d])
    BY DEF CohortsInv, DimensionsInv
  <2>2. UsersAsPromised
    BY <2>1, SchemaAsPromised DEF UsersAsPromised
  <2> QED BY <2>2 DEF CohortsInv, CohortsSafe
<1> QED BY <1>1, SchemasArranged, PTL
=============================================================================
