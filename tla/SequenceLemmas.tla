--------------------------- MODULE SequenceLemmas ---------------------------
(***************************************************************************)
(* Lemmas on sequences, no code: what the edits of a duplicate-free        *)
(* sequence do to the set of its elements (Lists), where elements are      *)
(* after RemoveAt and InsertAt, what a fold or a flattened sequence of     *)
(* sequences is made of; and induction over the natural numbers, for sets. *)
(***************************************************************************)
EXTENDS Integers, SequencesExt, SequenceTheorems, WellFoundedInduction, TLAPS

\* s lists the elements of S, each of them once.
Lists(s, S) ==
  /\ s \in Seq(S)
  /\ \A i, j \in DOMAIN s : s[i] = s[j] => i = j
  /\ S = {s[i] : i \in DOMAIN s}

LEMMA MinInSet ==
  ASSUME NEW I \in SUBSET Nat, I # {}
  PROVE  Min(I) \in I /\ \A i \in I : Min(I) <= i
<1>1. PICK R : /\ IsWellFoundedOn(R, Nat)
               /\ \A i, m \in Nat : <<i, m>> \in R <=> i < m
  <2>1. \A i, m \in Nat : <<i, m>> \in OpToRel(<, Nat) <=> i < m
    BY DEF OpToRel
  <2> QED  BY <2>1, NatLessThanWellFounded, Zenon
<1>2. \E m \in I : \A i \in I : ~(<<i, m>> \in R)
  <2>1. IsWellFoundedOn(R, Nat) /\ I \subseteq Nat /\ I # {}
    BY <1>1
  <2> QED  BY <2>1, WFMin
<1>3. \E m \in I : \A i \in I : m <= i
  <2>1. PICK m \in I : \A i \in I : ~(<<i, m>> \in R)
    BY <1>2
  <2>2. ASSUME NEW i \in I
        PROVE  m <= i
    <3>1. ~(<<i, m>> \in R) /\ i \in Nat /\ m \in Nat
      BY <2>1
    <3>2. ~(i < m)
      BY <1>1, <3>1
    <3> QED  BY <3>1, <3>2
  <2> QED  BY <2>2
<1> QED  BY <1>3 DEF Min

\* What is left, place by place.
LEMMA RemoveAtElements ==
  ASSUME NEW S, NEW s \in Seq(S), NEW k \in 1 .. Len(s),
         NEW T, \A i \in 1 .. Len(s) : i # k => s[i] \in T
  PROVE  /\ RemoveAt(s, k) \in Seq(T)
         /\ Len(RemoveAt(s, k)) = Len(s) - 1
         /\ \A i \in 1 .. Len(s) - 1 :
              RemoveAt(s, k)[i] = IF i < k THEN s[i] ELSE s[i + 1]
<1> DEFINE a == SubSeq(s, 1, k - 1)
           b == SubSeq(s, k + 1, Len(s))
           r == RemoveAt(s, k)
<1>1. Len(s) \in Nat
  OBVIOUS
<1>3. /\ a \in Seq(T) /\ Len(a) = k - 1
      /\ \A i \in 1 .. k - 1 : a[i] = s[i]
  <2>1. \A i \in 1 .. k - 1 : s[i] \in T
    BY <1>1
  <2>2. /\ SubSeq(s, 1, k - 1) \in Seq(T)
        /\ Len(SubSeq(s, 1, k - 1)) = IF 1 <= k - 1 THEN k - 1 - 1 + 1 ELSE 0
        /\ \A i \in 1 .. k - 1 - 1 + 1 : SubSeq(s, 1, k - 1)[i] = s[1 + i - 1]
    BY <1>1, <2>1, SubSeqProperties
  <2> QED  BY <1>1, <2>2
<1>4. /\ b \in Seq(T) /\ Len(b) = Len(s) - k
      /\ \A i \in 1 .. Len(s) - k : b[i] = s[k + i]
  <2>1. \A i \in k + 1 .. Len(s) : s[i] \in T
    BY <1>1
  <2>2. /\ SubSeq(s, k + 1, Len(s)) \in Seq(T)
        /\ Len(SubSeq(s, k + 1, Len(s)))
             = IF k + 1 <= Len(s) THEN Len(s) - (k + 1) + 1 ELSE 0
        /\ \A i \in 1 .. Len(s) - (k + 1) + 1 :
              SubSeq(s, k + 1, Len(s))[i] = s[k + 1 + i - 1]
    BY <1>1, <2>1, SubSeqProperties
  <2>3. ASSUME NEW i \in 1 .. Len(s) - k
        PROVE  b[i] = s[k + i]
    <3>1. k + 1 + i - 1 = k + i /\ i \in 1 .. Len(s) - (k + 1) + 1
      BY <1>1
    <3> QED  BY <2>2, <3>1
  <2>4. b \in Seq(T)
    BY <2>2
  <2>5. Len(b) = Len(s) - k
    <3>1. Len(b) = IF k + 1 <= Len(s) THEN Len(s) - (k + 1) + 1 ELSE 0
      BY <2>2
    <3>2. k \in Nat /\ Len(s) \in Nat /\ k <= Len(s)
      BY <1>1
    <3>3. CASE k + 1 <= Len(s)
      BY <3>1, <3>2, <3>3
    <3>4. CASE k = Len(s)
      BY <3>1, <3>2, <3>4
    <3> QED  BY <3>2, <3>3, <3>4
  <2> QED  BY <2>3, <2>4, <2>5
<1> HIDE DEF a, b
<1>5. /\ r \in Seq(T) /\ Len(r) = Len(s) - 1
      /\ \A i \in 1 .. Len(s) - 1 : r[i] = IF i < k THEN s[i] ELSE s[i + 1]
  <2>1. r = a \o b
    BY DEF RemoveAt, a, b
  <2>2. /\ a \o b \in Seq(T) /\ Len(a \o b) = Len(a) + Len(b)
        /\ \A i \in 1 .. Len(a) + Len(b) :
              (a \o b)[i] = IF i <= Len(a) THEN a[i] ELSE b[i - Len(a)]
    BY <1>3, <1>4, ConcatProperties
  <2> QED  BY <1>1, <1>3, <1>4, <2>1, <2>2
<1> QED  BY <1>5

LEMMA RemoveAtLists ==
  ASSUME NEW S, NEW s, Lists(s, S), NEW k \in 1 .. Len(s)
  PROVE  Lists(RemoveAt(s, k), S \ {s[k]})
<1> DEFINE r == RemoveAt(s, k)
           T == S \ {s[k]}
<1>1. /\ s \in Seq(S) /\ Len(s) \in Nat /\ DOMAIN s = 1 .. Len(s)
      /\ \A i \in 1 .. Len(s) : s[i] \in S
  BY DEF Lists
<1>2. \A i \in 1 .. Len(s) : i # k => s[i] \in T
  BY <1>1 DEF Lists
<1> HIDE DEF T
<1>3. /\ r \in Seq(T) /\ Len(r) = Len(s) - 1
      /\ \A i \in 1 .. Len(s) - 1 : r[i] = IF i < k THEN s[i] ELSE s[i + 1]
  BY <1>1, <1>2, RemoveAtElements
<1> HIDE DEF r
<1>4. DOMAIN r = 1 .. Len(s) - 1
  BY <1>1, <1>3
<1>5. \A i, j \in DOMAIN r : r[i] = r[j] => i = j
  <2>1. \A i, j \in 1 .. Len(s) : s[i] = s[j] => i = j
    BY <1>1 DEF Lists
  <2> QED  BY <1>1, <1>3, <1>4, <2>1
<1>6. T = {r[i] : i \in DOMAIN r}
  <2>1. \A i \in DOMAIN r : r[i] \in T
    BY <1>3, <1>4
  <2>2. ASSUME NEW t \in T
        PROVE  \E i \in DOMAIN r : r[i] = t
    <3>1. PICK i \in 1 .. Len(s) : s[i] = t
      BY <1>1 DEF Lists, T
    <3>2. i # k
      BY <3>1 DEF T
    <3>3. CASE i < k
      BY <1>1, <1>3, <1>4, <3>1, <3>3
    <3>4. CASE i > k
      <4>1. i - 1 \in DOMAIN r /\ r[i - 1] = s[i]
        BY <1>1, <1>3, <1>4, <3>1, <3>4
      <4> QED  BY <3>1, <4>1
    <3> QED  BY <1>1, <3>2, <3>3, <3>4
  <2> QED  BY <2>1, <2>2
<1>7. Lists(r, T)
  BY <1>3, <1>5, <1>6 DEF Lists
<1> QED  BY <1>7 DEF r, T

\* Removing an element takes it out of the set; removing what is not there
\* changes nothing.
LEMMA RemoveFirstLists ==
  ASSUME NEW S, NEW s, Lists(s, S), NEW e
  PROVE  Lists(RemoveFirst(s, e), S \ {e})
<1>1. Len(s) \in Nat /\ DOMAIN s = 1 .. Len(s)
  BY DEF Lists
<1>2. CASE \E i \in 1 .. Len(s) : s[i] = e
  <2> DEFINE I == {i \in 1 .. Len(s) : s[i] = e}
  <2>1. Min(I) \in I
    <3>1. I \in SUBSET Nat /\ I # {}
      BY <1>1, <1>2
    <3> HIDE DEF I
    <3> QED  BY <3>1, MinInSet
  <2>2. RemoveFirst(s, e) = RemoveAt(s, Min(I))
    BY <1>2 DEF RemoveFirst, SelectInSeq
  <2> QED  BY <2>1, <2>2, RemoveAtLists
<1>3. CASE ~ \E i \in 1 .. Len(s) : s[i] = e
  <2>1. RemoveFirst(s, e) = s
    BY <1>3 DEF RemoveFirst
  <2>2. e \notin S
    BY <1>1, <1>3 DEF Lists
  <2> QED  BY <2>1, <2>2
<1> QED  BY <1>2, <1>3

LEMMA RemoveFirstSeq ==
  ASSUME NEW S, NEW s \in Seq(S), NEW e
  PROVE  RemoveFirst(s, e) \in Seq(S)
<1>1. Len(s) \in Nat /\ DOMAIN s = 1 .. Len(s)
  OBVIOUS
<1>2. CASE \E i \in 1 .. Len(s) : s[i] = e
  <2> DEFINE I == {i \in 1 .. Len(s) : s[i] = e}
             k == Min(I)
  <2>1. k \in I
    <3>1. I \in SUBSET Nat /\ I # {}
      BY <1>1, <1>2
    <3> HIDE DEF I
    <3> QED  BY <3>1, MinInSet
  <2>2. k \in 1 .. Len(s) /\ RemoveFirst(s, e) = RemoveAt(s, k)
    BY <1>2, <2>1 DEF RemoveFirst, SelectInSeq
  <2> HIDE DEF k
  <2>3. \A i \in 1 .. Len(s) : i # k => s[i] \in S
    OBVIOUS
  <2> QED  BY <2>2, <2>3, RemoveAtElements
<1>3. CASE ~ \E i \in 1 .. Len(s) : s[i] = e
  BY <1>3 DEF RemoveFirst
<1> QED  BY <1>2, <1>3

\* What inserting gives, place by place.
LEMMA InsertAtElements ==
  ASSUME NEW S, NEW s \in Seq(S), NEW k \in 1 .. Len(s) + 1, NEW e
  PROVE  /\ InsertAt(s, k, e) \in Seq(S \cup {e})
         /\ Len(InsertAt(s, k, e)) = Len(s) + 1
         /\ \A i \in 1 .. Len(s) + 1 :
              InsertAt(s, k, e)[i] =
                IF i < k THEN s[i] ELSE IF i = k THEN e ELSE s[i - 1]
<1> DEFINE a == SubSeq(s, 1, k - 1)
           b == SubSeq(s, k, Len(s))
           r == InsertAt(s, k, e)
           T == S \cup {e}
<1>1. /\ s \in Seq(S) /\ Len(s) \in Nat /\ DOMAIN s = 1 .. Len(s)
      /\ \A i \in 1 .. Len(s) : s[i] \in S /\ s[i] \in T
  OBVIOUS
<1>2. /\ a \in Seq(T) /\ Len(a) = k - 1
      /\ \A i \in 1 .. k - 1 : a[i] = s[i]
  <2>1. \A i \in 1 .. k - 1 : s[i] \in T
    BY <1>1
  <2>2. /\ SubSeq(s, 1, k - 1) \in Seq(T)
        /\ Len(SubSeq(s, 1, k - 1)) = IF 1 <= k - 1 THEN k - 1 - 1 + 1 ELSE 0
        /\ \A i \in 1 .. k - 1 - 1 + 1 : SubSeq(s, 1, k - 1)[i] = s[1 + i - 1]
    BY <1>1, <2>1, SubSeqProperties
  <2> QED  BY <1>1, <2>2
<1>3. /\ b \in Seq(T) /\ Len(b) = Len(s) - k + 1
      /\ \A i \in 1 .. Len(s) - k + 1 : b[i] = s[k + i - 1]
  <2>1. \A i \in k .. Len(s) : s[i] \in T
    BY <1>1
  <2>2. /\ SubSeq(s, k, Len(s)) \in Seq(T)
        /\ Len(SubSeq(s, k, Len(s))) = IF k <= Len(s) THEN Len(s) - k + 1 ELSE 0
        /\ \A i \in 1 .. Len(s) - k + 1 : SubSeq(s, k, Len(s))[i] = s[k + i - 1]
    BY <1>1, <2>1, SubSeqProperties
  <2> QED  BY <1>1, <2>2
<1>4. /\ <<e>> \in Seq(T) /\ Len(<<e>>) = 1 /\ <<e>>[1] = e
  OBVIOUS
<1> HIDE DEF a, b, T
<1>5. /\ a \o <<e>> \in Seq(T) /\ Len(a \o <<e>>) = k
      /\ \A i \in 1 .. k : (a \o <<e>>)[i] = IF i < k THEN s[i] ELSE e
  <2>1. /\ a \o <<e>> \in Seq(T) /\ Len(a \o <<e>>) = Len(a) + Len(<<e>>)
        /\ \A i \in 1 .. Len(a) + Len(<<e>>) :
             (a \o <<e>>)[i] = IF i <= Len(a) THEN a[i] ELSE <<e>>[i - Len(a)]
    BY <1>2, <1>4, ConcatProperties
  <2> QED  BY <1>1, <1>2, <1>4, <2>1
<1>6. /\ r \in Seq(T) /\ Len(r) = Len(s) + 1
      /\ \A i \in 1 .. Len(s) + 1 :
            r[i] = IF i < k THEN s[i] ELSE IF i = k THEN e ELSE s[i - 1]
  <2> DEFINE c == a \o <<e>>
  <2>1. r = c \o b
    BY DEF InsertAt, a, b
  <2>2. /\ c \o b \in Seq(T) /\ Len(c \o b) = Len(c) + Len(b)
        /\ \A i \in 1 .. Len(c) + Len(b) :
              (c \o b)[i] = IF i <= Len(c) THEN c[i] ELSE b[i - Len(c)]
    BY <1>3, <1>5, ConcatProperties
  <2> HIDE DEF c, r
  <2>3. Len(r) = Len(s) + 1
    <3>1. Len(r) = Len(c) + Len(b) /\ Len(c) = k /\ Len(b) = Len(s) - k + 1
      BY <1>3, <1>5, <2>1, <2>2 DEF c
    <3> QED  BY <1>1, <3>1
  <2>4. \A i \in 1 .. Len(s) + 1 :
           r[i] = IF i <= k THEN c[i] ELSE b[i - k]
    BY <1>1, <1>3, <1>5, <2>1, <2>2 DEF c
  <2>5. ASSUME NEW i \in 1 .. Len(s) + 1, i > k
        PROVE  b[i - k] = s[i - 1]
    <3>1. i - k \in 1 .. Len(s) - k + 1 /\ k + (i - k) - 1 = i - 1
      BY <1>1, <2>5
    <3> QED  BY <1>3, <3>1
  <2> QED  BY <1>1, <1>5, <2>1, <2>2, <2>3, <2>4, <2>5 DEF c
<1> QED  BY <1>6 DEF r, T

\* The same under a name.
IsInsert(r, s, k, e) ==
  /\ Len(r) = Len(s) + 1 /\ DOMAIN r = 1 .. Len(s) + 1
  /\ \A i \in 1 .. Len(s) + 1 :
       r[i] = IF i < k THEN s[i] ELSE IF i = k THEN e ELSE s[i - 1]

LEMMA InsertAtPlaces ==
  ASSUME NEW S, NEW s \in Seq(S), NEW k \in 1 .. Len(s) + 1, NEW e
  PROVE  IsInsert(InsertAt(s, k, e), s, k, e)
<1>1. /\ InsertAt(s, k, e) \in Seq(S \cup {e})
      /\ Len(InsertAt(s, k, e)) = Len(s) + 1
      /\ \A i \in 1 .. Len(s) + 1 :
           InsertAt(s, k, e)[i] =
             IF i < k THEN s[i] ELSE IF i = k THEN e ELSE s[i - 1]
  BY InsertAtElements
<1>2. DOMAIN InsertAt(s, k, e) = 1 .. Len(s) + 1
  BY <1>1
<1> QED  BY <1>1, <1>2 DEF IsInsert

\* Inserting a new element, wherever, adds it to the set.
LEMMA InsertAtLists ==
  ASSUME NEW S, NEW s, Lists(s, S), NEW k \in 1 .. Len(s) + 1,
         NEW e, e \notin S
  PROVE  Lists(InsertAt(s, k, e), S \cup {e})
<1> DEFINE r == InsertAt(s, k, e)
           T == S \cup {e}
<1>1. /\ s \in Seq(S) /\ Len(s) \in Nat /\ DOMAIN s = 1 .. Len(s)
      /\ \A i \in 1 .. Len(s) : s[i] \in S /\ s[i] \in T
  BY DEF Lists
<1>2. /\ r \in Seq(T) /\ Len(r) = Len(s) + 1
      /\ \A i \in 1 .. Len(s) + 1 :
            r[i] = IF i < k THEN s[i] ELSE IF i = k THEN e ELSE s[i - 1]
  <2>1. s \in Seq(S)
    BY <1>1
  <2>2. /\ InsertAt(s, k, e) \in Seq(S \cup {e})
        /\ Len(InsertAt(s, k, e)) = Len(s) + 1
        /\ \A i \in 1 .. Len(s) + 1 :
              InsertAt(s, k, e)[i] =
                IF i < k THEN s[i] ELSE IF i = k THEN e ELSE s[i - 1]
    BY ONLY <2>1, k \in 1 .. Len(s) + 1, InsertAtElements
  <2> QED  BY <2>2
<1> HIDE DEF r, T
<1>3. DOMAIN r = 1 .. Len(s) + 1
  BY <1>1, <1>2
<1>4. \A i, j \in DOMAIN r : r[i] = r[j] => i = j
  <2>1. \A i, j \in 1 .. Len(s) : s[i] = s[j] => i = j
    BY <1>1 DEF Lists
  <2>2. \A i \in 1 .. Len(s) : s[i] # e
    BY <1>1
  <2> QED  BY <1>1, <1>2, <1>3, <2>1, <2>2
<1>5. T = {r[i] : i \in DOMAIN r}
  <2>1. \A i \in DOMAIN r : r[i] \in T
    BY <1>2, <1>3
  <2>2. r[k] = e /\ k \in DOMAIN r
    BY <1>1, <1>2, <1>3
  <2>3. ASSUME NEW t \in S
        PROVE  \E i \in DOMAIN r : r[i] = t
    <3>1. PICK i \in 1 .. Len(s) : s[i] = t
      BY <1>1 DEF Lists
    <3>2. CASE i < k
      BY <1>1, <1>2, <1>3, <3>1, <3>2
    <3>3. CASE i >= k
      <4>1. i + 1 \in DOMAIN r /\ r[i + 1] = s[i]
        BY <1>1, <1>2, <1>3, <3>1, <3>3
      <4> QED  BY <3>1, <4>1
    <3> QED  BY <1>1, <3>2, <3>3
  <2> QED  BY <2>1, <2>2, <2>3 DEF T
<1>6. Lists(r, T)
  BY <1>2, <1>4, <1>5 DEF Lists
<1> QED  BY <1>6 DEF r, T

\* The two ends are places like any other.
LEMMA InsertAtEnds ==
  ASSUME NEW S, NEW s \in Seq(S), NEW e
  PROVE  /\ InsertAt(s, 1, e) = <<e>> \o s
         /\ InsertAt(s, Len(s) + 1, e) = Append(s, e)
<1> DEFINE n == Len(s)
           T == S \cup {e}
<1>1. s \in Seq(T) /\ <<e>> \in Seq(T) /\ n \in Nat
  OBVIOUS
<1>2. /\ SubSeq(s, 1, 1 - 1) = <<>> /\ SubSeq(s, 1, n) = s
      /\ SubSeq(s, n + 1, n) = <<>>
  BY <1>1, SubSeqEmpty, SubSeqFull
<1> HIDE DEF T
<1>3. InsertAt(s, 1, e) = <<e>> \o s
  BY <1>1, <1>2, ConcatEmptySeq DEF InsertAt
<1>4. InsertAt(s, n + 1, e) = s \o <<e>>
  <2>1. InsertAt(s, n + 1, e) = s \o <<e>> \o <<>>
    <3>1. InsertAt(s, n + 1, e)
            = SubSeq(s, 1, n + 1 - 1) \o <<e>> \o SubSeq(s, n + 1, n)
      BY DEF InsertAt
    <3>2. n + 1 - 1 = n
      BY <1>1
    <3>3. SubSeq(s, 1, n + 1 - 1) = s
      BY <1>2, <3>2
    <3> QED  BY <1>2, <3>1, <3>3
  <2>2. s \o <<e>> \in Seq(T)
    BY <1>1, ConcatProperties
  <2> QED  BY <2>1, <2>2, ConcatEmptySeq
<1>5. Append(s, e) = s \o <<e>>
  BY <1>1, AppendIsConcat
<1> QED  BY <1>3, <1>4, <1>5

LEMMA ConsLists ==
  ASSUME NEW S, NEW s, Lists(s, S), NEW e, e \notin S
  PROVE  Lists(<<e>> \o s, S \cup {e})
<1>1. s \in Seq(S) /\ 1 \in 1 .. Len(s) + 1
  BY DEF Lists
<1>2. Lists(InsertAt(s, 1, e), S \cup {e})
  BY <1>1, InsertAtLists
<1> QED  BY <1>1, <1>2, InsertAtEnds

LEMMA AppendLists ==
  ASSUME NEW S, NEW s, Lists(s, S), NEW e, e \notin S
  PROVE  Lists(Append(s, e), S \cup {e})
<1>1. s \in Seq(S) /\ Len(s) + 1 \in 1 .. Len(s) + 1
  BY DEF Lists
<1>2. Lists(InsertAt(s, Len(s) + 1, e), S \cup {e})
  BY <1>1, InsertAtLists
<1> QED  BY <1>1, <1>2, InsertAtEnds

----------------------------------------------------------------------------
(* Folds.  The induction theorems of the library take a predicate as a     *)
(* parameter; over the set of the numbers that have the property, the same *)
(* induction is a statement about sets.                                    *)

LEMMA NatSetInduction ==
  ASSUME NEW K, 0 \in K, \A n \in Nat : n \in K => n + 1 \in K
  PROVE  Nat \subseteq K
<1> DEFINE I == Nat \ K
<1>1. SUFFICES ASSUME I # {}
               PROVE  FALSE
  OBVIOUS
<1>2. Min(I) \in I /\ \A i \in I : Min(I) <= i
  <2>1. I \in SUBSET Nat
    OBVIOUS
  <2> HIDE DEF I
  <2> QED  BY <1>1, <2>1, MinInSet
<1> DEFINE m == Min(I)
<1>3. m \in Nat /\ m \notin K /\ \A i \in Nat : i < m => i \in K
  <2>1. m \in Nat /\ m \notin K /\ \A i \in I : m <= i
    BY <1>2
  <2> HIDE DEF m
  <2> QED  BY <2>1
<1> HIDE DEF m
<1>4. m # 0
  BY <1>3
<1>5. m - 1 \in Nat /\ m - 1 \in K /\ m - 1 + 1 = m
  BY <1>3, <1>4
<1> QED  BY <1>3, <1>5

LEMMA MaxInSet ==
  ASSUME NEW lo \in Int, NEW hi \in Int, NEW T \in SUBSET (lo .. hi), T # {}
  PROVE  Max(T) \in T /\ \A t \in T : Max(T) >= t
<1> DEFINE I == {hi - t : t \in T}
<1>1. I \in SUBSET Nat /\ I # {}
  <2>1. \A t \in T : t \in Int /\ t <= hi
    OBVIOUS
  <2>2. \A t \in T : hi - t \in Nat
    BY <2>1
  <2> QED  BY <2>2
<1>2. Min(I) \in I /\ \A i \in I : Min(I) <= i
  <2> HIDE DEF I
  <2> QED  BY <1>1, MinInSet
<1>3. PICK t \in T : Min(I) = hi - t
  BY <1>2
<1>4. \A u \in T : t >= u
  <2>1. ASSUME NEW u \in T
        PROVE  t >= u
    <3>1. hi - t <= hi - u
      BY <1>2, <1>3
    <3>2. t \in Int /\ u \in Int
      OBVIOUS
    <3> QED  BY <3>1, <3>2
  <2> QED  BY <2>1
<1>5. \E x \in T : \A y \in T : x >= y
  BY <1>4
<1> QED  BY <1>5 DEF Max

\* A fold over S that takes the elements from the least to the greatest.
IsFold(g, S, base, step) ==
  g = [T \in SUBSET S |-> IF T = {} THEN base
                          ELSE step[Max(T)][g[T \ {Max(T)}]]]

\* Such a fold is well defined if its steps stay in Acc.
LEMMA FoldExists ==
  ASSUME NEW lo \in Int, NEW hi \in Int, NEW S \in SUBSET (lo .. hi),
         NEW Acc, NEW base \in Acc, NEW step \in [S -> [Acc -> Acc]]
  PROVE  \E g \in [SUBSET S -> Acc] : IsFold(g, S, base, step)
<1> DEFINE Up(k) == {c \in S : c < lo + k}
           Folds(g, U) == IsFold(g, U, base, step)
           K == {k \in Nat : \E g \in [SUBSET Up(k) -> Acc] : Folds(g, Up(k))}
<1>0. \A x \in S : x \in Int /\ lo <= x /\ x <= hi
  OBVIOUS
<1>1. 0 \in K
  <2>1. Up(0) = {}
    <3>1. \A x \in S : ~(x < lo + 0)
      BY <1>0
    <3> HIDE DEF K, Folds
    <3> QED  BY <3>1
  <2> DEFINE g == [T \in SUBSET Up(0) |-> base]
  <2>2. \A T \in SUBSET Up(0) : T = {}
    BY <2>1
  <2>3. g \in [SUBSET Up(0) -> Acc]
    OBVIOUS
  <2>4. Folds(g, Up(0))
    BY <2>2 DEF IsFold
  <2> QED  BY <2>3, <2>4
<1>2. ASSUME NEW k \in Nat, k \in K
      PROVE  k + 1 \in K
  <2>1. PICK g \in [SUBSET Up(k) -> Acc] : Folds(g, Up(k))
    BY <1>2
  <2> DEFINE c == lo + k
             h == [T \in SUBSET Up(k + 1) |->
                     IF c \in T THEN step[c][g[T \ {c}]] ELSE g[T]]
  <2>2. c \in Int /\ \A x \in S : x \in Int
    OBVIOUS
  <2>3. \A T \in SUBSET Up(k + 1) :
           IF c \in T THEN T \ {c} \in SUBSET Up(k) ELSE T \in SUBSET Up(k)
    BY <2>2
  <2>4. Up(k) \in SUBSET S /\ Up(k + 1) \in SUBSET S
    OBVIOUS
  <2>5. \A T \in SUBSET Up(k + 1) : c \in T => Max(T) = c
    <3>1. ASSUME NEW T \in SUBSET Up(k + 1), c \in T
          PROVE  Max(T) = c
      <4>1. T \in SUBSET (lo .. hi) /\ T # {}
        BY <2>4, <3>1
      <4>2. Max(T) \in T /\ Max(T) >= c
        BY <3>1, <4>1, MaxInSet
      <4> DEFINE m == Max(T)
      <4>3. m \in S /\ m < lo + (k + 1)
        BY <4>2
      <4> HIDE DEF m
      <4>4. m \in Int /\ m < c + 1
        BY <2>2, <4>3
      <4>5. m >= c
        BY <4>2 DEF m
      <4>6. m = c
        BY <2>2, <4>4, <4>5
      <4> QED  BY <4>6 DEF m
    <3> QED  BY <3>1
  <2>6. \A T \in SUBSET Up(k) : g[T] \in Acc
    BY <2>1
  <2>7. h \in [SUBSET Up(k + 1) -> Acc]
    <3>1. ASSUME NEW T \in SUBSET Up(k + 1)
          PROVE  h[T] \in Acc
      <4>1. CASE c \in T
        <5>1. c \in S /\ g[T \ {c}] \in Acc
          BY <2>3, <2>4, <2>6, <4>1
        <5> QED  BY <4>1, <5>1
      <4>2. CASE c \notin T
        BY <2>3, <2>6, <4>2
      <4> QED  BY <4>1, <4>2
    <3> QED  BY <3>1
  <2>8. ASSUME NEW T \in SUBSET Up(k + 1)
        PROVE  h[T] = IF T = {} THEN base
                      ELSE step[Max(T)][h[T \ {Max(T)}]]
    <3>1. CASE c \in T
      <4>1. T # {} /\ Max(T) = c /\ h[T] = step[c][g[T \ {c}]]
        BY <2>5, <3>1
      <4>2. T \ {c} \in SUBSET Up(k + 1) /\ c \notin T \ {c}
        OBVIOUS
      <4>3. h[T \ {c}] = g[T \ {c}]
        BY <4>2
      <4> QED  BY <4>1, <4>3
    <3>2. CASE c \notin T
      <4>1. T \in SUBSET Up(k) /\ h[T] = g[T]
        BY <2>3, <3>2
      <4>2. g[T] = IF T = {} THEN base ELSE step[Max(T)][g[T \ {Max(T)}]]
        BY <2>1, <4>1, Zenon DEF IsFold
      <4>3. T \ {Max(T)} \in SUBSET Up(k + 1) /\ c \notin T \ {Max(T)}
        BY <3>2
      <4>4. h[T \ {Max(T)}] = g[T \ {Max(T)}]
        BY <4>3
      <4> QED  BY <4>1, <4>2, <4>4
    <3> QED  BY <3>1, <3>2
  <2>9. Folds(h, Up(k + 1))
    <3> DEFINE r(T) == IF T = {} THEN base ELSE step[Max(T)][h[T \ {Max(T)}]]
    <3>1. \A T \in SUBSET Up(k + 1) : h[T] = r(T)
      BY <2>8
    <3>2. h = [T \in SUBSET Up(k + 1) |-> h[T]]
      OBVIOUS
    <3> HIDE DEF h, r
    <3>3. h = [T \in SUBSET Up(k + 1) |-> r(T)]
      BY <3>1, <3>2
    <3> QED  BY <3>3 DEF r, IsFold
  <2> HIDE DEF h, Folds, Up
  <2> QED  BY <2>7, <2>9
<1>3. PICK k \in Nat : S = Up(k)
  <2>1. CASE hi < lo
    <3>1. S = {}
      BY <1>0, <2>1
    <3> HIDE DEF K, Folds
    <3>2. S = Up(0)
      BY <3>1
    <3> QED  BY <3>2
  <2>2. CASE hi >= lo
    <3> HIDE DEF K, Folds
    <3>1. hi - lo + 1 \in Nat /\ lo + (hi - lo + 1) = hi + 1
      BY <2>2
    <3>2. \A x \in S : x < lo + (hi - lo + 1)
      BY <1>0, <3>1
    <3>3. S = Up(hi - lo + 1)
      BY <3>2
    <3> QED  BY <3>1, <3>3
  <2> QED  BY <2>1, <2>2
<1>4. k \in K
  <2> HIDE DEF K
  <2>1. Nat \subseteq K
    BY <1>1, <1>2, NatSetInduction
  <2> QED  BY <2>1
<1>5. \E g \in [SUBSET Up(k) -> Acc] : Folds(g, Up(k))
  BY <1>4
<1> QED  BY <1>3, <1>5

\* The sets a fold over a sequence goes through.
LEMMA MaxOfInterval ==
  ASSUME NEW n \in Nat, NEW k \in 1 .. n
  PROVE  /\ 1 .. k \in SUBSET (1 .. n) /\ 1 .. k # {} /\ Max(1 .. k) = k
         /\ (1 .. k) \ {k} = 1 .. k - 1
<1>1. 1 .. k \in SUBSET (1 .. n) /\ k \in 1 .. k /\ (1 .. k) \ {k} = 1 .. k - 1
  OBVIOUS
<1> DEFINE T == 1 .. k
           m == Max(T)
<1>2. m \in T /\ m >= k
  <2>1. T \in SUBSET (1 .. n) /\ k \in T
    BY <1>1
  <2>2. 1 \in Int /\ n \in Int
    OBVIOUS
  <2> HIDE DEF T
  <2> QED  BY <2>1, <2>2, MaxInSet
<1>3. m = k
  <2> HIDE DEF m
  <2> QED  BY <1>2
<1> QED  BY <1>1, <1>3

\* Flattening sequences over T gives a sequence over T.
LEMMA FlattenInSeq ==
  ASSUME NEW T, NEW seqs \in Seq(Seq(T))
  PROVE  FlattenSeq(seqs) \in Seq(T)
<1> DEFINE n == Len(seqs)
<1>0. n \in Nat /\ DOMAIN seqs = 1 .. n /\ \A i \in 1 .. n : seqs[i] \in Seq(T)
  OBVIOUS
<1>1. CASE n = 0
  <2>1. seqs = <<>>
    BY <1>1
  <2> QED  BY <1>1, <2>1 DEF FlattenSeq
<1>2. CASE n # 0
  <2> DEFINE Is(g, k) == g = [i \in 1 .. k |-> IF i = 1 THEN seqs[i]
                                              ELSE g[i - 1] \o seqs[i]]
             Has(k) == \E g \in [1 .. k -> Seq(T)] : Is(g, k)
             K == {k \in Nat : k <= n => Has(k)}
             flatten == CHOOSE g : Is(g, n)
  <2>1. 0 \in K
    <3> DEFINE g == [i \in 1 .. 0 |-> <<>>]
    <3>1. \A i \in 1 .. 0 : FALSE
      OBVIOUS
    <3>2. g \in [1 .. 0 -> Seq(T)] /\ Is(g, 0)
      BY <3>1
    <3> HIDE DEF g, Is
    <3>3. Has(0)
      BY <3>2
    <3> HIDE DEF Has
    <3> QED  BY <3>3
  <2>2. ASSUME NEW k \in Nat, k \in K
        PROVE  k + 1 \in K
    <3>1. SUFFICES ASSUME k + 1 <= n
                   PROVE  \E g \in [1 .. k + 1 -> Seq(T)] : Is(g, k + 1)
      <4>1. (k + 1 <= n => Has(k + 1)) => k + 1 \in K
        <5> HIDE DEF Has
        <5> QED  OBVIOUS
      <4> HIDE DEF K, Is
      <4> QED  BY <4>1
    <3>2. PICK g \in [1 .. k -> Seq(T)] : Is(g, k)
      <4>1. Has(k)
        <5> HIDE DEF Has
        <5> QED  BY <1>0, <2>2, <3>1
      <4> QED  BY <4>1
    <3>3. \A i \in 1 .. k : g[i] = IF i = 1 THEN seqs[i] ELSE g[i - 1] \o seqs[i]
      BY <3>2, Zenon
    <3> DEFINE at(i) == IF i = 1 THEN seqs[i] ELSE g[i - 1] \o seqs[i]
               h == [i \in 1 .. k + 1 |-> at(i)]
    <3>4. \A i \in 1 .. k + 1 : i # 1 => i - 1 \in 1 .. k /\ i - 1 \in 1 .. k + 1
      OBVIOUS
    <3>5. \A i \in 1 .. k + 1 : i \in 1 .. n /\ at(i) \in Seq(T)
      <4>1. ASSUME NEW i \in 1 .. k + 1
            PROVE  i \in 1 .. n /\ at(i) \in Seq(T)
        <5>1. i \in 1 .. n /\ seqs[i] \in Seq(T)
          BY <1>0, <3>1
        <5>2. i # 1 => g[i - 1] \in Seq(T)
          BY <3>2, <3>4
        <5>3. i # 1 => g[i - 1] \o seqs[i] \in Seq(T)
          BY <5>1, <5>2, ConcatProperties
        <5> QED  BY <5>1, <5>3
      <4> QED  BY <4>1
    <3>6. \A i \in 1 .. k : h[i] = g[i]
      <4>1. 1 .. k \subseteq 1 .. k + 1
        OBVIOUS
      <4> HIDE DEF K, Is, flatten
      <4> QED  BY <3>3, <4>1
    <3>7. h \in [1 .. k + 1 -> Seq(T)]
      <4> HIDE DEF at, K, Is, flatten
      <4> QED  BY <3>5
    <3>8. \A i \in 1 .. k + 1 :
             h[i] = IF i = 1 THEN seqs[i] ELSE h[i - 1] \o seqs[i]
      <4>1. ASSUME NEW i \in 1 .. k + 1
            PROVE  h[i] = IF i = 1 THEN seqs[i] ELSE h[i - 1] \o seqs[i]
        <5>1. h[i] = at(i)
          OBVIOUS
        <5>2. i # 1 => h[i - 1] = g[i - 1]
          BY <3>4, <3>6
        <5> HIDE DEF h
        <5> QED  BY <5>1, <5>2
      <4> QED  BY <4>1
    <3>9. Is(h, k + 1)
      <4> DEFINE r(i) == IF i = 1 THEN seqs[i] ELSE h[i - 1] \o seqs[i]
      <4>1. h = [i \in 1 .. k + 1 |-> h[i]]
        OBVIOUS
      <4>2. \A i \in 1 .. k + 1 : h[i] = r(i)
        BY <3>8
      <4> HIDE DEF h, r
      <4>3. h = [i \in 1 .. k + 1 |-> r(i)]
        BY <4>1, <4>2
      <4> QED  BY <4>3 DEF r
    <3> HIDE DEF h, Is
    <3> QED  BY <3>7, <3>9
  <2>3. n \in K
    <3> HIDE DEF K
    <3>1. Nat \subseteq K
      BY <2>1, <2>2, NatSetInduction
    <3> QED  BY <1>0, <3>1
  <2>4. Is(flatten, n)
    <3>1. \E g : Is(g, n)
      <4>1. Has(n)
        <5> HIDE DEF Has
        <5> QED  BY <1>0, <2>3
      <4> QED  BY <4>1
    <3> HIDE DEF Is
    <3> QED  BY <3>1
  <2>5. FlattenSeq(seqs) = flatten[n]
    BY <1>2 DEF FlattenSeq
  <2> HIDE DEF flatten, K
  <2>6. \A i \in 1 .. n :
           flatten[i] = IF i = 1 THEN seqs[i] ELSE flatten[i - 1] \o seqs[i]
    BY <2>4, Zenon
  <2> HIDE DEF Is
  <2> DEFINE L == {k \in Nat : k \in 1 .. n => flatten[k] \in Seq(T)}
  <2>7. 0 \in L
    OBVIOUS
  <2>8. ASSUME NEW k \in Nat, k \in L
        PROVE  k + 1 \in L
    <3>1. CASE k + 1 \in 1 .. n /\ k # 0
      <4>1. k \in 1 .. n /\ k + 1 - 1 = k /\ k + 1 # 1
        BY <1>0, <3>1
      <4>2. flatten[k + 1] = flatten[k] \o seqs[k + 1]
        <5> HIDE DEF L
        <5> DEFINE m == k + 1
        <5>1. m \in 1 .. n /\ m - 1 = k /\ m # 1
          BY <3>1, <4>1
        <5> HIDE DEF m
        <5>2. flatten[m] = flatten[k] \o seqs[m]
          BY <2>6, <5>1
        <5> QED  BY <5>2 DEF m
      <4>3. flatten[k] \in Seq(T) /\ seqs[k + 1] \in Seq(T)
        BY <1>0, <2>8, <3>1, <4>1
      <4>4. flatten[k + 1] \in Seq(T)
        BY <4>2, <4>3, ConcatProperties
      <4> QED  BY <4>4
    <3>2. CASE k = 0 /\ 1 \in 1 .. n
      <4>1. flatten[1] = seqs[1]
        BY <2>6, <3>2
      <4> QED  BY <1>0, <3>2, <4>1
    <3>3. CASE k + 1 \notin 1 .. n
      BY <3>3
    <3> QED  BY <3>1, <3>2, <3>3
  <2>9. n \in L
    <3> HIDE DEF L
    <3>1. Nat \subseteq L
      BY <2>7, <2>8, NatSetInduction
    <3> QED  BY <1>0, <3>1
  <2>10. n \in 1 .. n
    BY <1>0, <1>2
  <2> QED  BY <2>5, <2>9, <2>10
<1> QED  BY <1>1, <1>2
=============================================================================
