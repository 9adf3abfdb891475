-------------------------- MODULE QwsWindowsProofs --------------------------
(***************************************************************************)
(* Theorems about QwsWindows, for any set of windows: the stack and the    *)
(* map stay in step and keep their zones, the compositor is told of their  *)
(* order, hidden windows stay hidden, every visible region is computed     *)
(* anew, told to the client and none lies below an opaque one, and a       *)
(* client that keeps to the rules is never the end of the proxy.           *)
(***************************************************************************)
EXTENDS QwsWindows, SequenceLemmas, TLAPS

----------------------------------------------------------------------------
(* The order of a sequence after an edit. *)

LEMMA InsertAbove ==
  ASSUME NEW S, NEW s \in Seq(S), NEW k \in 1 .. Len(s) + 1, NEW e, NEW a, NEW b,
         Above(s, a, b)
  PROVE  Above(InsertAt(s, k, e), a, b)
<1>1. Len(s) \in Nat /\ DOMAIN s = 1 .. Len(s)
  OBVIOUS
<1> DEFINE r == InsertAt(s, k, e)
<1>2. IsInsert(r, s, k, e)
  BY InsertAtPlaces
<1> HIDE DEF r
<1>3. /\ DOMAIN r = 1 .. Len(s) + 1
      /\ \A i \in 1 .. Len(s) + 1 :
           r[i] = IF i < k THEN s[i] ELSE IF i = k THEN e ELSE s[i - 1]
  BY <1>2 DEF IsInsert
<1>4. PICK i \in DOMAIN s, j \in DOMAIN s : i < j /\ s[i] = a /\ s[j] = b
  BY DEF Above
<1> DEFINE to(m) == IF m < k THEN m ELSE m + 1
<1>5. \A m \in DOMAIN s : to(m) \in DOMAIN r /\ r[to(m)] = s[m]
  <2>1. ASSUME NEW m \in DOMAIN s
        PROVE  to(m) \in DOMAIN r /\ r[to(m)] = s[m]
    <3>1. CASE m < k
      BY <1>1, <1>3, <3>1
    <3>2. CASE ~(m < k)
      <4>1. m + 1 \in 1 .. Len(s) + 1 /\ ~(m + 1 < k) /\ m + 1 # k /\ m + 1 - 1 = m
        BY <1>1, <3>2
      <4> QED  BY <1>3, <3>2, <4>1
    <3> QED  BY <3>1, <3>2
  <2> QED  BY <2>1
<1>6. to(i) < to(j)
  BY <1>1, <1>4
<1> HIDE DEF to
<1>7. Above(r, a, b)
  BY <1>4, <1>5, <1>6 DEF Above
<1> QED  BY <1>7 DEF r

LEMMA EndsAbove ==
  ASSUME NEW S, NEW s \in Seq(S), NEW e, NEW a, NEW b, Above(s, a, b)
  PROVE  Above(<<e>> \o s, a, b) /\ Above(Append(s, e), a, b)
<1>1. Len(s) \in Nat /\ 1 \in 1 .. Len(s) + 1 /\ Len(s) + 1 \in 1 .. Len(s) + 1
  OBVIOUS
<1>2. InsertAt(s, 1, e) = <<e>> \o s /\ InsertAt(s, Len(s) + 1, e) = Append(s, e)
  BY InsertAtEnds
<1>3. Above(InsertAt(s, 1, e), a, b) /\ Above(InsertAt(s, Len(s) + 1, e), a, b)
  BY <1>1, InsertAbove
<1> QED  BY <1>2, <1>3

\* Removing e leaves the others as they lie, and puts nothing above anything.
LEMMA RemoveFirstAbove ==
  ASSUME NEW S, NEW s \in Seq(S), NEW e, NEW a, NEW b
  PROVE  /\ Above(RemoveFirst(s, e), a, b) => Above(s, a, b)
         /\ Above(s, a, b) /\ a # e /\ b # e => Above(RemoveFirst(s, e), a, b)
<1>1. Len(s) \in Nat /\ DOMAIN s = 1 .. Len(s)
  OBVIOUS
<1>2. CASE \E i \in 1 .. Len(s) : s[i] = e
  <2> DEFINE I == {i \in 1 .. Len(s) : s[i] = e}
             k == Min(I)
             r == RemoveFirst(s, e)
  <2>1. k \in I
    <3>1. I \in SUBSET Nat /\ I # {}
      BY <1>1, <1>2
    <3> HIDE DEF I
    <3> QED  BY <3>1, MinInSet
  <2>2. k \in 1 .. Len(s) /\ s[k] = e /\ r = RemoveAt(s, k)
    BY <1>2, <2>1 DEF RemoveFirst, SelectInSeq
  <2> HIDE DEF k, r
  <2>3. \A i \in 1 .. Len(s) : i # k => s[i] \in S
    OBVIOUS
  <2>4. /\ r \in Seq(S) /\ Len(r) = Len(s) - 1
        /\ \A i \in 1 .. Len(s) - 1 : r[i] = IF i < k THEN s[i] ELSE s[i + 1]
    BY <2>2, <2>3, RemoveAtElements
  <2>5. DOMAIN r = 1 .. Len(s) - 1
    BY <1>1, <2>4
  <2>6. ASSUME Above(r, a, b)
        PROVE  Above(s, a, b)
    <3>1. PICK i \in DOMAIN r, j \in DOMAIN r : i < j /\ r[i] = a /\ r[j] = b
      BY <2>6 DEF Above
    <3> DEFINE from(m) == IF m < k THEN m ELSE m + 1
    <3>2. \A m \in DOMAIN r : from(m) \in DOMAIN s /\ r[m] = s[from(m)]
      BY <1>1, <2>2, <2>4, <2>5
    <3>3. from(i) < from(j)
      BY <1>1, <2>2, <2>5, <3>1
    <3> HIDE DEF from
    <3> QED  BY <3>1, <3>2, <3>3 DEF Above
  <2>7. ASSUME Above(s, a, b), a # e, b # e
        PROVE  Above(r, a, b)
    <3>1. PICK i \in DOMAIN s, j \in DOMAIN s : i < j /\ s[i] = a /\ s[j] = b
      BY <2>7 DEF Above
    <3> DEFINE to(m) == IF m < k THEN m ELSE m - 1
    <3>2. \A m \in DOMAIN s : m # k => to(m) \in DOMAIN r /\ r[to(m)] = s[m]
      <4>1. ASSUME NEW m \in DOMAIN s, m # k
            PROVE  to(m) \in DOMAIN r /\ r[to(m)] = s[m]
        <5>1. CASE m < k
          BY <1>1, <2>2, <2>4, <2>5, <5>1
        <5>2. CASE ~(m < k)
          <6>1. m - 1 \in 1 .. Len(s) - 1 /\ ~(m - 1 < k) /\ m - 1 + 1 = m
            BY <1>1, <2>2, <4>1, <5>2
          <6> QED  BY <2>4, <2>5, <5>2, <6>1
        <5> QED  BY <5>1, <5>2
      <4> QED  BY <4>1
    <3>3. i # k /\ j # k
      BY <2>2, <2>7, <3>1
    <3>4. to(i) < to(j)
      BY <1>1, <2>2, <3>1, <3>3
    <3> HIDE DEF to
    <3> QED  BY <3>1, <3>2, <3>3, <3>4 DEF Above
  <2> QED  BY <2>6, <2>7 DEF r
<1>3. CASE ~ \E i \in 1 .. Len(s) : s[i] = e
  BY <1>3 DEF RemoveFirst
<1> QED  BY <1>2, <1>3

----------------------------------------------------------------------------
(* Rectangles. *)

Box == [x1 : Int, x2 : Int]

\* The boxes that have no cell in B.
Clear(B) == {r \in Box : Cells(r) \cap B = {}}

LEMMA ClearCells ==
  ASSUME NEW B, NEW rs \in Seq(Clear(B))
  PROVE  rs \in Seq(Box) /\ CellsOf(rs) \cap B = {}
<1>1. Clear(B) \subseteq Box
  BY DEF Clear
<1>2. rs \in Seq(Box)
  BY <1>1, SeqMonotonic
<1>3. \A i \in DOMAIN rs : Cells(rs[i]) \cap B = {}
  <2>1. \A i \in DOMAIN rs : rs[i] \in Clear(B)
    OBVIOUS
  <2> QED  BY <2>1 DEF Clear
<1> QED  BY <1>2, <1>3 DEF CellsOf

\* Adding a cell to boxes that each have one.
Solid(boxes) == \A i \in DOMAIN boxes : boxes[i].x1 < boxes[i].x2

LEMMA AddCellCells ==
  ASSUME NEW c \in Int, NEW boxes \in Seq(Box)
  PROVE  /\ AddCell(c, boxes) \in Seq(Box)
         /\ Solid(boxes) => /\ Solid(AddCell(c, boxes))
                            /\ CellsOf(AddCell(c, boxes)) = CellsOf(boxes) \cup {c}
<1> DEFINE n == Len(boxes)
           r == AddCell(c, boxes)
<1>1. n \in Nat /\ DOMAIN boxes = 1 .. n /\ \A i \in 1 .. n : boxes[i] \in Box
  OBVIOUS
<1>2. CASE n > 0 /\ boxes[n].x2 = c
  <2> DEFINE b == Rect(boxes[n].x1, c + 1)
  <2>1. n \in 1 .. n /\ boxes[n] \in Box
    BY <1>1, <1>2
  <2>2. b \in Box /\ b.x1 = boxes[n].x1 /\ b.x2 = c + 1
    BY <2>1 DEF Rect, Box
  <2>3. r = [boxes EXCEPT ![n] = b]
    BY <1>2 DEF AddCell, ReplaceAt
  <2> HIDE DEF r, b, n
  <2>4. r \in Seq(Box) /\ DOMAIN r = 1 .. n
    BY <1>1, <2>1, <2>2, <2>3
  <2>5. r[n] = b /\ \A i \in 1 .. n : i # n => r[i] = boxes[i]
    BY <1>1, <2>1, <2>3
  <2>6. ASSUME Solid(boxes)
        PROVE  Solid(r) /\ CellsOf(r) = CellsOf(boxes) \cup {c}
    <3>1. boxes[n].x1 < c
      BY <1>1, <1>2, <2>1, <2>6 DEF Solid
    <3>2. boxes[n].x1 \in Int
      BY <2>1 DEF Box
    <3>3. b.x1 < b.x2
      BY <2>2, <3>1, <3>2
    <3>4. Solid(r)
      BY <1>1, <2>4, <2>5, <2>6, <3>3 DEF Solid
    <3>5. Cells(b) = Cells(boxes[n]) \cup {c}
      <4>1. boxes[n].x1 .. (c + 1) - 1 = (boxes[n].x1 .. c - 1) \cup {c}
        BY <3>1, <3>2
      <4> QED  BY <1>2, <2>2, <4>1 DEF Cells
    <3>6. \A x : x \in CellsOf(r) <=> \E i \in 1 .. n : x \in Cells(r[i])
      BY <2>4 DEF CellsOf
    <3>7. \A x : x \in CellsOf(boxes) <=> \E i \in 1 .. n : x \in Cells(boxes[i])
      BY <1>1 DEF CellsOf
    <3>8. \A i \in 1 .. n : Cells(r[i]) = IF i = n THEN Cells(boxes[n]) \cup {c}
                                                 ELSE Cells(boxes[i])
      BY <2>5, <3>5
    <3>9. \A x : x \in CellsOf(r) <=> x \in CellsOf(boxes) \cup {c}
      BY <2>1, <3>6, <3>7, <3>8
    <3> QED  BY <3>4, <3>9
  <2> QED  BY <2>4, <2>6 DEF r
<1>3. CASE ~(n > 0 /\ boxes[n].x2 = c)
  <2> DEFINE b == Rect(c, c + 1)
  <2>1. b \in Box /\ b.x1 = c /\ b.x2 = c + 1
    BY DEF Rect, Box
  <2>2. r = Append(boxes, b)
    BY <1>3 DEF AddCell
  <2> HIDE DEF r, b, n
  <2>3. r \in Seq(Box) /\ DOMAIN r = 1 .. n + 1
    BY <1>1, <2>1, <2>2 DEF n
  <2>4. r[n + 1] = b /\ \A i \in 1 .. n : r[i] = boxes[i]
    BY <1>1, <2>1, <2>2 DEF n
  <2>5. \A i \in 1 .. n + 1 : i \in 1 .. n \/ i = n + 1
    BY <1>1
  <2>6. n + 1 \in 1 .. n + 1 /\ 1 .. n \subseteq 1 .. n + 1
    BY <1>1
  <2>7. Solid(boxes) => Solid(r)
    <3>1. b.x1 < b.x2
      BY <2>1
    <3> QED  BY <1>1, <2>3, <2>4, <2>5, <3>1 DEF Solid
  <2>8. CellsOf(r) = CellsOf(boxes) \cup {c}
    <3>1. Cells(b) = {c}
      BY <2>1 DEF Cells
    <3>2. \A x : x \in CellsOf(r) <=> \E i \in 1 .. n + 1 : x \in Cells(r[i])
      BY <2>3 DEF CellsOf
    <3>3. \A x : x \in CellsOf(boxes) <=> \E i \in 1 .. n : x \in Cells(boxes[i])
      BY <1>1 DEF CellsOf
    <3>4. \A x : x \in CellsOf(r) <=> x \in CellsOf(boxes) \cup {c}
      BY <2>4, <2>5, <2>6, <3>1, <3>2, <3>3
    <3> QED  BY <3>4
  <2> QED  BY <2>3, <2>7, <2>8 DEF r
<1> QED  BY <1>2, <1>3

\* The boxes for a set of cells cover exactly these cells.
LEMMA RunsCells ==
  ASSUME NEW lo \in Int, NEW hi \in Int, NEW S \in SUBSET (lo .. hi)
  PROVE  Runs(S) \in Seq(Box) /\ CellsOf(Runs(S)) = S
<1> DEFINE Acc == Seq(Box)
           step == [c \in S |-> [boxes \in Acc |-> AddCell(c, boxes)]]
           Is(g) == g = [T \in SUBSET S |->
                           IF T = {} THEN <<>> ELSE AddCell(Max(T), g[T \ {Max(T)}])]
           iter == CHOOSE g : Is(g)
           Up(k) == {x \in S : x < lo + k}
<1>0. \A x \in S : x \in Int /\ lo <= x /\ x <= hi
  OBVIOUS
<1>1. \E g : Is(g)
  <2>1. step \in [S -> [Acc -> Acc]] /\ <<>> \in Acc
    BY <1>0, AddCellCells
  <2>2. PICK g \in [SUBSET S -> Acc] : IsFold(g, S, <<>>, step)
    <3> HIDE DEF Acc, step
    <3> QED  BY <2>1, FoldExists
  <2>3. \A T \in SUBSET S : T # {} => Max(T) \in S
    BY MaxInSet
  <2>4. \A T \in SUBSET S : T \ {Max(T)} \in SUBSET S
    OBVIOUS
  <2>5. \A T \in SUBSET S : T # {} =>
           step[Max(T)][g[T \ {Max(T)}]] = AddCell(Max(T), g[T \ {Max(T)}])
    <3> HIDE DEF Acc
    <3> QED  BY <2>3, <2>4
  <2>6. Is(g)
    <3> HIDE DEF Acc, step
    <3> QED  BY <2>2, <2>5 DEF IsFold
  <2> QED  BY <2>6
<1>2. Is(iter)
  <2> HIDE DEF Is
  <2> QED  BY <1>1
<1>3. Runs(S) = iter[S]
  BY DEF Runs, MapThenFoldSet
<1> HIDE DEF iter, step
<1>4. iter[{}] = <<>>
  BY <1>2
<1>5. ASSUME NEW T \in SUBSET S, T # {}
      PROVE  iter[T] = AddCell(Max(T), iter[T \ {Max(T)}])
  BY <1>2, <1>5
<1> HIDE DEF Is
<1> DEFINE Good(k) == /\ iter[Up(k)] \in Seq(Box) /\ Solid(iter[Up(k)])
                      /\ CellsOf(iter[Up(k)]) = Up(k)
           K == {k \in Nat : Good(k)}
<1>6. 0 \in K
  <2>1. Up(0) = {}
    <3>1. \A x \in S : ~(x < lo + 0)
      BY <1>0
    <3> QED  BY <3>1
  <2>2. <<>> \in Seq(Box) /\ Solid(<<>>) /\ CellsOf(<<>>) = {}
    BY DEF Solid, CellsOf
  <2> QED  BY <1>4, <2>1, <2>2
<1>7. ASSUME NEW k \in Nat, k \in K
      PROVE  k + 1 \in K
  <2> DEFINE c == lo + k
             T == Up(k + 1)
  <2>1. c \in Int /\ c + 1 = lo + (k + 1) /\ k + 1 \in Nat /\ Good(k)
    BY <1>7
  <2>2. T = {x \in S : x < c + 1} /\ Up(k) = {x \in S : x < c}
    BY <2>1
  <2> HIDE DEF Up, T, c
  <2>3. CASE c \in S
    <3>1. T \in SUBSET S /\ T # {} /\ Max(T) = c /\ T \ {c} = {x \in S : x < c}
      <4>1. /\ T \in SUBSET S /\ T \in SUBSET (lo .. hi) /\ c \in T
            /\ \A x \in T : x \in Int /\ x < c + 1
        <5>1. T \in SUBSET S
          BY <2>2
        <5>2. c < c + 1
          BY <2>1
        <5>3. \A x \in T : x \in Int /\ x < c + 1 /\ lo <= x /\ x <= hi
          BY <1>0, <2>2
        <5> QED  BY <2>2, <2>3, <5>1, <5>2, <5>3
      <4>2. T \ {c} = {x \in S : x < c}
        <5>1. \A x \in S : (x < c + 1 /\ x # c) <=> x < c
          BY <1>0, <2>1
        <5> QED  BY <2>2, <5>1
      <4>3. Max(T) \in T /\ Max(T) >= c
        BY <4>1, MaxInSet
      <4>4. Max(T) = c
        <5> DEFINE m == Max(T)
        <5>1. m \in Int /\ m < c + 1 /\ m >= c
          BY <4>1, <4>3
        <5> HIDE DEF m
        <5>2. m = c
          BY <2>1, <5>1
        <5> QED  BY <5>2 DEF m
      <4> QED  BY <4>1, <4>2, <4>4
    <3>2. iter[T] = AddCell(c, iter[Up(k)])
      BY <1>5, <2>2, <3>1
    <3>3. T = Up(k) \cup {c}
      BY <2>2, <2>3, <3>1
    <3>4. /\ iter[T] \in Seq(Box) /\ Solid(iter[T])
          /\ CellsOf(iter[T]) = CellsOf(iter[Up(k)]) \cup {c}
      BY <2>1, <3>2, AddCellCells
    <3>5. Good(k + 1)
      BY <2>1, <3>3, <3>4 DEF T
    <3> QED  BY <2>1, <3>5
  <2>4. CASE c \notin S
    <3>1. \A x \in S : x < c + 1 <=> x < c
      BY <1>0, <2>1, <2>4
    <3>2. T = Up(k)
      BY <2>2, <3>1
    <3>3. Good(k + 1)
      BY <2>1, <3>2 DEF T
    <3> QED  BY <2>1, <3>3
  <2> QED  BY <2>3, <2>4
<1>8. PICK k \in Nat : Up(k) = S
  <2>1. CASE hi < lo
    <3>1. \A x \in S : x < lo + 0
      BY <1>0, <2>1
    <3>2. Up(0) = S
      BY <3>1
    <3> HIDE DEF Up, K
    <3> QED  BY <3>2
  <2>2. CASE hi >= lo
    <3>1. hi - lo + 1 \in Nat /\ lo + (hi - lo + 1) = hi + 1
      BY <2>2
    <3>2. \A x \in S : x < lo + (hi - lo + 1)
      BY <1>0, <3>1
    <3>3. Up(hi - lo + 1) = S
      BY <3>2
    <3> HIDE DEF Up, K
    <3> QED  BY <3>1, <3>3
  <2> QED  BY <2>1, <2>2
<1>9. k \in K
  <2> HIDE DEF K, Up
  <2>1. Nat \subseteq K
    BY <1>6, <1>7, NatSetInduction
  <2> QED  BY <2>1
<1>10. Good(k)
  BY <1>9
<1> HIDE DEF Up, K
<1> QED  BY <1>3, <1>8, <1>10

LEMMA SubtractClear ==
  ASSUME NEW r \in Box, NEW bs \in Seq(Box)
  PROVE  Subtract(<<r>>, bs) \in Seq(Clear(CellsOf(bs)))
<1> DEFINE B == CellsOf(bs)
           S == CellsOf(<<r>>) \ B
<1>1. CASE bs = <<>>
  <2>1. B = {}
    BY <1>1 DEF CellsOf
  <2>2. r \in Clear(B)
    BY <2>1 DEF Clear
  <2>3. <<r>> \in Seq(Clear(B))
    BY <2>2
  <2> QED  BY <1>1, <2>3 DEF Subtract
<1>2. CASE bs # <<>>
  <2>1. CellsOf(<<r>>) = Cells(r)
    BY DEF CellsOf
  <2>2. S \in SUBSET (r.x1 .. r.x2 - 1) /\ r.x1 \in Int /\ r.x2 - 1 \in Int
    BY <2>1 DEF Cells, Box
  <2> HIDE DEF S
  <2>3. Runs(S) \in Seq(Box) /\ CellsOf(Runs(S)) = S
    BY <2>2, RunsCells
  <2> DEFINE q == Runs(S)
  <2>4. \A i \in 1 .. Len(q) : q[i] \in Clear(B)
    <3>1. \A i \in 1 .. Len(q) : q[i] \in Box /\ Cells(q[i]) \subseteq CellsOf(q)
      BY <2>3 DEF CellsOf
    <3>2. S \cap B = {}
      BY DEF S
    <3> HIDE DEF q, B
    <3> QED  BY <2>3, <3>1, <3>2 DEF Clear, q
  <2>5. q \in Seq(Clear(B))
    <3> HIDE DEF B
    <3>1. Len(q) \in Nat /\ q = [i \in 1 .. Len(q) |-> q[i]]
      BY <2>3
    <3> HIDE DEF q
    <3> QED  BY <2>4, <3>1
  <2>6. Subtract(<<r>>, bs) = q
    BY <1>2 DEF Subtract, S
  <2> QED  BY <2>5, <2>6
<1> QED  BY <1>1, <1>2

\* What lies on a screen of the columns 0 .. max.
OnScreen(max) == {r \in Box : r.x1 \in 0 .. max /\ r.x2 \in 0 .. max}

LEMMA SubtractEachClear ==
  ASSUME NEW rs \in Seq(Box), NEW bs \in Seq(Box)
  PROVE  SubtractEach(rs, bs) \in Seq(Clear(CellsOf(bs)))
<1> DEFINE T == Clear(CellsOf(bs))
           each == [i \in DOMAIN rs |-> Subtract(<<rs[i]>>, bs)]
<1>1. Len(rs) \in Nat /\ DOMAIN rs = 1 .. Len(rs) /\ \A i \in DOMAIN rs : rs[i] \in Box
  OBVIOUS
<1>2. \A i \in DOMAIN rs : Subtract(<<rs[i]>>, bs) \in Seq(T)
  BY <1>1, SubtractClear
<1> HIDE DEF T
<1>3. each \in Seq(Seq(T))
  BY <1>1, <1>2
<1>4. FlattenSeq(each) \in Seq(T)
  <2> HIDE DEF each
  <2> QED  BY <1>3, FlattenInSeq
<1> QED  BY <1>4 DEF SubtractEach, T

\* Clipping keeps a box clear of what it was clear of.
LEMMA ClipClear ==
  ASSUME NEW B, NEW max \in Nat, NEW rs \in Seq(Clear(B))
  PROVE  ClipRects(rs, max) \in Seq(Clear(B) \cap OnScreen(max))
<1> DEFINE U == Clear(B) \cap OnScreen(max)
           clip(i) == Rect(Clamp(rs[i].x1, max), Clamp(rs[i].x2, max))
<1>1. Len(rs) \in Nat /\ DOMAIN rs = 1 .. Len(rs) /\ \A i \in DOMAIN rs : rs[i] \in Clear(B)
  OBVIOUS
<1>2. ASSUME NEW i \in DOMAIN rs
      PROVE  clip(i) \in U
  <2> DEFINE a == rs[i].x1
             b == rs[i].x2
             c == Clamp(a, max)
             d == Clamp(b, max)
  <2>1. a \in Int /\ b \in Int /\ Cells(rs[i]) \cap B = {}
    BY <1>1 DEF Clear, Box
  <2>2. Cells(rs[i]) = a .. b - 1
    BY DEF Cells
  <2> HIDE DEF a, b
  <2>3. c \in 0 .. max /\ d \in 0 .. max
    BY <2>1 DEF Clamp
  <2>4. c .. d - 1 \subseteq a .. b - 1
    BY <2>1 DEF Clamp
  <2> HIDE DEF c, d
  <2>5. clip(i) = Rect(c, d)
    BY DEF a, b, c, d
  <2>6. Rect(c, d) \in Box /\ Rect(c, d).x1 = c /\ Rect(c, d).x2 = d
    BY <2>3 DEF Rect, Box
  <2>7. Cells(Rect(c, d)) = c .. d - 1
    BY <2>6 DEF Cells
  <2> HIDE DEF clip
  <2> QED  BY <2>1, <2>2, <2>3, <2>4, <2>5, <2>6, <2>7 DEF Clear, OnScreen
<1>3. ClipRects(rs, max) = [i \in DOMAIN rs |-> clip(i)]
  BY DEF ClipRects
<1> HIDE DEF clip, U
<1>4. ClipRects(rs, max) \in Seq(U)
  BY <1>1, <1>2, <1>3
<1> QED  BY <1>4 DEF U

----------------------------------------------------------------------------
(* Visible regions. *)

Region == Seq(OnScreen(ScreenWidth - 1))
Progress == [blocking : Seq(Box), alloc : [Window -> Region]]
Nothing == [blocking |-> <<>>, alloc |-> [w \in Window |-> <<>>]]

\* What one window gets.
Share(geo, acc, w) ==
  ClipRects(SubtractEach(geo[w], acc.blocking), ScreenWidth - 1)

LEMMA ShareType ==
  ASSUME NEW geo \in [Window -> Seq(Box)], NEW acc \in Progress, NEW w \in Window
  PROVE  /\ Share(geo, acc, w) \in Seq(Box) /\ Share(geo, acc, w) \in Region
         /\ CellsOf(Share(geo, acc, w)) \cap CellsOf(acc.blocking) = {}
<1> DEFINE B == CellsOf(acc.blocking)
           new == Share(geo, acc, w)
           max == ScreenWidth - 1
<1>1. geo[w] \in Seq(Box) /\ acc.blocking \in Seq(Box)
  BY DEF Progress
<1>2. max \in Nat
  BY EnvironmentAssumption
<1>3. SubtractEach(geo[w], acc.blocking) \in Seq(Clear(B))
  BY <1>1, SubtractEachClear
<1> HIDE DEF B, max
<1>4. new \in Seq(Clear(B) \cap OnScreen(max))
  BY <1>2, <1>3, ClipClear DEF Share, max
<1> HIDE DEF new
<1>5. /\ Clear(B) \cap OnScreen(max) \subseteq Clear(B)
      /\ Clear(B) \cap OnScreen(max) \subseteq OnScreen(max)
  OBVIOUS
<1>6. new \in Seq(Clear(B)) /\ new \in Seq(OnScreen(max))
  BY <1>4, <1>5, SeqMonotonic
<1>7. new \in Seq(Box) /\ CellsOf(new) \cap B = {}
  BY <1>6, ClearCells
<1> QED  BY <1>6, <1>7 DEF new, B, max, Region

LEMMA AllocateType ==
  ASSUME NEW geo \in [Window -> Seq(Box)], NEW opq, NEW acc \in Progress,
         NEW w \in Window
  PROVE  Allocate(geo, opq, acc, w) \in Progress
<1> DEFINE new == Share(geo, acc, w)
<1>1. new \in Seq(Box) /\ new \in Region
  BY ShareType
<1>2. Allocate(geo, opq, acc, w) =
        [blocking |-> IF opq[w] THEN acc.blocking \o new ELSE acc.blocking,
         alloc    |-> [acc.alloc EXCEPT ![w] = new]]
  BY DEF Allocate, Share
<1> HIDE DEF new
<1>3. acc.blocking \in Seq(Box) /\ acc.alloc \in [Window -> Region]
  BY DEF Progress
<1>4. acc.blocking \o new \in Seq(Box)
  BY <1>1, <1>3, ConcatProperties
<1>5. [acc.alloc EXCEPT ![w] = new] \in [Window -> Region]
  BY <1>1, <1>3
<1> QED  BY <1>2, <1>3, <1>4, <1>5 DEF Progress

\* Allocations, one window at a time.
Allocating(f, stk, geo, opq) ==
  /\ f \in [0 .. Len(stk) -> Progress]
  /\ f[0] = Nothing
  /\ \A k \in 1 .. Len(stk) : f[k] = Allocate(geo, opq, f[k - 1], stk[k])

LEMMA AllocationsFold ==
  ASSUME NEW stk \in Seq(Window), NEW geo \in [Window -> Seq(Box)], NEW opq
  PROVE  \E f : /\ Allocating(f, stk, geo, opq)
               /\ Allocations(stk, geo, opq) = f[Len(stk)].alloc
<1> DEFINE n == Len(stk)
<1>0. n \in Nat /\ stk \in [1 .. n -> Window]
  OBVIOUS
<1> HIDE DEF n
<1> DEFINE D == 1 .. n
           op(acc, w) == Allocate(geo, opq, acc, w)
           step == [i \in D |-> [acc \in Progress |-> op(acc, stk[i])]]
           Is(g) == g = [T \in SUBSET D |->
                           IF T = {} THEN Nothing ELSE op(g[T \ {Max(T)}], stk[Max(T)])]
           iter == CHOOSE g : Is(g)
<1>1. Nothing \in Progress
  <2>1. <<>> \in Region /\ <<>> \in Seq(Box)
    BY DEF Region
  <2> QED  BY <2>1 DEF Nothing, Progress
<1>2. \A acc \in Progress, w \in Window : op(acc, w) \in Progress
  BY AllocateType
<1> HIDE DEF op
<1>3. \E g : Is(g)
  <2>1. /\ D \in SUBSET (1 .. n) /\ 1 \in Int /\ n \in Int
        /\ step \in [D -> [Progress -> Progress]]
    BY <1>0, <1>2
  <2>2. PICK g \in [SUBSET D -> Progress] : IsFold(g, D, Nothing, step)
    <3> HIDE DEF D, step
    <3> QED  BY <1>1, <2>1, FoldExists
  <2>3. \A T \in SUBSET D : T # {} => Max(T) \in D
    <3> HIDE DEF D
    <3> QED  BY <2>1, MaxInSet
  <2>4. \A T \in SUBSET D : T \ {Max(T)} \in SUBSET D
    OBVIOUS
  <2>5. \A T \in SUBSET D : T # {} =>
           step[Max(T)][g[T \ {Max(T)}]] = op(g[T \ {Max(T)}], stk[Max(T)])
    <3> HIDE DEF D
    <3> QED  BY <2>3, <2>4
  <2>6. Is(g)
    <3> HIDE DEF D, step
    <3> QED  BY <2>2, <2>5 DEF IsFold
  <2> QED  BY <2>6
<1>4. Is(iter)
  <2> HIDE DEF Is
  <2> QED  BY <1>3
<1>5. Allocations(stk, geo, opq) = iter[D].alloc
  <2>1. DOMAIN stk = D
    BY <1>0
  <2> QED  BY <2>1 DEF Allocations, FoldLeft, MapThenFoldSet, Nothing, op
<1> DEFINE f == [k \in 0 .. n |-> iter[1 .. k]]
<1>6. f[0] = Nothing
  <2>1. 1 .. 0 = {} /\ {} \in SUBSET D /\ 0 \in 0 .. n
    BY <1>0
  <2>2. iter[{}] = Nothing
    <3> HIDE DEF D, iter
    <3> QED  BY <1>4, <2>1
  <2> HIDE DEF iter
  <2> QED  BY <2>1, <2>2
<1>7. ASSUME NEW k \in 1 .. n
      PROVE  f[k] = op(f[k - 1], stk[k])
  <2>1. /\ 1 .. k \in SUBSET D /\ 1 .. k # {} /\ Max(1 .. k) = k
        /\ (1 .. k) \ {k} = 1 .. k - 1
    BY <1>0, MaxOfInterval
  <2>2. iter[1 .. k] = op(iter[1 .. k - 1], stk[k])
    <3> HIDE DEF D, iter
    <3> QED  BY <1>4, <2>1
  <2>3. k \in 0 .. n /\ k - 1 \in 0 .. n
    BY <1>0
  <2> HIDE DEF iter
  <2> QED  BY <2>2, <2>3
<1>8. Allocations(stk, geo, opq) = f[n].alloc
  <2> HIDE DEF iter
  <2> QED  BY <1>0, <1>5
<1> HIDE DEF f, iter, step, Is, D
<1>9. \A k \in 0 .. n : f[k] \in Progress
  <2> DEFINE K == {k \in Nat : k <= n => f[k] \in Progress}
  <2>1. 0 \in K
    BY <1>1, <1>6
  <2>2. ASSUME NEW k \in Nat, k \in K
        PROVE  k + 1 \in K
    <3>1. CASE k + 1 <= n
      <4>1. k + 1 \in 1 .. n /\ k + 1 - 1 = k /\ f[k] \in Progress /\ stk[k + 1] \in Window
        BY <1>0, <2>2, <3>1
      <4>2. f[k + 1] = op(f[k], stk[k + 1])
        BY <1>7, <4>1
      <4> QED  BY <1>2, <4>1, <4>2
    <3>2. CASE ~(k + 1 <= n)
      BY <3>2
    <3> QED  BY <3>1, <3>2
  <2>3. Nat \subseteq K
    <3> HIDE DEF K
    <3> QED  BY <2>1, <2>2, NatSetInduction
  <2> QED  BY <2>3
<1>10. f \in [0 .. n -> Progress]
  BY <1>9 DEF f
<1> QED  BY <1>6, <1>7, <1>8, <1>10 DEF op, Allocating, n

LEMMA CellsOfConcat ==
  ASSUME NEW a \in Seq(Box), NEW b \in Seq(Box)
  PROVE  CellsOf(a \o b) = CellsOf(a) \cup CellsOf(b)
<1> DEFINE r == a \o b
           n == Len(a)
           m == Len(b)
<1>1. n \in Nat /\ m \in Nat /\ DOMAIN a = 1 .. n /\ DOMAIN b = 1 .. m
  OBVIOUS
<1>2. /\ r \in Seq(Box) /\ Len(r) = n + m
      /\ \A i \in 1 .. n + m : r[i] = IF i <= n THEN a[i] ELSE b[i - n]
  BY ConcatProperties
<1> HIDE DEF r, n, m
<1>3. DOMAIN r = 1 .. n + m
  BY <1>1, <1>2
<1>4. ASSUME NEW x \in CellsOf(r)
      PROVE  x \in CellsOf(a) \cup CellsOf(b)
  <2>1. PICK i \in 1 .. n + m : x \in Cells(r[i])
    BY <1>3 DEF CellsOf
  <2>2. CASE i <= n
    BY <1>1, <1>2, <2>1, <2>2 DEF CellsOf
  <2>3. CASE ~(i <= n)
    <3>1. i - n \in 1 .. m /\ r[i] = b[i - n]
      BY <1>1, <1>2, <2>3
    <3> QED  BY <1>1, <2>1, <3>1 DEF CellsOf
  <2> QED  BY <2>2, <2>3
<1>5. ASSUME NEW x \in CellsOf(a)
      PROVE  x \in CellsOf(r)
  <2>1. PICK i \in 1 .. n : x \in Cells(a[i])
    BY <1>1 DEF CellsOf
  <2>2. i \in 1 .. n + m /\ r[i] = a[i]
    BY <1>1, <1>2
  <2> QED  BY <1>3, <2>1, <2>2 DEF CellsOf
<1>6. ASSUME NEW x \in CellsOf(b)
      PROVE  x \in CellsOf(r)
  <2>1. PICK i \in 1 .. m : x \in Cells(b[i])
    BY <1>1 DEF CellsOf
  <2> DEFINE at == i + n
  <2>2. at \in 1 .. n + m /\ ~(at <= n) /\ at - n = i
    BY <1>1
  <2> HIDE DEF at
  <2>3. r[at] = b[at - n]
    BY <1>2, <2>2
  <2>4. r[at] = b[i]
    BY <2>2, <2>3
  <2> QED  BY <1>3, <2>1, <2>2, <2>4 DEF CellsOf
<1> QED  BY <1>4, <1>5, <1>6 DEF r

\* What the regions of the windows of stk are to each other.
Allocated(alloc, stk, opq, k) ==
  /\ \A i, j \in 1 .. k : (i < j /\ opq[stk[i]]) =>
       CellsOf(alloc[stk[i]]) \cap CellsOf(alloc[stk[j]]) = {}
  /\ \A w \in Window : (\A i \in 1 .. k : stk[i] # w) => alloc[w] = <<>>

Blocks(acc, stk, opq, k) ==
  \A i \in 1 .. k : opq[stk[i]] => CellsOf(acc.alloc[stk[i]]) \subseteq CellsOf(acc.blocking)

LEMMA AllocateStep ==
  ASSUME NEW geo \in [Window -> Seq(Box)], NEW opq, NEW acc \in Progress,
         NEW k \in Nat, NEW stk, \A i \in 1 .. k + 1 : stk[i] \in Window,
         \A i \in 1 .. k : stk[i] # stk[k + 1],
         Allocated(acc.alloc, stk, opq, k), Blocks(acc, stk, opq, k),
         NEW next, next = Allocate(geo, opq, acc, stk[k + 1])
  PROVE  Allocated(next.alloc, stk, opq, k + 1) /\ Blocks(next, stk, opq, k + 1)
<1> DEFINE m == k + 1
           w == stk[m]
<1>1. /\ m \in 1 .. m /\ w \in Window /\ 1 .. k \subseteq 1 .. m
      /\ \A i \in 1 .. m : i \in 1 .. k \/ i = m
      /\ \A i \in 1 .. k : i < m /\ stk[i] # w /\ stk[i] \in Window
  OBVIOUS
<1>0. next = Allocate(geo, opq, acc, w)
  OBVIOUS
<1> HIDE DEF w
<1> DEFINE new == Share(geo, acc, w)
<1>2. /\ new \in Seq(Box)
      /\ CellsOf(new) \cap CellsOf(acc.blocking) = {}
  BY <1>1, ShareType
<1>3. /\ next.alloc = [acc.alloc EXCEPT ![w] = new]
      /\ next.blocking = IF opq[w] THEN acc.blocking \o new ELSE acc.blocking
  <2>1. next = [blocking |-> IF opq[w] THEN acc.blocking \o new ELSE acc.blocking,
                alloc    |-> [acc.alloc EXCEPT ![w] = new]]
    BY <1>0 DEF Allocate, Share
  <2> QED  BY ONLY <2>1
<1> HIDE DEF new
<1>4. /\ next.alloc[w] = new
      /\ \A x \in Window : x # w => next.alloc[x] = acc.alloc[x]
  BY <1>1, <1>3 DEF Progress
<1>5. /\ CellsOf(acc.blocking) \subseteq CellsOf(next.blocking)
      /\ opq[w] => CellsOf(new) \subseteq CellsOf(next.blocking)
  <2>1. acc.blocking \in Seq(Box)
    BY DEF Progress
  <2>2. CellsOf(acc.blocking \o new) = CellsOf(acc.blocking) \cup CellsOf(new)
    BY <1>2, <2>1, CellsOfConcat
  <2> QED  BY <1>3, <2>2
<1> HIDE DEF m
<1>6. \A i \in 1 .. k : next.alloc[stk[i]] = acc.alloc[stk[i]]
  BY <1>1, <1>4
<1>7. Blocks(next, stk, opq, m)
  <2>1. ASSUME NEW i \in 1 .. m, opq[stk[i]]
        PROVE  CellsOf(next.alloc[stk[i]]) \subseteq CellsOf(next.blocking)
    <3>1. CASE i = m
      BY <1>4, <1>5, <2>1, <3>1 DEF w
    <3>2. CASE i \in 1 .. k
      BY <1>5, <1>6, <2>1, <3>2 DEF Blocks
    <3> QED  BY <1>1, <3>1, <3>2
  <2> QED  BY <2>1 DEF Blocks
<1>8. ASSUME NEW i \in 1 .. m, NEW j \in 1 .. m, i < j, opq[stk[i]]
      PROVE  CellsOf(next.alloc[stk[i]]) \cap CellsOf(next.alloc[stk[j]]) = {}
  <2>1. i \in 1 .. k
    <3>1. m \in Nat
      BY DEF m
    <3> QED  BY <1>1, <1>8, <3>1
  <2>2. CASE j \in 1 .. k
    BY <1>6, <1>8, <2>1, <2>2 DEF Allocated
  <2>3. CASE j = m
    <3>1. CellsOf(acc.alloc[stk[i]]) \subseteq CellsOf(acc.blocking)
      BY <1>8, <2>1 DEF Blocks
    <3>2. next.alloc[stk[j]] = new
      BY <1>4, <2>3 DEF w
    <3> QED  BY <1>2, <1>6, <2>1, <3>1, <3>2
  <2> QED  BY <1>1, <2>2, <2>3
<1>9. ASSUME NEW x \in Window, \A i \in 1 .. m : stk[i] # x
      PROVE  next.alloc[x] = <<>>
  <2>1. x # w /\ \A i \in 1 .. k : stk[i] # x
    BY <1>1, <1>9 DEF w
  <2> QED  BY <1>4, <2>1 DEF Allocated
<1>10. Allocated(next.alloc, stk, opq, m)
  BY <1>8, <1>9 DEF Allocated
<1> QED  BY <1>7, <1>10 DEF m

LEMMA AllocatingKeeps ==
  ASSUME NEW S, NEW stk, Lists(stk, S), S \subseteq Window,
         NEW geo \in [Window -> Seq(Box)], NEW opq, NEW f, Allocating(f, stk, geo, opq),
         NEW at \in 0 .. Len(stk)
  PROVE  f[at] \in Progress /\ Allocated(f[at].alloc, stk, opq, at)
<1> DEFINE n == Len(stk)
<1>1. stk \in Seq(Window) /\ n \in Nat /\ \A i \in 1 .. n : stk[i] \in Window
  BY SeqMonotonic DEF Lists
<1>2. \A i, j \in 1 .. n : i # j => stk[i] # stk[j]
  BY DEF Lists
<1>3. at \in 0 .. n
  OBVIOUS
<1> HIDE DEF n
<1>4. /\ \A k \in 0 .. n : f[k] \in Progress
      /\ f[0] = Nothing
      /\ \A k \in 1 .. n : f[k] = Allocate(geo, opq, f[k - 1], stk[k])
  BY DEF Allocating, n
<1> DEFINE Good(k) == Allocated(f[k].alloc, stk, opq, k) /\ Blocks(f[k], stk, opq, k)
           K == {k \in Nat : k <= n => Good(k)}
<1>5. 0 \in K
  <2>1. \A i \in 1 .. 0 : FALSE
    OBVIOUS
  <2>2. \A w \in Window : Nothing.alloc[w] = <<>>
    BY DEF Nothing
  <2>3. Good(0)
    BY <1>4, <2>1, <2>2 DEF Allocated, Blocks
  <2> HIDE DEF Good
  <2> QED  BY <2>3
<1>6. ASSUME NEW k \in Nat, k \in K
      PROVE  k + 1 \in K
  <2>1. CASE k + 1 <= n
    <3>1. Good(k)
      <4> HIDE DEF Good
      <4> QED  BY <1>1, <1>6, <2>1
    <3>2. /\ k \in 0 .. n /\ k + 1 \in 1 .. n /\ k + 1 - 1 = k
          /\ 1 .. k + 1 \subseteq 1 .. n
          /\ \A i \in 1 .. k : i \in 1 .. n /\ i # k + 1
      BY <1>1, <2>1
    <3>3. /\ f[k] \in Progress /\ f[k + 1] = Allocate(geo, opq, f[k], stk[k + 1])
      BY <1>4, <3>2
    <3>4. /\ \A i \in 1 .. k + 1 : stk[i] \in Window
          /\ \A i \in 1 .. k : stk[i] # stk[k + 1]
      BY <1>1, <1>2, <3>2
    <3> HIDE DEF K
    <3>5. Good(k + 1)
      BY <3>1, <3>3, <3>4, AllocateStep
    <3> HIDE DEF Good
    <3> QED  BY <3>5 DEF K
  <2>2. CASE ~(k + 1 <= n)
    <3> HIDE DEF Good
    <3> QED  BY <2>2
  <2> QED  BY <2>1, <2>2
<1>7. at \in K
  <2> HIDE DEF K
  <2>1. Nat \subseteq K
    BY <1>5, <1>6, NatSetInduction
  <2> QED  BY <1>1, <1>3, <2>1
<1>8. Good(at)
  <2> HIDE DEF Good
  <2> QED  BY <1>3, <1>7
<1> QED  BY <1>3, <1>4, <1>8

\* An opaque window shares no cell with a window below it, and what is not on
\* the stack gets nothing.
LEMMA AllocationsCorrect ==
  ASSUME NEW S, NEW stk, Lists(stk, S), S \subseteq Window,
         NEW geo \in [Window -> Seq(Box)], NEW opq
  PROVE  /\ Allocations(stk, geo, opq) \in [Window -> Region]
         /\ Allocated(Allocations(stk, geo, opq), stk, opq, Len(stk))
<1> DEFINE n == Len(stk)
<1>1. stk \in Seq(Window) /\ n \in 0 .. Len(stk)
  BY SeqMonotonic DEF Lists
<1>2. PICK f : Allocating(f, stk, geo, opq) /\ Allocations(stk, geo, opq) = f[n].alloc
  BY <1>1, AllocationsFold
<1>3. f[n] \in Progress /\ Allocated(f[n].alloc, stk, opq, n)
  BY <1>1, <1>2, AllocatingKeeps
<1> QED  BY <1>2, <1>3 DEF Progress

\* A window without rectangles that is not on the stack yet changes nothing.
LEMMA AllocateNothing ==
  ASSUME NEW geo \in [Window -> Seq(Box)], NEW opq, NEW acc \in Progress,
         NEW w \in Window, geo[w] = <<>>, acc.alloc[w] = <<>>
  PROVE  Allocate(geo, opq, acc, w) = acc
<1> DEFINE pieces == [i \in DOMAIN geo[w] |-> Subtract(<<geo[w][i]>>, acc.blocking)]
           new == Share(geo, acc, w)
<1>1. /\ acc = [blocking |-> acc.blocking, alloc |-> acc.alloc]
      /\ acc.blocking \in Seq(Box) /\ acc.alloc \in [Window -> Region]
  BY DEF Progress
<1>2. pieces = <<>> /\ pieces \in Seq(Seq({}))
  OBVIOUS
<1>3. FlattenSeq(pieces) = <<>>
  <2> HIDE DEF pieces
  <2>1. FlattenSeq(pieces) \in Seq({})
    BY <1>2, FlattenInSeq
  <2> QED  BY ONLY <2>1
<1>4. new = <<>>
  <2>1. SubtractEach(geo[w], acc.blocking) = <<>>
    BY <1>3 DEF SubtractEach
  <2> QED  BY <2>1 DEF Share, ClipRects
<1>5. Allocate(geo, opq, acc, w) =
        [blocking |-> IF opq[w] THEN acc.blocking \o new ELSE acc.blocking,
         alloc    |-> [acc.alloc EXCEPT ![w] = new]]
  BY DEF Allocate, Share
<1> HIDE DEF new
<1>6. acc.blocking \o new = acc.blocking
  BY <1>1, <1>4
<1>7. [acc.alloc EXCEPT ![w] = new] = acc.alloc
  BY <1>1, <1>4
<1> QED  BY <1>1, <1>5, <1>6, <1>7

LEMMA AllocationsInsert ==
  ASSUME NEW S, NEW stk, Lists(stk, S), S \subseteq Window,
         NEW w \in Window, w \notin S, NEW at \in 1 .. Len(stk) + 1,
         NEW geo \in [Window -> Seq(Box)], geo[w] = <<>>, NEW opq
  PROVE  Allocations(InsertAt(stk, at, w), geo, opq) = Allocations(stk, geo, opq)
<1> DEFINE n == Len(stk)
           r == InsertAt(stk, at, w)
<1>1. /\ stk \in Seq(Window) /\ n \in Nat /\ at \in 1 .. n + 1
      /\ \A i \in 1 .. n : stk[i] \in Window /\ stk[i] # w
  BY SeqMonotonic DEF Lists
<1>2. Lists(r, S \cup {w}) /\ S \cup {w} \subseteq Window
  BY InsertAtLists
<1>3. r \in Seq(Window)
  BY <1>2, SeqMonotonic DEF Lists
<1>4. IsInsert(r, stk, at, w)
  BY <1>1, InsertAtPlaces
<1> HIDE DEF r
<1>5. PICK f : Allocating(f, stk, geo, opq) /\ Allocations(stk, geo, opq) = f[n].alloc
  BY <1>1, AllocationsFold
<1>6. PICK g : Allocating(g, r, geo, opq) /\ Allocations(r, geo, opq) = g[Len(r)].alloc
  BY <1>3, AllocationsFold
<1>7. \A k \in 0 .. n : f[k] \in Progress /\ Allocated(f[k].alloc, stk, opq, k)
  BY <1>5, AllocatingKeeps
<1> HIDE DEF n
<1>8. /\ f[0] = Nothing
      /\ \A k \in 1 .. n : f[k] = Allocate(geo, opq, f[k - 1], stk[k])
  BY <1>5 DEF Allocating, n
<1>9. Len(r) = n + 1 /\ \A i \in 1 .. n + 1 :
        r[i] = IF i < at THEN stk[i] ELSE IF i = at THEN w ELSE stk[i - 1]
  BY <1>4 DEF IsInsert, n
<1>10. /\ g[0] = Nothing
       /\ \A k \in 1 .. n + 1 : g[k] = Allocate(geo, opq, g[k - 1], r[k])
  BY <1>6, <1>9 DEF Allocating
<1> DEFINE Same(k) == g[k] = f[IF k < at THEN k ELSE k - 1]
           K == {k \in Nat : k <= n + 1 => Same(k)}
<1>11. 0 \in K
  BY <1>1, <1>8, <1>10
<1>12. ASSUME NEW k \in Nat, k \in K
       PROVE  k + 1 \in K
  <2> DEFINE m == k + 1
  <2>0. m \in Nat /\ m - 1 = k
    OBVIOUS
  <2>1. CASE m <= n + 1
    <3>0. k <= n + 1 /\ m \in 1 .. n + 1
      BY <1>1, <2>0, <2>1
    <3>1. g[k] = f[IF k < at THEN k ELSE k - 1]
      BY <1>12, <3>0
    <3> HIDE DEF m, K
    <3>2. g[m] = Allocate(geo, opq, g[k], r[m])
      BY <1>10, <2>0, <3>0
    <3>3. CASE m < at
      <4>1. g[k] = f[k] /\ r[m] = stk[m] /\ m \in 1 .. n
        BY <1>1, <1>9, <2>0, <3>0, <3>1, <3>3
      <4>2. f[m] = Allocate(geo, opq, f[k], stk[m])
        BY <1>8, <2>0, <4>1
      <4>3. g[m] = f[m]
        BY ONLY <3>2, <4>1, <4>2
      <4> QED  BY <2>0, <3>3, <4>3 DEF K, m
    <3>4. CASE m = at
      <4>1. g[k] = f[k] /\ r[m] = w /\ k \in 0 .. n /\ ~(m < at)
        BY <1>1, <1>9, <2>0, <3>0, <3>1, <3>4
      <4>2. f[k] \in Progress /\ f[k].alloc[w] = <<>>
        <5>1. \A i \in 1 .. k : stk[i] # w
          BY <1>1, <4>1
        <5> QED  BY <1>7, <4>1, <5>1 DEF Allocated
      <4>3. Allocate(geo, opq, f[k], w) = f[k]
        BY <4>2, AllocateNothing
      <4>4. g[m] = f[k]
        BY ONLY <3>2, <4>1, <4>3
      <4> QED  BY <2>0, <4>1, <4>4 DEF K
    <3>5. CASE at < m
      <4>1. g[k] = f[k - 1] /\ r[m] = stk[k] /\ k \in 1 .. n /\ ~(m < at)
        BY <1>1, <1>9, <2>0, <3>0, <3>1, <3>5
      <4>2. f[k] = Allocate(geo, opq, f[k - 1], stk[k])
        BY <1>8, <4>1
      <4>3. g[m] = f[k]
        BY ONLY <3>2, <4>1, <4>2
      <4> QED  BY <2>0, <4>1, <4>3 DEF K
    <3>6. m < at \/ m = at \/ at < m
      BY <1>1, <2>0
    <3> QED  BY ONLY <3>3, <3>4, <3>5, <3>6
  <2>2. CASE ~(m <= n + 1)
    <3> HIDE DEF Same
    <3> QED  BY <2>2
  <2> QED  BY <2>1, <2>2
<1>13. n + 1 \in K
  <2> HIDE DEF K
  <2>1. Nat \subseteq K
    BY <1>11, <1>12, NatSetInduction
  <2> QED  BY <1>1, <2>1
<1>14. g[n + 1] = f[n]
  BY <1>1, <1>13
<1> QED  BY <1>5, <1>6, <1>9, <1>14 DEF r

USE WindowAssumption, EnvironmentAssumption

----------------------------------------------------------------------------
(* The stack. *)

StackInv == windows \subseteq Window /\ Lists(stack, windows)

LEMMA BoundaryInRange ==
  ASSUME NEW stk, NEW top, Len(stk) \in Nat
  PROVE  Boundary(stk, top) \in 1 .. Len(stk) + 1
<1> DEFINE I == {i \in 1 .. Len(stk) : ~top[stk[i]]}
<1>1. SelectInSeq(stk, LAMBDA w : ~top[w]) = IF I # {} THEN Min(I) ELSE 0
  BY DEF SelectInSeq
<1>2. I # {} => Min(I) \in I
  BY MinInSet
<1> QED  BY <1>1, <1>2 DEF Boundary

LEMMA PushLists ==
  ASSUME NEW stk, NEW S, NEW top, NEW w, Lists(stk, S), w \notin S
  PROVE  Lists(PushToStack(stk, top, w), S \cup {w})
<1>1. Len(stk) \in Nat
  BY DEF Lists
<1>2. Boundary(stk, top) \in 1 .. Len(stk) + 1
  BY <1>1, BoundaryInRange
<1> QED  BY <1>2, InsertAtLists DEF PushToStack

LEMMA RaiseLists ==
  ASSUME NEW stk, NEW S, NEW top, NEW w, Lists(stk, S)
  PROVE  Lists(RaiseWindow(stk, top, w), S \cup {w})
<1> DEFINE rest == RemoveFirst(stk, w)
<1>1. Lists(rest, S \ {w})
  BY RemoveFirstLists
<1>2. (S \ {w}) \cup {w} = S \cup {w} /\ w \notin S \ {w}
  OBVIOUS
<1> HIDE DEF rest
<1>3. CASE top[w]
  <2>1. Lists(<<w>> \o rest, (S \ {w}) \cup {w})
    BY <1>1, <1>2, ConsLists
  <2> QED  BY <1>2, <1>3, <2>1 DEF RaiseWindow, rest
<1>4. CASE ~top[w]
  <2>1. Lists(PushToStack(rest, top, w), (S \ {w}) \cup {w})
    BY <1>1, <1>2, PushLists
  <2> QED  BY <1>2, <1>4, <2>1 DEF RaiseWindow, rest
<1> QED  BY <1>3, <1>4

LEMMA LowerLists ==
  ASSUME NEW stk, NEW S, NEW w, Lists(stk, S)
  PROVE  Lists(LowerWindow(stk, w), S \cup {w})
<1>1. Lists(RemoveFirst(stk, w), S \ {w})
  BY RemoveFirstLists
<1>2. (S \ {w}) \cup {w} = S \cup {w} /\ w \notin S \ {w}
  OBVIOUS
<1>3. Lists(LowerWindow(stk, w), (S \ {w}) \cup {w})
  BY <1>1, <1>2, AppendLists DEF LowerWindow
<1> QED  BY <1>2, <1>3

LEMMA FoundLists ==
  ASSUME StackInv, NEW w \in Window
  PROVE  Lists(FoundStack(w), windows \cup {w})
<1>1. CASE w \in windows
  <2>1. windows \cup {w} = windows
    BY <1>1
  <2> QED  BY <1>1, <2>1 DEF FoundStack, StackInv
<1>2. CASE w \notin windows
  BY <1>2, PushLists DEF FoundStack, StackInv
<1> QED  BY <1>1, <1>2

LEMMA FindOrAllocateStep ==
  ASSUME StackInv, NEW w \in Window, FindOrAllocate(w)
  PROVE  StackInv'
<1>1. Lists(FoundStack(w), windows \cup {w})
  BY FoundLists
<1> QED  BY <1>1 DEF FindOrAllocate, StackInv

LEMMA DiesStep ==
  ASSUME StackInv, NEW how, Dies(how)
  PROVE  StackInv'
BY DEF Dies, StackInv

LEMMA StackStep ==
  ASSUME StackInv, Next
  PROVE  StackInv'
<1>1. ASSUME NEW w \in Window, NEW rs \in Placement, NEW format \in Format,
             RegionShm(w, rs, format)
      PROVE  StackInv'
  BY <1>1, FindOrAllocateStep, DiesStep DEF RegionShm, UpdateGeometry, DiesIf
<1>2. ASSUME NEW w \in Window, NEW rs \in Placement, RegionOther(w, rs)
      PROVE  StackInv'
  BY <1>2, FindOrAllocateStep, DiesStep DEF RegionOther, UpdateGeometry, DiesIf
<1>3. ASSUME NEW w \in Window, HideWindow(w)
      PROVE  StackInv'
  BY <1>3, FindOrAllocateStep, DiesStep DEF HideWindow, DiesIf
<1>4. ASSUME NEW w \in Window, NEW isToplevel \in BOOLEAN,
             NEW hasRects \in BOOLEAN, RepaintRegion(w, isToplevel, hasRects)
      PROVE  StackInv'
  BY <1>4, FindOrAllocateStep, DiesStep DEF RepaintRegion, DiesIf
<1>5. ASSUME NEW w \in Window, NEW dx \in Step, RegionMove(w, dx)
      PROVE  StackInv'
  BY <1>5, FindOrAllocateStep, DiesStep
  DEF RegionMove, UpdateGeometry, DiesIf, OnlyFound
<1>6. ASSUME NEW w \in Window, RegionDestroy(w)
      PROVE  StackInv'
  <2>1. /\ windows' = windows \ {w}
        /\ stack' = RemoveFirst(FoundStack(w), w)
    BY <1>6 DEF RegionDestroy
  <2>2. Lists(RemoveFirst(FoundStack(w), w), (windows \cup {w}) \ {w})
    BY FoundLists, RemoveFirstLists
  <2>3. (windows \cup {w}) \ {w} = windows \ {w}
    OBVIOUS
  <2> QED  BY <2>1, <2>2, <2>3 DEF StackInv
<1>7. ASSUME NEW w \in Window, NEW altitude \in Altitude,
             NEW fixed \in BOOLEAN, ChangeAltitude(w, altitude, fixed)
      PROVE  StackInv'
  <2> DEFINE top == [onTop EXCEPT ![w] = @ \/ (fixed /\ altitude = "stays_on_top")]
             S == windows \cup {w}
  <2>1. /\ Lists(LowerWindow(FoundStack(w), w), S \cup {w})
        /\ Lists(RaiseWindow(FoundStack(w), top, w), S \cup {w})
    <3>1. Lists(FoundStack(w), S)
      BY FoundLists
    <3> HIDE DEF top, S
    <3> QED  BY <3>1, LowerLists, RaiseLists
  <2>2. S \cup {w} = S
    OBVIOUS
  <2>3. \/ StackInv'
        \/ windows' = S /\ stack' \in {LowerWindow(FoundStack(w), w),
                                       RaiseWindow(FoundStack(w), top, w)}
    BY <1>7, DiesStep DEF ChangeAltitude, DiesIf
  <2> HIDE DEF top
  <2> QED  BY <2>1, <2>2, <2>3 DEF StackInv
<1>8. ASSUME NEW w \in Window, NEW isOpaque \in BOOLEAN, SetOpacity(w, isOpaque)
      PROVE  StackInv'
  BY <1>8, FindOrAllocateStep, DiesStep DEF SetOpacity
<1>9. ASSUME NEW w \in Window, LookUpOnly(w)
      PROVE  StackInv'
  BY <1>9, FindOrAllocateStep DEF LookUpOnly, OnlyFound
<1> QED
  BY <1>1, <1>2, <1>3, <1>4, <1>5, <1>6, <1>7, <1>8, <1>9 DEF Next

LEMMA StackInvariance == Spec => []StackInv
<1>1. Init => StackInv
  BY DEF Init, StackInv, Lists
<1>2. StackInv /\ [Next]_vars => StackInv'
  BY StackStep DEF vars, StackInv
<1> QED  BY <1>1, <1>2, PTL DEF Spec

\* The stack lists the windows of the map, each of them once, whatever the
\* client sends (client.c:116-218).
THEOREM StackCorrect == Spec => []StackIsMap
<1>1. StackInv => StackIsMap
  BY DEF StackInv, StackIsMap, Lists
<1> QED  BY <1>1, StackInvariance, PTL

----------------------------------------------------------------------------
(* Polite clients. *)

BookType ==
  /\ role \in [Window -> Role]
  /\ parent \in [Window -> Window \cup {NoWindow, Freed}]
  /\ geometry \in [Window -> Placement \cup {<<>>}]
  /\ opaque \in [Window -> BOOLEAN]
  /\ modifier \in [Window -> BOOLEAN]
  /\ shm \in [Window -> Format \cup {"never", "detached"}]
  /\ polite \in BOOLEAN

\* What a polite client's windows are like: a window with a region has its
\* segment attached, so that moving it can resize the buffer, and a segment
\* that is premultiplied is never drawn through an alpha modifier.
Sound ==
  /\ fault = "none"
  /\ \A w \in Window :
       /\ (role[w] = "subsurface") <=> (parent[w] # NoWindow)
       /\ parent[w] # NoWindow => /\ parent[w] \in windows
                                 /\ role[parent[w]] = "toplevel"
       /\ geometry[w] # <<>> => shm[w] \in Format
       /\ ~(shm[w] = "premultiplied" /\ modifier[w])

PoliteInv == BookType /\ StackInv /\ (polite => Sound)

\* No polite client's window has a parent that is gone.
LEMMA NoFreedParent ==
  ASSUME StackInv, Sound, NEW w \in Window
  PROVE  ~PositionFaults(w)
BY DEF StackInv, Sound, PositionFaults

\* The parent a new subsurface gets is a toplevel on the stack.
LEMMA ToplevelBelowFound ==
  ASSUME NEW stk, NEW S, Lists(stk, S), NEW w,
         FirstToplevelBelow(stk, w) # NoWindow
  PROVE  /\ FirstToplevelBelow(stk, w) \in S
         /\ role[FirstToplevelBelow(stk, w)] = "toplevel"
<1> DEFINE A == {i \in 1 .. Len(stk) : stk[i] = w}
           at == IF A # {} THEN Min(A) ELSE 0
           I == {i \in at + 1 .. Len(stk) : role[stk[i]] = "toplevel"}
<1>1. Len(stk) \in Nat /\ DOMAIN stk = 1 .. Len(stk)
  BY DEF Lists
<1>2. at \in Nat
  BY <1>1, MinInSet
<1>3. FirstToplevelBelow(stk, w)
        = IF (IF I # {} THEN Min(I) ELSE 0) = 0
          THEN NoWindow ELSE stk[IF I # {} THEN Min(I) ELSE 0]
  BY DEF FirstToplevelBelow, SelectInSeq, SelectInSubSeq
<1> HIDE DEF at
<1>4. I # {} => Min(I) \in I
  <2>1. at + 1 .. Len(stk) \subseteq Nat
    BY <1>1, <1>2
  <2>2. I \in SUBSET Nat
    BY <2>1
  <2> HIDE DEF I
  <2> QED  BY <2>2, MinInSet
<1>5. I # {} /\ FirstToplevelBelow(stk, w) = stk[Min(I)]
  BY <1>3
<1>6. Min(I) \in 1 .. Len(stk) /\ role[stk[Min(I)]] = "toplevel"
  BY <1>1, <1>2, <1>4, <1>5
<1> QED  BY <1>1, <1>5, <1>6 DEF Lists

LEMMA BookTypeStep ==
  ASSUME PoliteInv, Next
  PROVE  BookType'
<1> USE DEF BookType, PoliteInv, Dies, DiesIf, FindOrAllocate
<1>1. ASSUME NEW w \in Window, NEW rs \in Placement, NEW format \in Format,
             RegionShm(w, rs, format)
      PROVE  BookType'
  BY <1>1 DEF RegionShm, UpdateGeometry
<1>2. ASSUME NEW w \in Window, NEW rs \in Placement, RegionOther(w, rs)
      PROVE  BookType'
  <2>1. /\ geometry' \in {geometry, [geometry EXCEPT ![w] = rs]}
        /\ UNCHANGED <<role, parent, opaque, modifier, shm>>
    BY <1>2 DEF RegionOther, UpdateGeometry
  <2>2. polite' \in BOOLEAN
    <3>1. polite' = FALSE
      BY <1>2 DEF RegionOther, UpdateGeometry
    <3> QED  BY <3>1
  <2>3. geometry' \in [Window -> Placement \cup {<<>>}]
    BY <1>2, <2>1
  <2> QED  BY <2>1, <2>2, <2>3
<1>3. ASSUME NEW w \in Window, HideWindow(w)
      PROVE  BookType'
  BY <1>3 DEF HideWindow
<1>4. ASSUME NEW w \in Window, NEW isToplevel \in BOOLEAN,
             NEW hasRects \in BOOLEAN, RepaintRegion(w, isToplevel, hasRects)
      PROVE  BookType'
  <2> DEFINE p == FirstToplevelBelow(FoundStack(w), w)
  <2>1. p = NoWindow \/ p \in Window
    <3>1. Lists(FoundStack(w), windows \cup {w}) /\ windows \cup {w} \subseteq Window
      BY FoundLists DEF StackInv
    <3> QED  BY <3>1, ToplevelBelowFound
  <2> HIDE DEF p
  <2>2. /\ UNCHANGED <<geometry, opaque, modifier, shm>>
        /\ polite' \in BOOLEAN
        /\ UNCHANGED <<role, parent>> \/ CreateSurface(w, isToplevel, p)
    BY <1>4 DEF RepaintRegion, p
  <2> QED  BY <2>1, <2>2 DEF CreateSurface, Role
<1>5. ASSUME NEW w \in Window, NEW dx \in Step, RegionMove(w, dx)
      PROVE  BookType'
  BY <1>5 DEF RegionMove, UpdateGeometry, OnlyFound
<1>6. ASSUME NEW w \in Window, RegionDestroy(w)
      PROVE  BookType'
  BY <1>6 DEF RegionDestroy, Role
<1>7. ASSUME NEW w \in Window, NEW altitude \in Altitude,
             NEW fixed \in BOOLEAN, ChangeAltitude(w, altitude, fixed)
      PROVE  BookType'
  BY <1>7 DEF ChangeAltitude
<1>8. ASSUME NEW w \in Window, NEW isOpaque \in BOOLEAN, SetOpacity(w, isOpaque)
      PROVE  BookType'
  BY <1>8 DEF SetOpacity
<1>9. ASSUME NEW w \in Window, LookUpOnly(w)
      PROVE  BookType'
  BY <1>9 DEF LookUpOnly, OnlyFound
<1> QED
  BY <1>1, <1>2, <1>3, <1>4, <1>5, <1>6, <1>7, <1>8, <1>9 DEF Next

\* No rule is taken back: a client that is polite after a step was before.
LEMMA PoliteBefore ==
  ASSUME BookType, Next, polite'
  PROVE  polite
<1>1. ASSUME NEW w \in Window, NEW rs \in Placement, NEW format \in Format,
             RegionShm(w, rs, format)
      PROVE  polite
  BY <1>1 DEF RegionShm, UpdateGeometry
<1>2. ASSUME NEW w \in Window, NEW rs \in Placement, RegionOther(w, rs)
      PROVE  polite
  BY <1>2 DEF RegionOther, UpdateGeometry
<1>3. ASSUME NEW w \in Window, HideWindow(w)
      PROVE  polite
  BY <1>3 DEF HideWindow
<1>4. ASSUME NEW w \in Window, NEW isToplevel \in BOOLEAN,
             NEW hasRects \in BOOLEAN, RepaintRegion(w, isToplevel, hasRects)
      PROVE  polite
  BY <1>4 DEF RepaintRegion
<1>5. ASSUME NEW w \in Window, NEW dx \in Step, RegionMove(w, dx)
      PROVE  polite
  BY <1>5 DEF RegionMove, UpdateGeometry
<1>6. ASSUME NEW w \in Window, RegionDestroy(w)
      PROVE  polite
  BY <1>6 DEF RegionDestroy
<1>7. ASSUME NEW w \in Window, NEW altitude \in Altitude,
             NEW fixed \in BOOLEAN, ChangeAltitude(w, altitude, fixed)
      PROVE  polite
  BY <1>7 DEF ChangeAltitude
<1>8. ASSUME NEW w \in Window, NEW isOpaque \in BOOLEAN, SetOpacity(w, isOpaque)
      PROVE  polite
  BY <1>8 DEF SetOpacity
<1>9. ASSUME NEW w \in Window, LookUpOnly(w)
      PROVE  polite
  BY <1>9 DEF LookUpOnly
<1> QED
  BY <1>1, <1>2, <1>3, <1>4, <1>5, <1>6, <1>7, <1>8, <1>9 DEF Next

LEMMA SoundStep ==
  ASSUME PoliteInv, Next, polite'
  PROVE  Sound'
<1> USE DEF PoliteInv
<1>1. /\ polite /\ Sound /\ BookType /\ StackInv
      /\ \A w \in Window : ~PositionFaults(w)
  BY PoliteBefore, NoFreedParent
<1>2. ASSUME NEW w \in Window, NEW rs \in Placement, NEW format \in Format,
             RegionShm(w, rs, format)
      PROVE  Sound'
  <2>1. ~BlitFaults(w, format)
    BY <1>2 DEF RegionShm, UpdateGeometry
  <2>2. /\ windows' = windows \cup {w}
        /\ shm' = [shm EXCEPT ![w] = format]
        /\ geometry' = [geometry EXCEPT ![w] = rs]
        /\ UNCHANGED <<role, parent, modifier, fault>>
    BY <1>1, <1>2, <2>1 DEF RegionShm, UpdateGeometry, DiesIf, FindOrAllocate
  <2> QED  BY <1>1, <2>1, <2>2 DEF Sound, BookType, BlitFaults
<1>3. ASSUME NEW w \in Window, NEW rs \in Placement, RegionOther(w, rs)
      PROVE  Sound'
  BY <1>3 DEF RegionOther, UpdateGeometry
<1>4. ASSUME NEW w \in Window, HideWindow(w)
      PROVE  Sound'
  <2>1. /\ windows' = windows \cup {w}
        /\ shm' = [shm EXCEPT ![w] = "detached"]
        /\ geometry' = [geometry EXCEPT ![w] = <<>>]
        /\ UNCHANGED <<role, parent, modifier, fault>>
    BY <1>4 DEF HideWindow, DiesIf, FindOrAllocate
  <2> QED  BY <1>1, <2>1 DEF Sound, BookType
<1>5. ASSUME NEW w \in Window, NEW isToplevel \in BOOLEAN,
             NEW hasRects \in BOOLEAN, RepaintRegion(w, isToplevel, hasRects)
      PROVE  Sound'
  <2> DEFINE p == FirstToplevelBelow(FoundStack(w), w)
  <2>1. ~(Attached(w) /\ BlitFaults(w, shm[w]))
    BY <1>1 DEF Sound, BlitFaults
  <2>2. ~(role[w] = "none" /\ ~isToplevel /\ p = NoWindow)
    BY <1>5 DEF RepaintRegion, p
  <2>3. /\ windows' = windows \cup {w}
        /\ UNCHANGED <<geometry, modifier, shm, fault>>
        /\ \/ UNCHANGED <<role, parent>>
           \/ role[w] = "none" /\ CreateSurface(w, isToplevel, p)
    <3> HIDE DEF p
    <3> QED  BY <1>1, <1>5, <2>1, <2>2 DEF RepaintRegion, DiesIf, FindOrAllocate, p
  <2>4. p # NoWindow => p \in windows \cup {w} /\ role[p] = "toplevel"
    BY <1>1, FoundLists, ToplevelBelowFound
  <2> HIDE DEF p
  <2>5. CASE UNCHANGED <<role, parent>>
    BY <1>1, <2>3, <2>5 DEF Sound, BookType
  <2>6. CASE role[w] = "none" /\ CreateSurface(w, isToplevel, p)
    <3>1. parent[w] = NoWindow /\ \A x \in Window : parent[x] # w
      BY <1>1, <2>6 DEF Sound, BookType, StackInv
    <3>2. CASE isToplevel
      <4>1. role' = [role EXCEPT ![w] = "toplevel"] /\ parent' = parent
        BY <2>6, <3>2 DEF CreateSurface
      <4> QED  BY <1>1, <2>3, <3>1, <4>1 DEF Sound, BookType
    <3>3. CASE ~isToplevel
      <4>1. /\ role' = [role EXCEPT ![w] = "subsurface"]
            /\ parent' = [parent EXCEPT ![w] = p]
        BY <2>6, <3>3 DEF CreateSurface
      <4>2. p # NoWindow /\ p \in windows \cup {w} /\ role[p] = "toplevel" /\ p # w
        BY <2>2, <2>4, <2>6, <3>3
      <4> QED  BY <1>1, <2>3, <3>1, <4>1, <4>2 DEF Sound, BookType, StackInv
    <3> QED  BY <3>2, <3>3
  <2> QED  BY <2>3, <2>5, <2>6
<1>6. ASSUME NEW w \in Window, NEW dx \in Step, RegionMove(w, dx)
      PROVE  Sound'
  <2>1. geometry[w] # <<>> => ~ResizeMayFail(w) /\ ~BlitFaults(w, shm[w])
    BY <1>1 DEF Sound, ResizeMayFail, BlitFaults
  <2>2. /\ windows' = windows \cup {w}
        /\ UNCHANGED <<role, parent, modifier, shm, fault>>
        /\ \/ UNCHANGED geometry
           \/ /\ geometry[w] # <<>>
              /\ geometry' = [geometry EXCEPT ![w] = Translate(geometry[w], dx)]
    BY <1>1, <1>6, <2>1
    DEF RegionMove, UpdateGeometry, DiesIf, FindOrAllocate, OnlyFound
  <2> QED  BY <1>1, <2>2 DEF Sound, BookType
<1>7. ASSUME NEW w \in Window, RegionDestroy(w)
      PROVE  Sound'
  <2>1. \A child \in Window : parent[child] # w
    BY <1>7 DEF RegionDestroy
  <2>2. /\ windows' = windows \ {w}
        /\ role' = [role EXCEPT ![w] = "none"]
        /\ parent' = [x \in Window |-> IF x = w THEN NoWindow
                                       ELSE IF parent[x] = w THEN Freed
                                       ELSE parent[x]]
        /\ geometry' = [geometry EXCEPT ![w] = <<>>]
        /\ modifier' = [modifier EXCEPT ![w] = FALSE]
        /\ shm' = [shm EXCEPT ![w] = "never"]
        /\ fault' = fault
    BY <1>7 DEF RegionDestroy
  <2> QED  BY <1>1, <2>1, <2>2 DEF Sound, BookType, StackInv
<1>8. ASSUME NEW w \in Window, NEW altitude \in Altitude,
             NEW fixed \in BOOLEAN, ChangeAltitude(w, altitude, fixed)
      PROVE  Sound'
  <2>1. /\ windows' = windows \cup {w}
        /\ UNCHANGED <<role, parent, geometry, modifier, shm, fault>>
    BY <1>1, <1>8 DEF ChangeAltitude, DiesIf
  <2> QED  BY <1>1, <2>1 DEF Sound, BookType
<1>9. ASSUME NEW w \in Window, NEW isOpaque \in BOOLEAN, SetOpacity(w, isOpaque)
      PROVE  Sound'
  <2> DEFINE changes == isOpaque # opaque[w]
  <2>1. changes => role[w] # "none" /\ shm[w] # "premultiplied"
    BY <1>9 DEF SetOpacity
  <2>2. /\ windows' = windows \cup {w}
        /\ UNCHANGED <<role, parent, geometry, shm, fault>>
        /\ modifier' = [modifier EXCEPT ![w] = @ \/ (changes /\ AlphaModifier)]
    BY <1>9, <2>1 DEF SetOpacity, FindOrAllocate
  <2> HIDE DEF changes
  <2>3. \A x \in Window : modifier'[x] => modifier[x] \/ (x = w /\ changes)
    BY <1>1, <2>2 DEF BookType
  <2> QED  BY <1>1, <2>1, <2>2, <2>3 DEF Sound, BookType
<1>10. ASSUME NEW w \in Window, LookUpOnly(w)
       PROVE  Sound'
  BY <1>1, <1>10 DEF LookUpOnly, OnlyFound, FindOrAllocate, Sound, BookType
<1> QED
  BY <1>2, <1>3, <1>4, <1>5, <1>6, <1>7, <1>8, <1>9, <1>10 DEF Next

LEMMA PoliteInvariance == Spec => []PoliteInv
<1>1. Init => PoliteInv
  BY DEF Init, PoliteInv, BookType, StackInv, Lists, Sound, Role
<1>2. PoliteInv /\ [Next]_vars => PoliteInv'
  <2> SUFFICES ASSUME PoliteInv, [Next]_vars PROVE PoliteInv'
    OBVIOUS
  <2>1. CASE Next
    BY <2>1, StackStep, BookTypeStep, SoundStep DEF PoliteInv
  <2>2. CASE UNCHANGED vars
    BY <2>2 DEF vars, PoliteInv, BookType, StackInv, Sound
  <2> QED  BY <2>1, <2>2
<1> QED  BY <1>1, <1>2, PTL DEF Spec

\* A client that keeps to the rules meets neither an assert() of the proxy
\* nor a pointer it must not follow, in any order of its commands.
THEOREM PoliteClientSafe == Spec => []PoliteNeverFaults
<1>1. PoliteInv => PoliteNeverFaults
  BY DEF PoliteInv, Sound, PoliteNeverFaults
<1> QED  BY <1>1, PoliteInvariance, PTL

\* Its children never outlive the toplevel they were created under.
THEOREM ChildrenParented == Spec => []ChildrenHaveToplevel
<1>1. PoliteInv => ChildrenHaveToplevel
  BY DEF PoliteInv, Sound, ChildrenHaveToplevel
<1> QED  BY <1>1, PoliteInvariance, PTL
----------------------------------------------------------------------------
(* What is on the screen. *)

\* A window has its segment attached only while it has a region and a buffer
\* made for it, and only an attached segment is ever drawn.
Attachment ==
  /\ mapped \subseteq Window
  /\ buffer \in [Window -> BOOLEAN]
  /\ \A w \in Window : shm[w] \in Format => geometry[w] # <<>> /\ buffer[w]
  /\ \A w \in mapped : role[w] # "none" /\ shm[w] \in Format

LEMMA AttachmentStep ==
  ASSUME BookType, Attachment, Next
  PROVE  Attachment'
<1> USE DEF Dies, DiesIf, compositor
<1>0. "never" \notin Format /\ "detached" \notin Format
  OBVIOUS
<1>1. ASSUME NEW w \in Window, NEW rs \in Placement, NEW format \in Format,
             RegionShm(w, rs, format)
      PROVE  Attachment'
  <2>1. \/ UNCHANGED <<mapped, buffer, shm, geometry, role>>
        \/ /\ shm' = [shm EXCEPT ![w] = format]
           /\ geometry' = [geometry EXCEPT ![w] = rs]
           /\ buffer' = [buffer EXCEPT ![w] = TRUE]
           /\ mapped' = Shown(w, role[w] # "none")
           /\ role' = role
    BY <1>1 DEF RegionShm, UpdateGeometry
  <2>2. \A x \in mapped' : x \in mapped \/ (x = w /\ role[w] # "none")
    BY <2>1 DEF Shown
  <2>3. CASE UNCHANGED <<mapped, buffer, shm, geometry, role>>
    BY <2>3 DEF Attachment
  <2>4. CASE /\ shm' = [shm EXCEPT ![w] = format]
             /\ geometry' = [geometry EXCEPT ![w] = rs]
             /\ buffer' = [buffer EXCEPT ![w] = TRUE]
             /\ role' = role
    <3>1. \A x \in Window : shm'[x] \in Format => geometry'[x] # <<>> /\ buffer'[x]
      BY <2>4 DEF Attachment, BookType
    <3>2. \A x \in mapped' : role'[x] # "none" /\ shm'[x] \in Format
      BY <2>2, <2>4 DEF Attachment, BookType
    <3> QED  BY <2>2, <2>4, <3>1, <3>2 DEF Attachment
  <2> QED  BY <2>1, <2>3, <2>4
<1>2. ASSUME NEW w \in Window, NEW rs \in Placement, RegionOther(w, rs)
      PROVE  Attachment'
  <2>1. \/ UNCHANGED <<mapped, buffer, shm, geometry, role>>
        \/ /\ geometry' = [geometry EXCEPT ![w] = rs]
           /\ buffer' = [buffer EXCEPT ![w] = TRUE]
           /\ mapped' = Shown(w, role[w] # "none" /\ Attached(w))
           /\ UNCHANGED <<role, shm>>
    BY <1>2 DEF RegionOther, UpdateGeometry
  <2> QED  BY <2>1 DEF Attachment, BookType, Shown, Attached
<1>3. ASSUME NEW w \in Window, HideWindow(w)
      PROVE  Attachment'
  <2>1. \/ UNCHANGED <<mapped, buffer, shm, geometry, role>>
        \/ /\ shm' = [shm EXCEPT ![w] = "detached"]
           /\ geometry' = [geometry EXCEPT ![w] = <<>>]
           /\ mapped' = mapped \ {w}
           /\ UNCHANGED <<role, buffer>>
    BY <1>3 DEF HideWindow
  <2> QED  BY <1>0, <2>1 DEF Attachment, BookType
<1>4. ASSUME NEW w \in Window, NEW isToplevel \in BOOLEAN,
             NEW hasRects \in BOOLEAN, RepaintRegion(w, isToplevel, hasRects)
      PROVE  Attachment'
  <2> DEFINE p == FirstToplevelBelow(FoundStack(w), w)
  <2> HIDE DEF p
  <2>1. /\ UNCHANGED <<shm, geometry, buffer>>
        /\ \/ UNCHANGED <<mapped, role>>
           \/ /\ mapped' = Shown(w, hasRects /\ Attached(w))
              /\ \/ role[w] = "none" /\ CreateSurface(w, isToplevel, p)
                 \/ role[w] # "none" /\ role' = role
    BY <1>4 DEF RepaintRegion, p
  <2>2. /\ \A x \in Window : role[x] # "none" => role'[x] # "none"
        /\ mapped' # mapped => role'[w] # "none"
    BY <2>1 DEF CreateSurface, BookType, Role
  <2> QED  BY <2>1, <2>2 DEF Attachment, BookType, Shown, Attached
<1>5. ASSUME NEW w \in Window, NEW dx \in Step, RegionMove(w, dx)
      PROVE  Attachment'
  <2>1. /\ UNCHANGED <<shm, role>>
        /\ \/ UNCHANGED <<mapped, geometry, buffer>>
           \/ \E rs \in Placement :
                /\ geometry' = [geometry EXCEPT ![w] = rs]
                /\ buffer' = [buffer EXCEPT ![w] = TRUE]
                /\ mapped' = Shown(w, role[w] # "none" /\ Attached(w))
    BY <1>5 DEF RegionMove, UpdateGeometry, OnlyFound
  <2>2. CASE UNCHANGED <<mapped, geometry, buffer>>
    BY <2>1, <2>2 DEF Attachment
  <2>3. ASSUME NEW rs \in Placement,
               geometry' = [geometry EXCEPT ![w] = rs],
               buffer' = [buffer EXCEPT ![w] = TRUE],
               mapped' = Shown(w, role[w] # "none" /\ Attached(w))
        PROVE  Attachment'
    <3>1. rs # <<>> /\ UNCHANGED <<shm, role>>
      BY <2>1, EnvironmentAssumption
    <3>2. /\ mapped' \subseteq mapped \cup {w}
          /\ w \in mapped' => role[w] # "none" /\ shm[w] \in Format
      BY <2>3 DEF Shown, Attached, Attachment
    <3>3. /\ mapped' \subseteq Window
          /\ \A x \in mapped' : role'[x] # "none" /\ shm'[x] \in Format
      <4>1. /\ mapped \subseteq Window
            /\ \A x \in mapped : role[x] # "none" /\ shm[x] \in Format
        BY DEF Attachment
      <4>2. role' = role /\ shm' = shm
        BY <3>1
      <4> QED  BY <3>2, <4>1, <4>2
    <3>4. buffer' \in [Window -> BOOLEAN] /\ buffer'[w] /\ geometry'[w] = rs
      BY <2>3 DEF Attachment, BookType
    <3>5. \A x \in Window : x # w => buffer'[x] = buffer[x] /\ geometry'[x] = geometry[x]
      BY <2>3 DEF Attachment, BookType
    <3>6. \A x \in Window : shm'[x] \in Format => geometry'[x] # <<>> /\ buffer'[x]
      BY <3>1, <3>4, <3>5 DEF Attachment
    <3> QED  BY <3>3, <3>4, <3>6 DEF Attachment
  <2> QED  BY <2>1, <2>2, <2>3
<1>6. ASSUME NEW w \in Window, RegionDestroy(w)
      PROVE  Attachment'
  <2>1. /\ role' = [role EXCEPT ![w] = "none"]
        /\ geometry' = [geometry EXCEPT ![w] = <<>>]
        /\ shm' = [shm EXCEPT ![w] = "never"]
        /\ buffer' = [buffer EXCEPT ![w] = FALSE]
        /\ mapped' = mapped \ {w}
    BY <1>6 DEF RegionDestroy
  <2> QED  BY <1>0, <2>1 DEF Attachment, BookType
<1>7. ASSUME NEW w \in Window, NEW altitude \in Altitude,
             NEW fixed \in BOOLEAN, ChangeAltitude(w, altitude, fixed)
      PROVE  Attachment'
  <2>1. UNCHANGED <<mapped, buffer, shm, geometry, role>>
    BY <1>7 DEF ChangeAltitude
  <2> QED  BY <2>1 DEF Attachment
<1>8. ASSUME NEW w \in Window, NEW isOpaque \in BOOLEAN, SetOpacity(w, isOpaque)
      PROVE  Attachment'
  BY <1>8 DEF SetOpacity, Attachment
<1>9. ASSUME NEW w \in Window, LookUpOnly(w)
      PROVE  Attachment'
  BY <1>9 DEF LookUpOnly, OnlyFound, Attachment
<1> QED
  BY <1>1, <1>2, <1>3, <1>4, <1>5, <1>6, <1>7, <1>8, <1>9 DEF Next

\* A window that was hidden, or has no region or no surface, is not on the
\* screen, whatever its client sends (window.c:614-616, 898-922).
THEOREM HiddenIsHidden == Spec => []HiddenStaysHidden
<1>1. Init => Attachment
  BY DEF Init, Attachment
<1>2. PoliteInv /\ Attachment /\ [Next]_vars => Attachment'
  BY AttachmentStep DEF PoliteInv, vars, Attachment
<1>3. Attachment => HiddenStaysHidden
  BY DEF Attachment, HiddenStaysHidden
<1> QED  BY <1>1, <1>2, <1>3, PoliteInvariance, PTL DEF Spec

----------------------------------------------------------------------------
(* The zones of the stack. *)

\* ZoneOrder of any stack.
Zoned(stk, top) ==
  \A i, j \in DOMAIN stk : i < j => (top[stk[j]] => top[stk[i]])

\* Only windows of the map are on top.
ZoneInv ==
  /\ onTop \in [Window -> BOOLEAN]
  /\ \A w \in Window : onTop[w] => w \in windows

\* The boundary is the end of the first zone, whatever comes behind it.
LEMMA BoundaryParts ==
  ASSUME NEW stk, NEW top, Len(stk) \in Nat
  PROVE  /\ \A i \in 1 .. Len(stk) : i < Boundary(stk, top) => top[stk[i]]
         /\ Boundary(stk, top) <= Len(stk) => ~top[stk[Boundary(stk, top)]]
<1> DEFINE I == {i \in 1 .. Len(stk) : ~top[stk[i]]}
<1>1. Boundary(stk, top) = IF I # {} THEN Min(I) ELSE Len(stk) + 1
  <2>1. SelectInSeq(stk, LAMBDA w : ~top[w]) = IF I # {} THEN Min(I) ELSE 0
    BY DEF SelectInSeq
  <2>2. I # {} => Min(I) \in I
    <3>1. I \in SUBSET Nat
      OBVIOUS
    <3> HIDE DEF I
    <3> QED  BY <3>1, MinInSet
  <2> QED  BY <2>1, <2>2 DEF Boundary
<1>2. CASE I # {}
  <2> DEFINE m == Min(I)
  <2>1. m \in I /\ \A i \in I : m <= i
    <3>1. I \in SUBSET Nat /\ I # {}
      BY <1>2
    <3> HIDE DEF I
    <3> QED  BY <3>1, MinInSet
  <2>2. Boundary(stk, top) = m
    BY <1>1, <1>2
  <2> HIDE DEF m
  <2>3. \A i \in 1 .. Len(stk) : i < m => i \notin I
    BY <2>1
  <2> QED  BY <2>1, <2>2, <2>3
<1>3. CASE I = {}
  BY <1>1, <1>3
<1> QED  BY <1>2, <1>3

LEMMA PushZoned ==
  ASSUME NEW S, NEW stk \in Seq(S), NEW top, NEW w, Zoned(stk, top)
  PROVE  Zoned(PushToStack(stk, top, w), top)
<1> DEFINE k == Boundary(stk, top)
           r == PushToStack(stk, top, w)
<1>1. Len(stk) \in Nat /\ DOMAIN stk = 1 .. Len(stk)
  OBVIOUS
<1>2. k \in 1 .. Len(stk) + 1
  BY <1>1, BoundaryInRange
<1>3. \A i \in 1 .. Len(stk) : i < k => top[stk[i]]
  BY <1>1, BoundaryParts
<1>4. \A i \in 1 .. Len(stk) : i >= k => ~top[stk[i]]
  <2>1. k <= Len(stk) => ~top[stk[k]]
    BY <1>1, BoundaryParts
  <2> HIDE DEF k
  <2> QED  BY <1>1, <1>2, <2>1 DEF Zoned
<1>5. /\ r \in Seq(S \cup {w}) /\ Len(r) = Len(stk) + 1
      /\ \A i \in 1 .. Len(stk) + 1 :
           r[i] = IF i < k THEN stk[i] ELSE IF i = k THEN w ELSE stk[i - 1]
  <2> HIDE DEF k
  <2> QED  BY <1>2, InsertAtElements DEF PushToStack, k
<1> HIDE DEF k, r
<1>6. DOMAIN r = 1 .. Len(stk) + 1
  BY <1>1, <1>5
<1>7. \A i \in DOMAIN r : i < k => top[r[i]]
  BY <1>1, <1>2, <1>3, <1>5, <1>6
<1>8. \A i \in DOMAIN r : i > k => ~top[r[i]]
  <2>1. ASSUME NEW i \in DOMAIN r, i > k
        PROVE  ~top[r[i]]
    <3>1. r[i] = stk[i - 1] /\ i - 1 \in 1 .. Len(stk) /\ i - 1 >= k
      BY <1>1, <1>2, <1>5, <1>6, <2>1
    <3> QED  BY <1>4, <3>1
  <2> QED  BY <2>1
<1>9. ASSUME NEW i \in DOMAIN r, NEW j \in DOMAIN r, i < j, top[r[j]]
      PROVE  top[r[i]]
  BY <1>1, <1>2, <1>6, <1>7, <1>8, <1>9
<1> QED  BY <1>9 DEF Zoned, r

LEMMA RemoveFirstZoned ==
  ASSUME NEW S, NEW stk \in Seq(S), NEW top, NEW w, Zoned(stk, top)
  PROVE  Zoned(RemoveFirst(stk, w), top)
<1>1. Len(stk) \in Nat /\ DOMAIN stk = 1 .. Len(stk)
  OBVIOUS
<1>2. CASE \E i \in 1 .. Len(stk) : stk[i] = w
  <2> DEFINE I == {i \in 1 .. Len(stk) : stk[i] = w}
  <2>1. Min(I) \in I
    <3>1. I \in SUBSET Nat /\ I # {}
      BY <1>1, <1>2
    <3> HIDE DEF I
    <3> QED  BY <3>1, MinInSet
  <2> DEFINE k == Min(I)
             r == RemoveFirst(stk, w)
  <2>2. k \in 1 .. Len(stk) /\ r = RemoveAt(stk, k)
    BY <1>2, <2>1 DEF RemoveFirst, SelectInSeq
  <2> HIDE DEF k, r
  <2>3. \A i \in 1 .. Len(stk) : i # k => stk[i] \in S
    OBVIOUS
  <2>4. /\ r \in Seq(S) /\ Len(r) = Len(stk) - 1
        /\ \A i \in 1 .. Len(stk) - 1 : r[i] = IF i < k THEN stk[i] ELSE stk[i + 1]
    BY <2>2, <2>3, RemoveAtElements
  <2>5. DOMAIN r = 1 .. Len(stk) - 1
    BY <1>1, <2>4
  <2>6. ASSUME NEW i \in DOMAIN r, NEW j \in DOMAIN r, i < j, top[r[j]]
        PROVE  top[r[i]]
    <3> DEFINE a == IF i < k THEN i ELSE i + 1
               b == IF j < k THEN j ELSE j + 1
    <3>1. a \in 1 .. Len(stk) /\ b \in 1 .. Len(stk) /\ a < b
      BY <1>1, <2>2, <2>5, <2>6
    <3>2. r[i] = stk[a] /\ r[j] = stk[b]
      BY <2>4, <2>5
    <3> QED  BY <1>1, <2>6, <3>1, <3>2 DEF Zoned
  <2> QED  BY <2>6 DEF Zoned, r
<1>3. CASE ~ \E i \in 1 .. Len(stk) : stk[i] = w
  BY <1>3 DEF RemoveFirst
<1> QED  BY <1>2, <1>3

\* A window that is on top may come first, one that is not may come last.
LEMMA EndsZoned ==
  ASSUME NEW S, NEW stk \in Seq(S), NEW top, NEW w, Zoned(stk, top)
  PROVE  /\ top[w] => Zoned(<<w>> \o stk, top)
         /\ ~top[w] => Zoned(Append(stk, w), top)
<1> DEFINE n == Len(stk)
           T == S \cup {w}
<1>1. n \in Nat /\ DOMAIN stk = 1 .. n /\ stk \in Seq(T) /\ <<w>> \in Seq(T)
  OBVIOUS
<1>2. ASSUME top[w]
      PROVE  Zoned(<<w>> \o stk, top)
  <2> DEFINE r == <<w>> \o stk
  <2>1. /\ r \in Seq(T) /\ Len(r) = 1 + n
        /\ \A i \in 1 .. 1 + n : r[i] = IF i <= 1 THEN w ELSE stk[i - 1]
    <3>1. /\ <<w>> \o stk \in Seq(T) /\ Len(<<w>> \o stk) = Len(<<w>>) + Len(stk)
          /\ \A i \in 1 .. Len(<<w>>) + Len(stk) :
               (<<w>> \o stk)[i] = IF i <= Len(<<w>>) THEN <<w>>[i]
                                   ELSE stk[i - Len(<<w>>)]
      BY <1>1, ConcatProperties
    <3> QED  BY <3>1, <1>1
  <2> HIDE DEF r
  <2>2. DOMAIN r = 1 .. 1 + n
    BY <1>1, <2>1
  <2>3. ASSUME NEW i \in DOMAIN r, NEW j \in DOMAIN r, i < j, top[r[j]]
        PROVE  top[r[i]]
    <3>1. CASE i = 1
      BY <1>1, <1>2, <2>1, <2>2, <3>1
    <3>2. CASE i > 1
      <4>1. /\ r[i] = stk[i - 1] /\ r[j] = stk[j - 1]
            /\ i - 1 \in 1 .. n /\ j - 1 \in 1 .. n /\ i - 1 < j - 1
        BY <1>1, <2>1, <2>2, <2>3, <3>2
      <4> QED  BY <1>1, <2>3, <4>1 DEF Zoned
    <3> QED  BY <1>1, <2>2, <3>1, <3>2
  <2> QED  BY <2>3 DEF Zoned, r
<1>3. ASSUME ~top[w]
      PROVE  Zoned(Append(stk, w), top)
  <2> DEFINE r == Append(stk, w)
  <2>1. /\ r \in Seq(T) /\ Len(r) = n + 1
        /\ \A i \in 1 .. n + 1 : r[i] = IF i <= n THEN stk[i] ELSE w
    BY <1>1
  <2> HIDE DEF r
  <2>2. DOMAIN r = 1 .. n + 1
    BY <1>1, <2>1
  <2>3. ASSUME NEW i \in DOMAIN r, NEW j \in DOMAIN r, i < j, top[r[j]]
        PROVE  top[r[i]]
    <3>1. j <= n
      BY <1>1, <1>3, <2>1, <2>2, <2>3
    <3>2. i \in 1 .. n /\ j \in 1 .. n /\ r[i] = stk[i] /\ r[j] = stk[j]
      BY <1>1, <2>1, <2>2, <2>3, <3>1
    <3> QED  BY <1>1, <2>3, <3>2 DEF Zoned
  <2> QED  BY <2>3 DEF Zoned, r
<1> QED  BY <1>2, <1>3

\* A window that is not on the stack has no part in its zones.
LEMMA ZonedWithout ==
  ASSUME NEW S, NEW stk, Lists(stk, S), S \subseteq Window, NEW w \in Window,
         w \notin S, NEW top, NEW other,
         \A x \in Window : x # w => (top[x] <=> other[x])
  PROVE  Zoned(stk, top) <=> Zoned(stk, other)
<1>1. \A i \in DOMAIN stk : stk[i] \in Window /\ stk[i] # w
  BY DEF Lists
<1> QED  BY <1>1 DEF Zoned

LEMMA FoundZoned ==
  ASSUME StackInv, ZoneOrder, NEW w \in Window
  PROVE  Zoned(FoundStack(w), onTop)
<1>1. stack \in Seq(windows) /\ Zoned(stack, onTop)
  BY DEF StackInv, Lists, ZoneOrder, Zoned
<1> QED  BY <1>1, PushZoned DEF FoundStack

\* What a step makes of the two zones.
ZonesStay ==
  ZoneOrder =>
    \/ ZoneOrder'
    \/ \E w \in windows : onTop[w] /\ stack' = LowerWindow(stack, w)

LEMMA FoundKeepsZones ==
  ASSUME StackInv, ZoneInv, NEW w \in Window, onTop' = onTop,
         FindOrAllocate(w) \/ UNCHANGED <<windows, stack>>
  PROVE  ZoneInv' /\ ZonesStay
<1>1. ZoneInv'
  BY DEF ZoneInv, FindOrAllocate
<1>2. CASE FindOrAllocate(w)
  BY <1>1, <1>2, FoundZoned DEF FindOrAllocate, ZonesStay, ZoneOrder, Zoned
<1>3. CASE UNCHANGED <<windows, stack>>
  BY <1>1, <1>3 DEF ZonesStay, ZoneOrder
<1> QED  BY <1>1, <1>2, <1>3

LEMMA ZonesStep ==
  ASSUME StackInv, ZoneInv, Next
  PROVE  ZoneInv' /\ ZonesStay
<1> USE FoundKeepsZones DEF Dies, DiesIf
<1>1. ASSUME NEW w \in Window, NEW rs \in Placement, NEW format \in Format,
             RegionShm(w, rs, format)
      PROVE  ZoneInv' /\ ZonesStay
  BY <1>1 DEF RegionShm
<1>2. ASSUME NEW w \in Window, NEW rs \in Placement, RegionOther(w, rs)
      PROVE  ZoneInv' /\ ZonesStay
  BY <1>2 DEF RegionOther
<1>3. ASSUME NEW w \in Window, HideWindow(w)
      PROVE  ZoneInv' /\ ZonesStay
  BY <1>3 DEF HideWindow
<1>4. ASSUME NEW w \in Window, NEW isToplevel \in BOOLEAN,
             NEW hasRects \in BOOLEAN, RepaintRegion(w, isToplevel, hasRects)
      PROVE  ZoneInv' /\ ZonesStay
  BY <1>4 DEF RepaintRegion
<1>5. ASSUME NEW w \in Window, NEW dx \in Step, RegionMove(w, dx)
      PROVE  ZoneInv' /\ ZonesStay
  BY <1>5 DEF RegionMove, OnlyFound
<1>6. ASSUME NEW w \in Window, RegionDestroy(w)
      PROVE  ZoneInv' /\ ZonesStay
  <2>1. /\ windows' = windows \ {w}
        /\ stack' = RemoveFirst(FoundStack(w), w)
        /\ onTop' = [onTop EXCEPT ![w] = FALSE]
    BY <1>6 DEF RegionDestroy
  <2>2. ZoneInv'
    BY <2>1 DEF ZoneInv
  <2>3. ASSUME ZoneOrder
        PROVE  ZoneOrder'
    <3> DEFINE S == windows \cup {w}
    <3>1. Lists(FoundStack(w), S) /\ Zoned(FoundStack(w), onTop)
      BY <2>3, FoundLists, FoundZoned
    <3>2. Lists(stack', S \ {w})
      BY <2>1, <3>1, RemoveFirstLists
    <3>3. Zoned(stack', onTop)
      BY <2>1, <3>1, RemoveFirstZoned DEF Lists
    <3>4. /\ S \ {w} \subseteq Window /\ w \notin S \ {w}
          /\ \A x \in Window : x # w => (onTop[x] <=> onTop'[x])
      BY <2>1 DEF StackInv, ZoneInv
    <3> HIDE DEF S
    <3>5. Zoned(stack', onTop')
      BY <3>2, <3>3, <3>4, ZonedWithout
    <3> QED  BY <3>5 DEF Zoned, ZoneOrder
  <2> QED  BY <2>2, <2>3 DEF ZonesStay
<1>7. ASSUME NEW w \in Window, NEW altitude \in Altitude,
             NEW fixed \in BOOLEAN, ChangeAltitude(w, altitude, fixed)
      PROVE  ZoneInv' /\ ZonesStay
  <2> DEFINE top == [onTop EXCEPT ![w] = @ \/ (fixed /\ altitude = "stays_on_top")]
             S == windows \cup {w}
             found == FoundStack(w)
             rest == RemoveFirst(found, w)
  <2>1. CASE UNCHANGED <<windows, stack, onTop>>
    BY <2>1
  <2>2. CASE /\ windows' = S /\ onTop' = top
             /\ stack' = IF altitude = "lower" THEN LowerWindow(found, w)
                                               ELSE RaiseWindow(found, top, w)
    <3>1. ZoneInv'
      BY <2>2 DEF ZoneInv
    <3>2. \A x \in Window : x # w => (onTop[x] <=> top[x])
      BY DEF ZoneInv
    <3>3. ASSUME ZoneOrder
          PROVE  Lists(rest, S \ {w}) /\ Zoned(rest, onTop) /\ Zoned(rest, top)
      <4>1. Lists(found, S) /\ Zoned(found, onTop)
        BY <3>3, FoundLists, FoundZoned
      <4>2. S \ {w} \subseteq Window /\ w \notin S \ {w}
        BY DEF StackInv
      <4> HIDE DEF S, found, top
      <4>3. Lists(rest, S \ {w})
        BY <4>1, RemoveFirstLists
      <4>4. Zoned(rest, onTop)
        BY <4>1, RemoveFirstZoned DEF Lists
      <4> HIDE DEF rest
      <4>5. Zoned(rest, top)
        BY <3>2, <4>2, <4>3, <4>4, ZonedWithout
      <4> QED  BY <4>3, <4>4, <4>5
    <3>4. ASSUME ZoneOrder, altitude # "lower"
          PROVE  Zoned(stack', top)
      <4>1. rest \in Seq(S \ {w}) /\ Zoned(rest, top)
        BY <3>3, <3>4 DEF Lists
      <4>2. stack' = IF top[w] THEN <<w>> \o rest ELSE PushToStack(rest, top, w)
        BY <2>2, <3>4 DEF RaiseWindow
      <4> HIDE DEF S, rest, top
      <4> QED  BY <4>1, <4>2, EndsZoned, PushZoned
    <3>5. ASSUME ZoneOrder, altitude = "lower", ~onTop[w]
          PROVE  Zoned(stack', onTop)
      <4>1. rest \in Seq(S \ {w}) /\ Zoned(rest, onTop)
        BY <3>3, <3>5 DEF Lists
      <4>2. stack' = Append(rest, w)
        BY <2>2, <3>5 DEF LowerWindow
      <4> HIDE DEF S, rest
      <4> QED  BY <3>5, <4>1, <4>2, EndsZoned
    <3>6. ASSUME altitude = "lower"
          PROVE  top = onTop
      BY <3>6 DEF ZoneInv
    <3>7. ASSUME ZoneOrder, altitude = "lower", onTop[w]
          PROVE  w \in windows /\ stack' = LowerWindow(stack, w)
      BY <2>2, <3>7 DEF ZoneInv, FoundStack
    <3> HIDE DEF top
    <3>8. ZonesStay
      BY <2>2, <3>4, <3>5, <3>6, <3>7 DEF ZonesStay, ZoneOrder, Zoned
    <3> QED  BY <3>1, <3>8
  <2> QED  BY <1>7, <2>1, <2>2 DEF ChangeAltitude
<1>8. ASSUME NEW w \in Window, NEW isOpaque \in BOOLEAN, SetOpacity(w, isOpaque)
      PROVE  ZoneInv' /\ ZonesStay
  BY <1>8 DEF SetOpacity
<1>9. ASSUME NEW w \in Window, LookUpOnly(w)
      PROVE  ZoneInv' /\ ZonesStay
  BY <1>9 DEF LookUpOnly, OnlyFound
<1> QED
  BY <1>1, <1>2, <1>3, <1>4, <1>5, <1>6, <1>7, <1>8, <1>9 DEF Next

\* Windows on top lie in front of all others until one of them is lowered,
\* which puts it at the very back (client.c:114-218).
THEOREM OnlyLoweringMixesZones == Spec => ZonesKept
<1>1. Init => ZoneInv
  BY DEF Init, ZoneInv
<1>2. StackInv /\ ZoneInv /\ [Next]_vars => ZoneInv'
  BY ZonesStep DEF vars, ZoneInv
<1>3. StackInv /\ ZoneInv /\ [Next]_vars => [ZonesStay]_vars
  BY ZonesStep
<1>4. Spec => [][ZonesStay]_vars
  BY <1>1, <1>2, <1>3, StackInvariance, PTL DEF Spec
<1> QED  BY <1>4 DEF ZonesKept, ZonesStay

----------------------------------------------------------------------------
(* Reordering. *)

\* Collect, one window at a time.
Collecting(f, stk, S) ==
  /\ f \in [0 .. Len(stk) -> Seq(Window)]
  /\ f[0] = <<>>
  /\ \A k \in 1 .. Len(stk) :
       f[k] = IF stk[k] \in S THEN Append(f[k - 1], stk[k]) ELSE f[k - 1]

LEMMA CollectFold ==
  ASSUME NEW stk \in Seq(Window), NEW S
  PROVE  \E f : Collecting(f, stk, S) /\ Collect(stk, S) = f[Len(stk)]
<1> DEFINE n == Len(stk)
<1>0. n \in Nat /\ stk \in [1 .. n -> Window]
  OBVIOUS
<1> HIDE DEF n
<1> DEFINE Acc == Seq(Window)
           D == 1 .. n
           op(found, w) == IF w \in S THEN Append(found, w) ELSE found
           step == [i \in D |-> [found \in Acc |-> op(found, stk[i])]]
           Is(g) == g = [T \in SUBSET D |->
                           IF T = {} THEN <<>> ELSE op(g[T \ {Max(T)}], stk[Max(T)])]
           iter == CHOOSE g : Is(g)
<1>1. \E g : Is(g)
  <2>1. /\ D \in SUBSET (1 .. n) /\ 1 \in Int /\ n \in Int
        /\ <<>> \in Acc /\ step \in [D -> [Acc -> Acc]]
    BY <1>0
  <2>2. PICK g \in [SUBSET D -> Acc] :
          IsFold(g, D, <<>>, step)
    <3> HIDE DEF D, Acc, step
    <3> QED  BY <2>1, FoldExists
  <2>3. \A T \in SUBSET D : T # {} => Max(T) \in D
    <3>1. D \in SUBSET (1 .. n) /\ 1 \in Int /\ n \in Int
      BY <1>0
    <3> HIDE DEF D
    <3> QED  BY <3>1, MaxInSet
  <2>4. \A T \in SUBSET D : T \ {Max(T)} \in SUBSET D
    OBVIOUS
  <2>5. \A T \in SUBSET D : T # {} =>
           step[Max(T)][g[T \ {Max(T)}]] = op(g[T \ {Max(T)}], stk[Max(T)])
    <3> HIDE DEF D, Acc, op
    <3> QED  BY <2>3, <2>4
  <2>6. Is(g)
    <3> HIDE DEF D, Acc, op, step
    <3> QED  BY <2>2, <2>5 DEF IsFold
  <2> QED  BY <2>6
<1>2. Is(iter)
  <2> HIDE DEF Is
  <2> QED  BY <1>1
<1>3. Collect(stk, S) = iter[D]
  <2>1. DOMAIN stk = D
    BY <1>0
  <2> QED  BY <2>1 DEF Collect, FoldLeft, MapThenFoldSet
<1> DEFINE f == [k \in 0 .. n |-> iter[1 .. k]]
<1>4. f[0] = <<>>
  <2>1. 1 .. 0 = {} /\ {} \in SUBSET D
    OBVIOUS
  <2>2. iter[{}] = <<>>
    <3> HIDE DEF D, op, iter
    <3> QED  BY <1>2, <2>1
  <2> HIDE DEF iter
  <2>3. 0 \in 0 .. n
    BY <1>0
  <2> QED  BY <2>1, <2>2, <2>3
<1>5. ASSUME NEW k \in 1 .. n
      PROVE  f[k] = op(f[k - 1], stk[k])
  <2>1. /\ 1 .. k \in SUBSET D /\ 1 .. k # {} /\ Max(1 .. k) = k
        /\ (1 .. k) \ {k} = 1 .. k - 1
    BY <1>0, MaxOfInterval
  <2>2. iter[1 .. k] = op(iter[1 .. k - 1], stk[k])
    <3> HIDE DEF D, op, iter
    <3> QED  BY <1>2, <2>1
  <2>3. k \in 0 .. n /\ k - 1 \in 0 .. n
    BY <1>0
  <2> HIDE DEF iter, op
  <2> QED  BY <2>2, <2>3
<1>6. Collect(stk, S) = f[n]
  <2> HIDE DEF iter
  <2> QED  BY <1>0, <1>3
<1> HIDE DEF f, iter, step, Is, D, op
<1>7. \A k \in 0 .. n : f[k] \in Acc
  <2> DEFINE K == {k \in Nat : k <= n => f[k] \in Acc}
  <2>1. 0 \in K
    <3>1. f[0] \in Acc
      BY <1>4
    <3> HIDE DEF Acc
    <3> QED  BY <3>1
  <2>2. ASSUME NEW k \in Nat, k \in K
        PROVE  k + 1 \in K
    <3>1. CASE k + 1 <= n
      <4>1. k + 1 \in 1 .. n /\ k + 1 - 1 = k /\ f[k] \in Acc /\ stk[k + 1] \in Window
        BY <1>0, <2>2, <3>1
      <4>2. f[k + 1] = op(f[k], stk[k + 1])
        BY <1>5, <4>1
      <4>3. op(f[k], stk[k + 1]) \in Acc
        <5> HIDE DEF K
        <5> QED  BY <4>1 DEF op
      <4> HIDE DEF Acc
      <4> QED  BY <4>2, <4>3
    <3>2. CASE ~(k + 1 <= n)
      BY <3>2
    <3> QED  BY <3>1, <3>2
  <2>3. Nat \subseteq K
    <3> HIDE DEF K
    <3> QED  BY <2>1, <2>2, NatSetInduction
  <2> QED  BY <2>3
<1>8. f \in [0 .. n -> Acc]
  BY <1>7 DEF f
<1> QED  BY <1>4, <1>5, <1>6, <1>8 DEF op, Collecting, n

\* What Collect keeps: the windows of S, in their order.
LEMMA CollectKeeps ==
  ASSUME NEW stk \in Seq(Window), NEW S
  PROVE  /\ Collect(stk, S) \in Seq(Window)
         /\ \A i, j \in 1 .. Len(stk) :
              (i < j /\ stk[i] \in S /\ stk[j] \in S) =>
                Above(Collect(stk, S), stk[i], stk[j])
<1> DEFINE n == Len(stk)
<1>1. n \in Nat /\ stk \in [1 .. n -> Window]
  OBVIOUS
<1>2. PICK f : Collecting(f, stk, S) /\ Collect(stk, S) = f[n]
  BY CollectFold
<1> HIDE DEF n
<1> DEFINE Found(k) ==
             /\ \A j \in 1 .. k : stk[j] \in S => \E q \in DOMAIN f[k] : f[k][q] = stk[j]
             /\ \A i, j \in 1 .. k : (i < j /\ stk[i] \in S /\ stk[j] \in S) =>
                  Above(f[k], stk[i], stk[j])
           K == {k \in Nat : k <= n => Found(k)}
<1>3. 0 \in K
  <2>1. 1 .. 0 = {}
    OBVIOUS
  <2> QED  BY <2>1
<1>4. ASSUME NEW k \in Nat, k \in K
      PROVE  k + 1 \in K
  <2>1. SUFFICES ASSUME k + 1 <= n
                 PROVE  Found(k + 1)
    BY <1>4
  <2> DEFINE m == k + 1
             g == f[k]
  <2>2. /\ m \in 1 .. n /\ m \in Nat /\ m - 1 = k /\ Found(k) /\ g \in Seq(Window)
        /\ \A i \in 1 .. m : i \in 1 .. k \/ i = m
    <3>1. m \in 1 .. n /\ m \in Nat /\ m - 1 = k /\ Found(k) /\ k \in 0 .. n
      BY <1>1, <1>4, <2>1
    <3> HIDE DEF Found, K
    <3> QED  BY <1>2, <3>1 DEF Collecting, n
  <2>3. f[m] = IF stk[m] \in S THEN Append(g, stk[m]) ELSE g
    <3> HIDE DEF Found, K, m
    <3> QED  BY <1>2, <2>2 DEF Collecting, n
  <2>4. CASE stk[m] \notin S
    <3>1. f[m] = g
      BY <2>3, <2>4
    <3> HIDE DEF m, g, K
    <3> QED  BY <2>2, <2>4, <3>1 DEF g
  <2>5. CASE stk[m] \in S
    <3> DEFINE h == Append(g, stk[m])
    <3>1. f[m] = h
      BY <2>3, <2>5
    <3>2. /\ Len(g) \in Nat /\ DOMAIN g = 1 .. Len(g)
          /\ DOMAIN h = 1 .. Len(g) + 1 /\ h[Len(g) + 1] = stk[m]
          /\ \A q \in DOMAIN g : h[q] = g[q] /\ q \in DOMAIN h /\ q < Len(g) + 1
      <4> HIDE DEF g, m
      <4> QED  BY <2>2
    <3> HIDE DEF h, m, K
    <3>3. \A j \in 1 .. k : stk[j] \in S => \E q \in DOMAIN h : h[q] = stk[j]
      BY <2>2, <3>2
    <3>4. \E q \in DOMAIN h : h[q] = stk[m]
      BY <3>2
    <3>5. \A i, j \in 1 .. k : (i < j /\ stk[i] \in S /\ stk[j] \in S) =>
             Above(h, stk[i], stk[j])
      BY <2>2, <3>2 DEF Above
    <3>6. \A i \in 1 .. k : stk[i] \in S => Above(h, stk[i], stk[m])
      <4>1. ASSUME NEW i \in 1 .. k, stk[i] \in S
            PROVE  Above(h, stk[i], stk[m])
        <5>1. PICK q \in DOMAIN g : g[q] = stk[i]
          BY <2>2, <4>1
        <5>2. /\ q \in DOMAIN h /\ Len(g) + 1 \in DOMAIN h /\ q < Len(g) + 1
              /\ h[q] = stk[i] /\ h[Len(g) + 1] = stk[m]
          BY <3>2, <5>1
        <5> QED  BY <5>2 DEF Above
      <4> QED  BY <4>1
    <3>7. ASSUME NEW i \in 1 .. m, NEW j \in 1 .. m, i < j, stk[i] \in S, stk[j] \in S
          PROVE  Above(h, stk[i], stk[j])
      <4>1. i \in 1 .. k
        BY <2>2, <3>7
      <4> QED  BY <2>2, <3>5, <3>6, <3>7, <4>1
    <3>8. \A j \in 1 .. m : stk[j] \in S => \E q \in DOMAIN h : h[q] = stk[j]
      BY <2>2, <3>3, <3>4
    <3> QED  BY <3>1, <3>7, <3>8 DEF m
  <2> QED  BY <2>4, <2>5
<1>5. n \in K
  <2> HIDE DEF K
  <2>1. Nat \subseteq K
    BY <1>3, <1>4, NatSetInduction
  <2> QED  BY <1>1, <2>1
<1>6. Found(n)
  BY <1>1, <1>5
<1>7. n \in 0 .. n
  BY <1>1
<1> HIDE DEF K
<1> QED  BY <1>2, <1>6, <1>7 DEF n, Collecting

\* No window of s that lies above another one lies below it in t.
NoSwap(s, t) == \A a, b \in Window : Above(s, a, b) => ~Above(t, b, a)

LEMMA ListsNoSwap ==
  ASSUME NEW S, NEW s, Lists(s, S)
  PROVE  NoSwap(s, s)
<1>1. DOMAIN s = 1 .. Len(s) /\ Len(s) \in Nat
  BY DEF Lists
<1> SUFFICES ASSUME NEW i \in DOMAIN s, NEW j \in DOMAIN s, i < j,
                    NEW k \in DOMAIN s, NEW l \in DOMAIN s, k < l,
                    s[i] = s[l], s[j] = s[k]
             PROVE  FALSE
  BY DEF NoSwap, Above
<1>2. i = l /\ j = k
  BY DEF Lists
<1> QED  BY <1>1, <1>2

\* A command that only looks a window up swaps no two windows.
LEMMA FoundNoSwap ==
  ASSUME StackInv, NEW w \in Window
  PROVE  /\ NoSwap(stack, stack) /\ NoSwap(stack, FoundStack(w))
         /\ NoSwap(stack, RemoveFirst(FoundStack(w), w))
         /\ \A a, b : Above(stack, a, b) => Above(FoundStack(w), a, b)
<1> DEFINE found == FoundStack(w)
<1>1. Lists(stack, windows) /\ Lists(found, windows \cup {w})
  BY FoundLists DEF StackInv
<1>2. \A a, b : Above(stack, a, b) => Above(found, a, b)
  <2>1. Len(stack) \in Nat /\ stack \in Seq(windows)
    BY <1>1 DEF Lists
  <2>2. Boundary(stack, onTop) \in 1 .. Len(stack) + 1
    BY <2>1, BoundaryInRange
  <2> QED  BY <2>1, <2>2, InsertAbove DEF FoundStack, PushToStack
<1> HIDE DEF found
<1>3. NoSwap(stack, stack) /\ NoSwap(found, found)
  BY <1>1, ListsNoSwap
<1>4. NoSwap(stack, found)
  BY <1>2, <1>3 DEF NoSwap
<1>5. \A a, b : Above(RemoveFirst(found, w), a, b) => Above(found, a, b)
  BY <1>1, RemoveFirstAbove DEF Lists
<1>6. NoSwap(stack, RemoveFirst(found, w))
  BY <1>4, <1>5 DEF NoSwap
<1> QED  BY <1>2, <1>3, <1>4, <1>6 DEF found

\* What the proxy and the compositor keep of each surface.
SurfaceType ==
  /\ onTop \in [Window -> BOOLEAN]
  /\ buffer \in [Window -> BOOLEAN]
  /\ mapped \subseteq Window
  /\ siblings \in [Window -> Seq(Window)]
  /\ toplevels \in Seq(Window)
  /\ fault \in Fault
  /\ stale \in BOOLEAN

LEMMA SurfaceTypeStep ==
  ASSUME PoliteInv, SurfaceType, Next
  PROVE  SurfaceType'
<1> USE DEF SurfaceType, Dies, DiesIf, Fault, Shown, compositor
<1>0. \A forced, asked : UpdateRegions(forced, asked) => stale' = FALSE
  BY DEF UpdateRegions
<1>1. ASSUME NEW w \in Window, NEW rs \in Placement, NEW format \in Format,
             RegionShm(w, rs, format)
      PROVE  SurfaceType'
  BY <1>0, <1>1 DEF RegionShm, UpdateGeometry
<1>2. ASSUME NEW w \in Window, NEW rs \in Placement, RegionOther(w, rs)
      PROVE  SurfaceType'
  BY <1>0, <1>2 DEF RegionOther, UpdateGeometry
<1>3. ASSUME NEW w \in Window, HideWindow(w)
      PROVE  SurfaceType'
  BY <1>0, <1>3 DEF HideWindow
<1>4. ASSUME NEW w \in Window, NEW isToplevel \in BOOLEAN,
             NEW hasRects \in BOOLEAN, RepaintRegion(w, isToplevel, hasRects)
      PROVE  SurfaceType'
  <2> DEFINE p == FirstToplevelBelow(FoundStack(w), w)
  <2>1. p = NoWindow \/ p \in Window
    <3>1. Lists(FoundStack(w), windows \cup {w}) /\ windows \cup {w} \subseteq Window
      BY FoundLists DEF StackInv, PoliteInv
    <3> QED  BY <3>1, ToplevelBelowFound
  <2> HIDE DEF p
  <2>2. /\ UNCHANGED <<onTop, buffer>>
        /\ mapped' \in {mapped, mapped \cup {w}}
        /\ fault' \in {fault, "null_dereference", "use_after_free", "assert"}
        /\ stale' \in {stale, FALSE}
        /\ \/ UNCHANGED <<siblings, toplevels>>
           \/ (isToplevel \/ p # NoWindow) /\ CreateSurface(w, isToplevel, p)
    BY <1>0, <1>4 DEF RepaintRegion, p
  <2>3. ASSUME p \in Window
        PROVE  [siblings EXCEPT ![p] = <<w>> \o @] \in [Window -> Seq(Window)]
    BY <2>3
  <2>4. siblings' \in [Window -> Seq(Window)] /\ toplevels' \in Seq(Window)
    <3>1. CASE UNCHANGED <<siblings, toplevels>>
      BY <3>1
    <3>2. CASE isToplevel /\ CreateSurface(w, isToplevel, p)
      <4>1. siblings' = siblings /\ toplevels' = <<w>> \o toplevels
        BY <3>2 DEF CreateSurface
      <4>2. <<w>> \o toplevels \in Seq(Window)
        OBVIOUS
      <4> QED  BY <4>1, <4>2
    <3>3. CASE ~isToplevel /\ p \in Window /\ CreateSurface(w, isToplevel, p)
      <4>1. /\ siblings' = [siblings EXCEPT ![p] = <<w>> \o @]
            /\ toplevels' = toplevels
        BY <3>3 DEF CreateSurface
      <4>2. [siblings EXCEPT ![p] = <<w>> \o @] \in [Window -> Seq(Window)]
        BY <2>3, <3>3
      <4>3. toplevels \in Seq(Window)
        OBVIOUS
      <4> QED  BY ONLY <4>1, <4>2, <4>3
    <3> QED  BY <2>1, <2>2, <3>1, <3>2, <3>3
  <2> QED  BY <2>2, <2>4
<1>5. ASSUME NEW w \in Window, NEW dx \in Step, RegionMove(w, dx)
      PROVE  SurfaceType'
  BY <1>0, <1>5 DEF RegionMove, UpdateGeometry, OnlyFound
<1>6. ASSUME NEW w \in Window, RegionDestroy(w)
      PROVE  SurfaceType'
  <2>1. /\ onTop' = [onTop EXCEPT ![w] = FALSE]
        /\ buffer' = [buffer EXCEPT ![w] = FALSE]
        /\ mapped' = mapped \ {w}
        /\ siblings' = [x \in Window |-> IF x = w THEN <<>>
                                         ELSE RemoveFirst(siblings[x], w)]
        /\ toplevels' = RemoveFirst(toplevels, w)
        /\ fault' = fault /\ stale' = FALSE
    BY <1>0, <1>6 DEF RegionDestroy
  <2>2. /\ \A x \in Window : RemoveFirst(siblings[x], w) \in Seq(Window)
        /\ toplevels' \in Seq(Window)
    BY <2>1, RemoveFirstSeq
  <2>3. siblings' \in [Window -> Seq(Window)]
    <3>1. <<>> \in Seq(Window)
      OBVIOUS
    <3> QED  BY <2>1, <2>2, <3>1
  <2>4. onTop' \in [Window -> BOOLEAN] /\ buffer' \in [Window -> BOOLEAN]
    BY <2>1
  <2>5. mapped' \subseteq Window /\ fault' \in Fault /\ stale' \in BOOLEAN
    BY <2>1
  <2> QED  BY ONLY <2>2, <2>3, <2>4, <2>5 DEF SurfaceType
<1>7. ASSUME NEW w \in Window, NEW altitude \in Altitude,
             NEW fixed \in BOOLEAN, ChangeAltitude(w, altitude, fixed)
      PROVE  SurfaceType'
  <2>1. \/ /\ UNCHANGED <<onTop, siblings, toplevels, stale>>
           /\ fault' \in {"use_after_free", "assert"}
        \/ /\ onTop' = [onTop EXCEPT ![w] = @ \/ (fixed /\ altitude = "stays_on_top")]
           /\ toplevels' = ReorderToplevels(stack')
           /\ siblings' \in {siblings, ReorderSubsurfaces(stack', parent[w])}
           /\ fault' = fault /\ stale' = FALSE
    BY <1>0, <1>7 DEF ChangeAltitude
  <2>2. UNCHANGED <<buffer, mapped>>
    BY <1>7 DEF ChangeAltitude
  <2>3. stack' \in Seq(Window)
    BY StackStep, SeqMonotonic DEF PoliteInv, StackInv, Lists
  <2>4. /\ ReorderToplevels(stack') \in Seq(Window)
        /\ ReorderSubsurfaces(stack', parent[w]) \in [Window -> Seq(Window)]
    <3>1. \A S : Collect(stack', S) \in Seq(Window)
      BY <2>3, CollectKeeps
    <3> QED  BY <3>1 DEF ReorderToplevels, ReorderSubsurfaces
  <2>5. onTop' \in [Window -> BOOLEAN]
    BY <2>1
  <2>6. siblings' \in [Window -> Seq(Window)] /\ toplevels' \in Seq(Window)
    <3> HIDE DEF SurfaceType
    <3> QED  BY <2>1, <2>4 DEF SurfaceType
  <2>7. fault' \in Fault /\ stale' \in BOOLEAN
    BY <2>1
  <2>8. buffer' \in [Window -> BOOLEAN] /\ mapped' \subseteq Window
    BY <2>2
  <2> QED  BY ONLY <2>5, <2>6, <2>7, <2>8 DEF SurfaceType
<1>8. ASSUME NEW w \in Window, NEW isOpaque \in BOOLEAN, SetOpacity(w, isOpaque)
      PROVE  SurfaceType'
  BY <1>0, <1>8 DEF SetOpacity
<1>9. ASSUME NEW w \in Window, LookUpOnly(w)
      PROVE  SurfaceType'
  BY <1>0, <1>9 DEF LookUpOnly, OnlyFound
<1> QED
  BY <1>1, <1>2, <1>3, <1>4, <1>5, <1>6, <1>7, <1>8, <1>9 DEF Next

\* What a step that swaps two windows tells the compositor.
Restacked ==
  \A a, b \in Window :
    (Above(stack, a, b) /\ Above(stack', b, a)) =>
      /\ (parent[a] \in Window /\ parent[a] = parent[b]) =>
            Above(siblings'[parent[a]], b, a)
      /\ (QtShell /\ role[a] = "toplevel" /\ role[b] = "toplevel") =>
            Above(toplevels', b, a)

\* Raising or lowering w leaves the others as they lie.
LEMMA OthersStay ==
  ASSUME StackInv, NEW w \in Window, NEW top, NEW a \in Window, NEW b \in Window,
         a # w, b # w, Above(stack, a, b)
  PROVE  /\ Above(LowerWindow(FoundStack(w), w), a, b)
         /\ Above(RaiseWindow(FoundStack(w), top, w), a, b)
<1> DEFINE found == FoundStack(w)
           rest == RemoveFirst(found, w)
           S == windows \cup {w}
<1>1. Lists(found, S) /\ Above(found, a, b)
  BY FoundLists, FoundNoSwap
<1> HIDE DEF found, S
<1>2. rest \in Seq(S) /\ Above(rest, a, b)
  <2>1. found \in Seq(S)
    BY <1>1 DEF Lists
  <2> QED  BY <1>1, <2>1, RemoveFirstSeq, RemoveFirstAbove
<1> HIDE DEF rest
<1>3. Above(<<w>> \o rest, a, b) /\ Above(Append(rest, w), a, b)
  BY <1>2, EndsAbove
<1>4. Above(PushToStack(rest, top, w), a, b)
  <2>1. Boundary(rest, top) \in 1 .. Len(rest) + 1
    BY <1>2, BoundaryInRange
  <2> QED  BY <1>2, <2>1, InsertAbove DEF PushToStack
<1> QED  BY <1>3, <1>4 DEF LowerWindow, RaiseWindow, found, rest

LEMMA NoSwapRestacked ==
  ASSUME StackInv, NEW w \in Window,
         \/ FindOrAllocate(w)
         \/ stack' = stack
         \/ stack' = RemoveFirst(FoundStack(w), w)
  PROVE  Restacked
<1>1. NoSwap(stack, stack')
  BY FoundNoSwap DEF FindOrAllocate
<1> QED  BY <1>1 DEF NoSwap, Restacked

LEMMA RestackStep ==
  ASSUME PoliteInv, SurfaceType, Next
  PROVE  Restacked
<1>0. StackInv
  BY DEF PoliteInv
<1> USE NoSwapRestacked DEF Dies, DiesIf
<1>1. ASSUME NEW w \in Window, NEW rs \in Placement, NEW format \in Format,
             RegionShm(w, rs, format)
      PROVE  Restacked
  BY <1>0, <1>1 DEF RegionShm
<1>2. ASSUME NEW w \in Window, NEW rs \in Placement, RegionOther(w, rs)
      PROVE  Restacked
  BY <1>0, <1>2 DEF RegionOther
<1>3. ASSUME NEW w \in Window, HideWindow(w)
      PROVE  Restacked
  BY <1>0, <1>3 DEF HideWindow
<1>4. ASSUME NEW w \in Window, NEW isToplevel \in BOOLEAN,
             NEW hasRects \in BOOLEAN, RepaintRegion(w, isToplevel, hasRects)
      PROVE  Restacked
  BY <1>0, <1>4 DEF RepaintRegion
<1>5. ASSUME NEW w \in Window, NEW dx \in Step, RegionMove(w, dx)
      PROVE  Restacked
  BY <1>0, <1>5 DEF RegionMove, OnlyFound
<1>6. ASSUME NEW w \in Window, RegionDestroy(w)
      PROVE  Restacked
  BY <1>0, <1>6 DEF RegionDestroy
<1>7. ASSUME NEW w \in Window, NEW altitude \in Altitude,
             NEW fixed \in BOOLEAN, ChangeAltitude(w, altitude, fixed)
      PROVE  Restacked
  <2> DEFINE top == [onTop EXCEPT ![w] = @ \/ (fixed /\ altitude = "stays_on_top")]
  <2>1. CASE stack' = stack
    BY <1>0, <2>1
  <2>2. CASE /\ stack' \in {LowerWindow(FoundStack(w), w),
                            RaiseWindow(FoundStack(w), top, w)}
             /\ toplevels' = ReorderToplevels(stack')
             /\ siblings' = IF parent[w] = NoWindow THEN siblings
                            ELSE ReorderSubsurfaces(stack', parent[w])
    <3> SUFFICES ASSUME NEW a \in Window, NEW b \in Window,
                        Above(stack, a, b), Above(stack', b, a)
                 PROVE  /\ (parent[a] \in Window /\ parent[a] = parent[b]) =>
                             Above(siblings'[parent[a]], b, a)
                        /\ (QtShell /\ role[a] = "toplevel" /\ role[b] = "toplevel") =>
                             Above(toplevels', b, a)
      BY DEF Restacked
    <3>1. stack' \in Seq(Window) /\ Lists(stack', windows') /\ DOMAIN stack' = 1 .. Len(stack')
      BY StackStep, SeqMonotonic DEF PoliteInv, StackInv, Lists
    <3>2. ASSUME NEW S, a \in S, b \in S
          PROVE  Above(Collect(stack', S), b, a)
      <4>1. PICK i \in 1 .. Len(stack'), j \in 1 .. Len(stack') :
              i < j /\ stack'[i] = b /\ stack'[j] = a
        BY <3>1 DEF Above
      <4> QED  BY <3>1, <3>2, <4>1, CollectKeeps
    <3>3. a = w \/ b = w
      <4>1. ASSUME a # w, b # w
            PROVE  Above(stack', a, b)
        <5> HIDE DEF top
        <5> QED  BY <1>0, <2>2, <4>1, OthersStay
      <4>2. NoSwap(stack', stack')
        BY <3>1, ListsNoSwap
      <4> QED  BY <4>1, <4>2 DEF NoSwap
    <3>4. ASSUME parent[a] \in Window, parent[a] = parent[b]
          PROVE  Above(siblings'[parent[a]], b, a)
      <4> DEFINE S == {x \in Window : parent[x] = parent[w]}
      <4>1. parent[w] = parent[a] /\ parent[w] \in Window /\ a \in S /\ b \in S
        BY <3>3, <3>4
      <4>2. siblings'[parent[w]] = Collect(stack', S)
        BY <2>2, <4>1 DEF ReorderSubsurfaces, SurfaceType
      <4> HIDE DEF S
      <4> QED  BY <3>2, <4>1, <4>2
    <3>5. ASSUME QtShell, role[a] = "toplevel", role[b] = "toplevel"
          PROVE  Above(toplevels', b, a)
      <4> DEFINE S == {x \in Window : role[x] = "toplevel"}
      <4>1. a \in S /\ b \in S
        BY <3>5
      <4>2. toplevels' = Collect(stack', S)
        BY <2>2, <3>5 DEF ReorderToplevels
      <4> HIDE DEF S
      <4> QED  BY <3>2, <4>1, <4>2
    <3> QED  BY <3>4, <3>5
  <2> HIDE DEF top
  <2> QED  BY <1>7, <2>1, <2>2 DEF ChangeAltitude, top
<1>8. ASSUME NEW w \in Window, NEW isOpaque \in BOOLEAN, SetOpacity(w, isOpaque)
      PROVE  Restacked
  BY <1>0, <1>8 DEF SetOpacity
<1>9. ASSUME NEW w \in Window, LookUpOnly(w)
      PROVE  Restacked
  BY <1>0, <1>9 DEF LookUpOnly, OnlyFound
<1> QED
  BY <1>1, <1>2, <1>3, <1>4, <1>5, <1>6, <1>7, <1>8, <1>9 DEF Next

LEMMA SurfaceTypeInvariance == Spec => []SurfaceType
<1>1. Init => SurfaceType
  <2>1. <<>> \in Seq(Window)
    OBVIOUS
  <2>2. [x \in Window |-> <<>>] \in [Window -> Seq(Window)]
    BY <2>1
  <2> QED  BY <2>1, <2>2 DEF Init, SurfaceType, Fault
<1>2. PoliteInv /\ SurfaceType /\ [Next]_vars => SurfaceType'
  <2>1. SurfaceType /\ UNCHANGED vars => SurfaceType'
    BY DEF vars, SurfaceType
  <2> QED  BY <2>1, SurfaceTypeStep
<1> QED  BY <1>1, <1>2, PoliteInvariance, PTL DEF Spec

\* Whenever a command puts a window over another one in the stack, the
\* compositor is told (client.c:220-272).
THEOREM RestackIsTold == Spec => RestackReachesCompositor
<1>1. PoliteInv /\ SurfaceType /\ [Next]_vars => [Restacked]_vars
  BY RestackStep
<1>2. Spec => [][Restacked]_vars
  BY <1>1, PoliteInvariance, SurfaceTypeInvariance, PTL DEF Spec
<1> QED  BY <1>2 DEF RestackReachesCompositor, Restacked
----------------------------------------------------------------------------
(* Visible regions from command to command. *)

\* What is not in the map has no rectangles, the client has been told every
\* region, and only an opacity change leaves the regions behind.
RegionInv ==
  /\ \A x \in Window \ windows : geometry[x] = <<>>
  /\ visible \in [Window -> Region]
  /\ told = visible
  /\ stale \/ visible = Allocations(stack, geometry, opaque)

LEMMA GeometryBoxes ==
  ASSUME NEW geo \in [Window -> Placement \cup {<<>>}]
  PROVE  geo \in [Window -> Seq(Box)]
<1>1. <<>> \in Seq(Box)
  OBVIOUS
<1> QED  BY <1>1, PlacementAssumption DEF Box

\* Regions are right again once they have been computed anew.
LEMMA UpdateRegionsStep ==
  ASSUME RegionInv, BookType', StackInv', NEW forced, NEW asked,
         UpdateRegions(forced, asked),
         \A x \in Window \ windows' : geometry'[x] = <<>>,
         \A x \in Window : \/ x \in forced
                           \/ asked[x] = told[x]
                           \/ asked[x] = <<>> /\ x \notin windows'
  PROVE  RegionInv'
<1> DEFINE regions == Allocations(stack', geometry', opaque')
<1>1. geometry' \in [Window -> Seq(Box)]
  BY GeometryBoxes DEF BookType
<1>2. Lists(stack', windows') /\ windows' \subseteq Window
  BY DEF StackInv
<1>3. /\ regions \in [Window -> Region]
      /\ Allocated(regions, stack', opaque', Len(stack'))
  BY <1>1, <1>2, AllocationsCorrect
<1>4. visible' = regions
  BY DEF UpdateRegions
<1> HIDE DEF regions
<1>5. \A x \in Window : x \notin windows' => visible'[x] = <<>>
  <2>1. \A x : x \notin windows' => \A i \in 1 .. Len(stack') : stack'[i] # x
    BY <1>2 DEF Lists
  <2> QED  BY <1>3, <1>4, <2>1 DEF Allocated
<1>6. told' = [x \in Window |-> IF x \in forced \/ visible'[x] # visible[x]
                                THEN visible'[x] ELSE asked[x]]
  BY DEF UpdateRegions
<1>7. \A x \in Window : told'[x] = visible'[x]
  BY <1>5, <1>6 DEF RegionInv
<1>8. visible' \in [Window -> Region] /\ told' = visible'
  BY <1>3, <1>4, <1>6, <1>7
<1> QED  BY <1>4, <1>8 DEF RegionInv, regions

\* A window that is allocated because a command names it gets no region and
\* takes none from the others.
LEMMA FoundRegions ==
  ASSUME RegionInv, BookType, StackInv, NEW w \in Window
  PROVE  Allocations(FoundStack(w), geometry, opaque)
           = Allocations(stack, geometry, opaque)
<1>1. CASE w \in windows
  BY <1>1 DEF FoundStack
<1>2. CASE w \notin windows
  <2>1. /\ Lists(stack, windows) /\ windows \subseteq Window
        /\ geometry[w] = <<>> /\ geometry \in [Window -> Seq(Box)]
    BY <1>2, GeometryBoxes DEF BookType, StackInv, RegionInv
  <2>2. Boundary(stack, onTop) \in 1 .. Len(stack) + 1
    BY <2>1, BoundaryInRange DEF Lists
  <2>3. FoundStack(w) = InsertAt(stack, Boundary(stack, onTop), w)
    BY <1>2 DEF FoundStack, PushToStack
  <2> QED  BY <1>2, <2>1, <2>2, <2>3, AllocationsInsert
<1> QED  BY <1>1, <1>2

LEMMA OnlyFoundRegions ==
  ASSUME RegionInv, BookType, StackInv, NEW w \in Window, FindOrAllocate(w),
         UNCHANGED <<geometry, visible, told>>,
         \/ stale'
         \/ UNCHANGED opaque /\ (stale => stale')
  PROVE  RegionInv'
BY FoundRegions DEF FindOrAllocate, RegionInv

LEMMA RegionStep ==
  ASSUME PoliteInv, PoliteInv', RegionInv, Next
  PROVE  RegionInv'
<1>0. /\ BookType /\ BookType' /\ StackInv /\ StackInv'
      /\ geometry \in [Window -> Placement \cup {<<>>}]
      /\ told \in [Window -> Region]
  BY DEF PoliteInv, BookType, RegionInv
<1>d. ASSUME NEW how, Dies(how)
      PROVE  RegionInv'
  BY <1>d DEF Dies, RegionInv
<1>u. ASSUME NEW w \in Window, NEW forced, NEW asked, UpdateRegions(forced, asked),
             \/ asked = told
             \/ asked = Emptied(w) /\ (w \in forced \/ w \notin windows'),
             \A x \in Window \ windows' : geometry'[x] = <<>>
      PROVE  RegionInv'
  <2>1. \A x \in Window : Emptied(w)[x] = IF x = w THEN <<>> ELSE told[x]
    BY <1>0 DEF Emptied
  <2>2. \A x \in Window : \/ x \in forced
                          \/ asked[x] = told[x]
                          \/ asked[x] = <<>> /\ x \notin windows'
    BY <1>u, <2>1
  <2> QED  BY <1>0, <1>u, <2>2, UpdateRegionsStep
<1>g. ASSUME NEW w \in Window, windows' = windows \cup {w},
             \E rs : geometry' \in {geometry, [geometry EXCEPT ![w] = rs]}
      PROVE  \A x \in Window \ windows' : geometry'[x] = <<>>
  BY <1>0, <1>g DEF RegionInv
<1>1. ASSUME NEW w \in Window, NEW rs \in Placement, NEW format \in Format,
             RegionShm(w, rs, format)
      PROVE  RegionInv'
  <2>1. \/ \E how : Dies(how)
        \/ /\ windows' = windows \cup {w}
           /\ geometry' = [geometry EXCEPT ![w] = rs]
           /\ UpdateRegions({w}, Emptied(w))
    BY <1>1 DEF RegionShm, DiesIf, FindOrAllocate, UpdateGeometry
  <2> QED  BY <1>d, <1>g, <1>u, <2>1
<1>2. ASSUME NEW w \in Window, NEW rs \in Placement, RegionOther(w, rs)
      PROVE  RegionInv'
  <2>1. \/ \E how : Dies(how)
        \/ /\ windows' = windows \cup {w}
           /\ geometry' = [geometry EXCEPT ![w] = rs]
           /\ UpdateRegions({w}, Emptied(w))
    BY <1>2 DEF RegionOther, DiesIf, FindOrAllocate, UpdateGeometry
  <2> QED  BY <1>d, <1>g, <1>u, <2>1
<1>3. ASSUME NEW w \in Window, HideWindow(w)
      PROVE  RegionInv'
  <2>1. \/ \E how : Dies(how)
        \/ /\ windows' = windows \cup {w}
           /\ geometry' = [geometry EXCEPT ![w] = <<>>]
           /\ UpdateRegions({w}, Emptied(w))
    BY <1>3 DEF HideWindow, DiesIf, FindOrAllocate
  <2> QED  BY <1>d, <1>g, <1>u, <2>1
<1>4. ASSUME NEW w \in Window, NEW isToplevel \in BOOLEAN,
             NEW hasRects \in BOOLEAN, RepaintRegion(w, isToplevel, hasRects)
      PROVE  RegionInv'
  <2>1. \/ \E how : Dies(how)
        \/ /\ windows' = windows \cup {w}
           /\ geometry' = geometry
           /\ UpdateRegions({}, told)
    BY <1>4 DEF RepaintRegion, DiesIf, FindOrAllocate
  <2> QED  BY <1>d, <1>g, <1>u, <2>1
<1>5. ASSUME NEW w \in Window, NEW dx \in Step, RegionMove(w, dx)
      PROVE  RegionInv'
  <2> DEFINE rs == Translate(geometry[w], dx)
  <2>1. \/ \E how : Dies(how)
        \/ OnlyFound(w)
        \/ /\ windows' = windows \cup {w}
           /\ geometry' = [geometry EXCEPT ![w] = rs]
           /\ UpdateRegions({}, told)
    BY <1>5 DEF RegionMove, DiesIf, FindOrAllocate, UpdateGeometry
  <2> HIDE DEF rs
  <2>2. CASE OnlyFound(w)
    BY <1>0, <2>2, OnlyFoundRegions DEF OnlyFound
  <2> QED  BY <1>d, <1>g, <1>u, <2>1, <2>2
<1>6. ASSUME NEW w \in Window, RegionDestroy(w)
      PROVE  RegionInv'
  <2>1. /\ windows' = windows \ {w}
        /\ geometry' = [geometry EXCEPT ![w] = <<>>]
        /\ UpdateRegions({}, Emptied(w))
    BY <1>6 DEF RegionDestroy
  <2>2. \A x \in Window \ windows' : geometry'[x] = <<>>
    BY <1>0, <2>1 DEF RegionInv
  <2>3. w \notin windows'
    BY <2>1
  <2> QED  BY <1>u, <2>1, <2>2, <2>3
<1>7. ASSUME NEW w \in Window, NEW altitude \in Altitude,
             NEW fixed \in BOOLEAN, ChangeAltitude(w, altitude, fixed)
      PROVE  RegionInv'
  <2>1. \/ \E how : Dies(how)
        \/ /\ windows' = windows \cup {w}
           /\ geometry' = geometry
           /\ UpdateRegions({w}, Emptied(w))
    BY <1>7 DEF ChangeAltitude, DiesIf
  <2> QED  BY <1>d, <1>g, <1>u, <2>1
<1>8. ASSUME NEW w \in Window, NEW isOpaque \in BOOLEAN, SetOpacity(w, isOpaque)
      PROVE  RegionInv'
  <2>1. \/ \E how : Dies(how)
        \/ /\ FindOrAllocate(w)
           /\ UNCHANGED <<geometry, visible, told>>
           /\ opaque' = [opaque EXCEPT ![w] = isOpaque]
           /\ stale' = (stale \/ isOpaque # opaque[w])
    BY <1>8 DEF SetOpacity
  <2>2. CASE isOpaque = opaque[w]
    <3>1. [opaque EXCEPT ![w] = isOpaque] = opaque
      BY <1>0, <2>2 DEF BookType
    <3> QED  BY <1>0, <1>d, <2>1, <2>2, <3>1, OnlyFoundRegions
  <2>3. CASE isOpaque # opaque[w]
    BY <1>0, <1>d, <2>1, <2>3, OnlyFoundRegions
  <2> QED  BY <2>2, <2>3
<1>9. ASSUME NEW w \in Window, LookUpOnly(w)
      PROVE  RegionInv'
  BY <1>0, <1>9, OnlyFoundRegions DEF LookUpOnly, OnlyFound
<1> QED
  BY <1>1, <1>2, <1>3, <1>4, <1>5, <1>6, <1>7, <1>8, <1>9 DEF Next

LEMMA RegionInvariance == Spec => []RegionInv
<1>1. Init => RegionInv
  <2>1. <<>> \in Region
    BY DEF Region
  <2>2. Allocations(<<>>, [x \in Window |-> <<>>], [x \in Window |-> TRUE])
          = [x \in Window |-> <<>>]
    <3> DEFINE geo == [x \in Window |-> <<>>]
               opq == [x \in Window |-> TRUE]
               regions == Allocations(<<>>, geo, opq)
    <3>1. Lists(<<>>, {}) /\ {} \subseteq Window /\ geo \in [Window -> Seq(Box)]
      BY DEF Lists
    <3>2. regions \in [Window -> Region] /\ Allocated(regions, <<>>, opq, Len(<<>>))
      <4> HIDE DEF geo, opq
      <4> QED  BY <3>1, AllocationsCorrect
    <3> HIDE DEF regions
    <3>3. \A x \in Window : regions[x] = <<>>
      <4>1. \A i \in 1 .. Len(<<>>) : FALSE
        OBVIOUS
      <4> QED  BY <3>2, <4>1 DEF Allocated
    <3>4. regions = [x \in Window |-> <<>>]
      BY <3>2, <3>3
    <3> QED  BY <3>4 DEF regions
  <2> QED  BY <2>1, <2>2 DEF Init, RegionInv
<1>2. PoliteInv /\ PoliteInv' /\ RegionInv /\ [Next]_vars => RegionInv'
  <2>1. RegionInv /\ UNCHANGED vars => RegionInv'
    BY DEF vars, RegionInv
  <2> QED  BY <2>1, RegionStep
<1> QED  BY <1>1, <1>2, PoliteInvariance, PTL DEF Spec

\* The client's clip regions are the proxy's visible regions after every
\* command (client.c:321-335).
THEOREM ClipRegionsTold == Spec => []ToldIsVisible
<1>1. RegionInv => ToldIsVisible
  BY DEF RegionInv, ToldIsVisible
<1> QED  BY <1>1, RegionInvariance, PTL

\* Nothing but an opacity change leaves the regions behind the stack, the
\* geometries and the opacities they follow from (proxy.c:459-466).
THEOREM RegionsFresh == Spec => []FreshUnlessOpacity
<1>1. RegionInv => FreshUnlessOpacity
  BY DEF RegionInv, FreshUnlessOpacity
<1> QED  BY <1>1, RegionInvariance, PTL

\* An opaque window shares no cell with a window below it, for any list of
\* rectangles a client may ask for (client.c:289-355).
THEOREM OpaqueOccludes == Spec => []OpaqueOccludesCells
<1>1. PoliteInv /\ RegionInv => OpaqueOccludesCells
  <2> SUFFICES ASSUME PoliteInv, RegionInv, ~stale
               PROVE  OpaqueOccludesCells
    BY DEF OpaqueOccludesCells
  <2>1. /\ Lists(stack, windows) /\ windows \subseteq Window
        /\ DOMAIN stack = 1 .. Len(stack)
    BY DEF PoliteInv, StackInv, Lists
  <2>0. geometry \in [Window -> Seq(Box)]
    BY GeometryBoxes DEF PoliteInv, BookType
  <2>2. Allocated(Allocations(stack, geometry, opaque), stack, opaque, Len(stack))
    BY <2>0, <2>1, AllocationsCorrect
  <2>3. visible = Allocations(stack, geometry, opaque)
    BY DEF RegionInv
  <2> QED  BY ONLY <2>1, <2>2, <2>3 DEF Allocated, OpaqueOccludesCells
<1> QED  BY <1>1, PoliteInvariance, RegionInvariance, PTL

\* Every variable of the proxy keeps its type, and no region event names a
\* column off the screen (client.c:318).
THEOREM TypesCorrect == Spec => []TypeOK
<1>1. PoliteInv /\ SurfaceType /\ RegionInv => TypeOK
  <2> SUFFICES ASSUME PoliteInv, SurfaceType, RegionInv
               PROVE  TypeOK
    OBVIOUS
  <2>1. windows \subseteq Window /\ stack \in Seq(Window)
    BY SeqMonotonic DEF PoliteInv, StackInv, Lists
  <2>2. BookType /\ SurfaceType
    BY DEF PoliteInv
  <2>3. DOMAIN visible = Window /\ DOMAIN told = Window
    BY DEF RegionInv
  <2>4. ASSUME NEW w \in Window
        PROVE  ColumnsOf(visible[w]) \subseteq 0 .. ScreenWidth - 1
    <3>1. visible[w] \in Seq(OnScreen(ScreenWidth - 1))
      BY DEF RegionInv, Region
    <3>2. \A i \in DOMAIN visible[w] : visible[w][i] \in OnScreen(ScreenWidth - 1)
      BY <3>1
    <3>3. \A r \in OnScreen(ScreenWidth - 1) : Columns(r) \subseteq 0 .. ScreenWidth - 1
      BY DEF OnScreen, Columns
    <3> QED  BY <3>2, <3>3 DEF ColumnsOf
  <2> QED  BY ONLY <2>1, <2>2, <2>3, <2>4 DEF TypeOK, BookType, SurfaceType
<1> QED  BY <1>1, PoliteInvariance, SurfaceTypeInvariance, RegionInvariance, PTL
=============================================================================
