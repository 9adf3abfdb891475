-------------------------- MODULE EventLoopProofs --------------------------
(***************************************************************************)
(* Theorems about EventLoop, for any clients, commands and sizes of        *)
(* packets: no roundtrip happens between a prepared read and its end; the  *)
(* bytes of a client, wherever they are on their way, are the packets it   *)
(* has sent and the proxy has not completed; a client is only freed under  *)
(* the loop when it sends on after a command that ends its connection; and *)
(* each synchronous command is answered once, its event first.             *)
(*                                                                         *)
(* The stream of a client is described byte by byte, by what may follow a  *)
(* byte in it (Follows), so that taking a packet off its front and         *)
(* appending one to it are facts about neighbours.                         *)
(***************************************************************************)
EXTENDS EventLoop, SequenceLemmas, TLAPS

----------------------------------------------------------------------------
(* The reader of one connection, for packets of any sizes. *)

\* The bytes of a packet.
Length(k) == HeaderSize + SimpleLen(k) + RawLen(k)

LEMMA LengthIsPositive ==
  ASSUME NEW k \in Kind
  PROVE  SimpleLen(k) \in Nat /\ RawLen(k) \in Nat /\ Length(k) \in Nat \ {0}
BY PacketAssumption DEF Length

Held(r) == r.header \o r.simple \o r.raw

\* A section is begun when those before it are complete.
Filled(r) ==
  /\ r \in Reader
  /\ r.state = "header" =>
       Len(r.header) < HeaderSize /\ r.simple = <<>> /\ r.raw = <<>>
  /\ r.state # "header" => Len(r.header) = HeaderSize
  /\ r.state = "simple" =>
       Len(r.simple) < SimpleLen(r.header[1].kind) /\ r.raw = <<>>
  /\ r.state \in {"raw", "done"} => Len(r.simple) = SimpleLen(r.header[1].kind)
  /\ r.state = "raw" => Len(r.raw) < RawLen(r.header[1].kind)
  /\ r.state = "done" => Len(r.raw) = RawLen(r.header[1].kind)

LEMMA FreshFilled == Filled(Fresh) /\ Held(Fresh) = <<>>
BY PacketAssumption DEF Filled, Fresh, Reader, Sections, Held

\* What the three sections come to.
Fields(r, state, header, simple, raw) ==
  r \in Reader /\ r.state = state /\ r.header = header /\ r.simple = simple /\ r.raw = raw

LEMMA PutHeader ==
  ASSUME NEW r \in Reader, NEW bytes \in Seq(Byte), NEW s, s = "header"
  PROVE  Fields([r EXCEPT ![s] = bytes], r.state, bytes, r.simple, r.raw)
BY DEF Fields, Reader, Sections

LEMMA PutSimple ==
  ASSUME NEW r \in Reader, NEW bytes \in Seq(Byte), NEW s, s = "simple"
  PROVE  Fields([r EXCEPT ![s] = bytes], r.state, r.header, bytes, r.raw)
BY DEF Fields, Reader, Sections

LEMMA PutRaw ==
  ASSUME NEW r \in Reader, NEW bytes \in Seq(Byte), NEW s, s = "raw"
  PROVE  Fields([r EXCEPT ![s] = bytes], r.state, r.header, r.simple, bytes)
BY DEF Fields, Reader, Sections

LEMMA PutState ==
  ASSUME NEW r \in Reader, NEW state \in Sections \cup {"done"}
  PROVE  Fields([r EXCEPT !.state = state], state, r.header, r.simple, r.raw)
BY DEF Fields, Reader, Sections

\* One turn of the loop, from a reader whose current section s holds have and
\* needs need more bytes.
TurnTo(f, s, have, need) ==
  LET take == IF Len(f.rest) < need THEN Len(f.rest) ELSE need
      next == [f.reader EXCEPT ![s] = have \o SubSeq(f.rest, 1, take)]
  IN  [reader |-> IF take = need THEN [next EXCEPT !.state = After(next)] ELSE next,
       rest   |-> SubSeq(f.rest, take + 1, Len(f.rest))]

LEMMA TurnIs ==
  ASSUME NEW f \in [reader : Reader, rest : Seq(Byte)]
  PROVE  Turn[f] = IF f.rest = <<>> \/ f.reader.state = "done" THEN f
                   ELSE TurnTo(f, f.reader.state, f.reader[f.reader.state],
                               Size(f.reader, f.reader.state)
                                 - Len(f.reader[f.reader.state]))
BY DEF Turn, TurnTo

\* The current section is complete.
Complete(r) ==
  /\ r \in Reader /\ r.state \in Sections
  /\ Len(r.header) = HeaderSize
  /\ r.state = "header" => r.simple = <<>>
  /\ r.state # "header" => Len(r.simple) = SimpleLen(r.header[1].kind)
  /\ r.state # "raw" => r.raw = <<>>
  /\ r.state = "raw" => Len(r.raw) = RawLen(r.header[1].kind)

LEMMA AfterFills ==
  ASSUME NEW r, Complete(r)
  PROVE  /\ Filled([r EXCEPT !.state = After(r)])
         /\ Held([r EXCEPT !.state = After(r)]) = Held(r)
<1> DEFINE k == r.header[1].kind
           to == After(r)
           new == [r EXCEPT !.state = to]
<1>1. r \in Reader /\ r.header \in Seq(Byte) /\ r.header[1] \in Byte
  BY PacketAssumption DEF Complete, Reader
<1>2. k \in Kind /\ SimpleLen(k) \in Nat /\ RawLen(k) \in Nat
  <2>1. k \in Kind
    BY <1>1 DEF Byte
  <2> QED  BY <2>1, LengthIsPositive
<1>3. Size(r, "simple") = SimpleLen(k) /\ Size(r, "raw") = RawLen(k)
  BY DEF Size
<1> HIDE DEF k
<1>4. to = IF r.state = "header" /\ SimpleLen(k) > 0 THEN "simple"
           ELSE IF r.state \in {"header", "simple"} /\ RawLen(k) > 0 THEN "raw"
           ELSE "done"
  BY <1>3 DEF After
<1> HIDE DEF to
<1> USE DEF k
<1>5. to \in Sections \cup {"done"} /\ to # "header"
  BY <1>4 DEF Sections
<1>6. Fields(new, to, r.header, r.simple, r.raw)
  BY <1>1, <1>5, PutState
<1>7. Len(<<>>) = 0
  OBVIOUS
<1> HIDE DEF new
<1>8. new \in Reader /\ new.state = to /\ new.header = r.header
      /\ new.simple = r.simple /\ new.raw = r.raw
  BY <1>6 DEF Fields
<1>9. Held(new) = Held(r)
  BY <1>8 DEF Held
<1>10. /\ Len(r.header) = HeaderSize
       /\ to = "simple" => r.simple = <<>> /\ r.raw = <<>> /\ 0 < SimpleLen(k)
       /\ to # "simple" => Len(r.simple) = SimpleLen(k)
       /\ to = "raw" => r.raw = <<>> /\ 0 < RawLen(k)
       /\ to = "done" => Len(r.raw) = RawLen(k)
  BY <1>2, <1>4, <1>7 DEF Complete, Sections
<1> HIDE DEF k
<1>11. new.header[1].kind = k
  BY <1>8 DEF k
<1>12. Filled(new)
  BY <1>5, <1>7, <1>8, <1>10, <1>11 DEF Filled
<1> QED  BY <1>9, <1>12 DEF new, to

\* A turn moves bytes from the rest to the reader.
Goes(g, r, data) ==
  /\ g \in [reader : Reader, rest : Seq(Byte)]
  /\ Filled(g.reader)
  /\ Held(g.reader) \o g.rest = Held(r) \o data

LEMMA TurnKeeps ==
  ASSUME NEW r, Filled(r), NEW data \in Seq(Byte)
  PROVE  Goes(Turn[[reader |-> r, rest |-> data]], r, data)
<1> DEFINE f == [reader |-> r, rest |-> data]
<1>0. f \in [reader : Reader, rest : Seq(Byte)] /\ f.reader = r /\ f.rest = data
  BY DEF Filled
<1>1. CASE data = <<>> \/ r.state = "done"
  BY <1>0, <1>1, TurnIs DEF Goes
<1>2. CASE data # <<>> /\ r.state # "done"
  <2> DEFINE s == r.state
             have == r[s]
             need == Size(r, s) - Len(have)
             take == IF Len(data) < need THEN Len(data) ELSE need
             a == SubSeq(data, 1, take)
             b == SubSeq(data, take + 1, Len(data))
             next == [r EXCEPT ![s] = have \o a]
             g == Turn[f]
             k == r.header[1].kind
  <2>1. g = [reader |-> IF take = need THEN [next EXCEPT !.state = After(next)] ELSE next,
             rest   |-> b]
    BY <1>0, <1>2, TurnIs DEF TurnTo
  <2>2. /\ r \in Reader /\ r.header \in Seq(Byte) /\ r.simple \in Seq(Byte)
        /\ r.raw \in Seq(Byte) /\ s \in Sections
    BY <1>2 DEF Filled, Reader
  <2>3. s # "header" => k \in Kind
    <3>1. s # "header" => r.header[1] \in Byte
      BY <2>2, PacketAssumption DEF Filled
    <3> QED  BY <3>1 DEF Byte
  <2>4. have \in Seq(Byte) /\ need \in Nat \ {0}
    <3>1. CASE s = "header"
      <4>1. have = r.header /\ Size(r, s) = HeaderSize
        BY <2>2, <3>1 DEF Reader, Size
      <4> HIDE DEF have
      <4> QED  BY <2>2, <3>1, <4>1, PacketAssumption DEF Filled
    <3>2. CASE s = "simple"
      <4>1. have = r.simple /\ Size(r, s) = SimpleLen(k) /\ SimpleLen(k) \in Nat
        BY <2>2, <2>3, <3>2, LengthIsPositive DEF Reader, Size
      <4> HIDE DEF have
      <4> QED  BY <2>2, <3>2, <4>1 DEF Filled
    <3>3. CASE s = "raw"
      <4>1. have = r.raw /\ Size(r, s) = RawLen(k) /\ RawLen(k) \in Nat
        BY <2>2, <2>3, <3>3, LengthIsPositive DEF Reader, Size
      <4> HIDE DEF have
      <4> QED  BY <2>2, <3>3, <4>1 DEF Filled
    <3> QED  BY <2>2, <3>1, <3>2, <3>3 DEF Sections
  <2> HIDE DEF have, need
  <2>5. take \in 1 .. Len(data) /\ take <= need /\ Len(data) \in Nat
    BY <1>2, <2>4
  <2> HIDE DEF take
  <2>6. a \in Seq(Byte) /\ b \in Seq(Byte) /\ Len(a) = take /\ a \o b = data
    <3>1. a \in Seq(Byte) /\ b \in Seq(Byte) /\ Len(a) = take
      BY <2>5
    <3>2. SubSeq(data, 1, take) \o SubSeq(data, take + 1, Len(data)) = SubSeq(data, 1, Len(data))
      BY <2>5, ConcatAdjacentSubSeq
    <3> QED  BY <3>1, <3>2, SubSeqFull
  <2> HIDE DEF a, b
  <2>7. have \o a \in Seq(Byte) /\ Len(have \o a) = Len(have) + take
    BY <2>4, <2>6, ConcatProperties
  <2>8. /\ IF take = need THEN Complete(next) ELSE Filled(next)
        /\ Held(next) = Held(r) \o a
    <3>1. CASE s = "header"
      <4>1. Fields(next, s, have \o a, r.simple, r.raw)
        BY <2>2, <2>7, <3>1, PutHeader
      <4>2. have = r.header /\ need = HeaderSize - Len(r.header)
            /\ r.simple = <<>> /\ r.raw = <<>>
        BY <2>2, <3>1 DEF Reader, Size, have, need, Filled
      <4>3. Held(next) = have \o a /\ Held(r) = have
        <5>1. Held(next) = (have \o a) \o <<>> \o <<>> /\ Held(r) = have \o <<>> \o <<>>
          BY <4>1, <4>2 DEF Held, Fields
        <5>2. /\ (have \o a) \o <<>> = have \o a
              /\ have \o <<>> = have
          BY ONLY <2>4, <2>7, ConcatEmptySeq
        <5> QED  BY ONLY <5>1, <5>2
      <4>4. IF take = need THEN Complete(next) ELSE Filled(next)
        BY <2>2, <2>4, <2>5, <2>7, <3>1, <4>1, <4>2, PacketAssumption
        DEF Fields, Complete, Filled, Sections
      <4> QED  BY <4>3, <4>4
    <3>2. CASE s = "simple"
      <4>1. Fields(next, s, r.header, have \o a, r.raw)
        BY <2>2, <2>7, <3>2, PutSimple
      <4>2. have = r.simple /\ need = SimpleLen(k) - Len(r.simple) /\ r.raw = <<>>
            /\ Len(r.header) = HeaderSize /\ SimpleLen(k) \in Nat
        BY <2>2, <2>3, <3>2, LengthIsPositive DEF Reader, Size, have, need, Filled
      <4>3. Held(next) = Held(r) \o a
        <5>1. (r.header \o have) \o a = r.header \o (have \o a)
          <6> DEFINE h == r.header
          <6>1. h \in Seq(Byte) /\ have \in Seq(Byte) /\ a \in Seq(Byte)
            BY <2>2, <2>4, <2>6
          <6> HIDE DEF h
          <6>2. (h \o have) \o a = h \o (have \o a)
            BY ONLY <6>1, ConcatAssociative
          <6> QED  BY ONLY <6>2 DEF h
        <5>2. r.header \o have \in Seq(Byte) /\ r.header \o (have \o a) \in Seq(Byte)
          BY <2>2, <2>4, <2>7
        <5> QED  BY <4>1, <4>2, <5>1, <5>2, ConcatEmptySeq DEF Held, Fields
      <4>4. IF take = need THEN Complete(next) ELSE Filled(next)
        BY <2>2, <2>4, <2>5, <2>7, <3>2, <4>1, <4>2
        DEF Fields, Complete, Filled, Sections
      <4> QED  BY <4>3, <4>4
    <3>3. CASE s = "raw"
      <4>1. Fields(next, s, r.header, r.simple, have \o a)
        BY <2>2, <2>7, <3>3, PutRaw
      <4>2. have = r.raw /\ need = RawLen(k) - Len(r.raw) /\ RawLen(k) \in Nat
            /\ Len(r.header) = HeaderSize /\ Len(r.simple) = SimpleLen(k)
        BY <2>2, <2>3, <3>3, LengthIsPositive DEF Reader, Size, have, need, Filled
      <4>3. Held(next) = Held(r) \o a
        <5>1. r.header \o r.simple \in Seq(Byte)
          BY <2>2
        <5>2. ((r.header \o r.simple) \o have) \o a = (r.header \o r.simple) \o (have \o a)
          <6> DEFINE h == r.header \o r.simple
          <6>1. h \in Seq(Byte) /\ have \in Seq(Byte) /\ a \in Seq(Byte)
            BY <2>4, <2>6, <5>1
          <6> HIDE DEF h
          <6>2. (h \o have) \o a = h \o (have \o a)
            BY ONLY <6>1, ConcatAssociative
          <6> QED  BY ONLY <6>2 DEF h
        <5> QED  BY <4>1, <4>2, <5>2 DEF Held, Fields
      <4>4. IF take = need THEN Complete(next) ELSE Filled(next)
        BY <2>2, <2>4, <2>5, <2>7, <3>3, <4>1, <4>2
        DEF Fields, Complete, Filled, Sections
      <4> QED  BY <4>3, <4>4
    <3> QED  BY <2>2, <3>1, <3>2, <3>3 DEF Sections
  <2> DEFINE new == IF take = need THEN [next EXCEPT !.state = After(next)] ELSE next
  <2> HIDE DEF next
  <2>9. Filled(new) /\ Held(new) = Held(r) \o a
    BY <2>8, AfterFills
  <2> HIDE DEF new
  <2>10. g = [reader |-> new, rest |-> b]
    BY <2>1 DEF new
  <2>11. Held(r) \in Seq(Byte)
    BY <2>2 DEF Held
  <2>12. (Held(r) \o a) \o b = Held(r) \o data
    <3>1. (Held(r) \o a) \o b = Held(r) \o (a \o b)
      <4> DEFINE h == Held(r)
      <4>1. h \in Seq(Byte) /\ a \in Seq(Byte) /\ b \in Seq(Byte)
        BY <2>6, <2>11
      <4> HIDE DEF h
      <4>2. (h \o a) \o b = h \o (a \o b)
        BY ONLY <4>1, ConcatAssociative
      <4> QED  BY ONLY <4>2 DEF h
    <3> QED  BY <2>6, <3>1
  <2>13. new \in Reader
    BY <2>9 DEF Filled
  <2> HIDE DEF g
  <2>14. g.reader = new /\ g.rest = b /\ g \in [reader : Reader, rest : Seq(Byte)]
    BY <2>6, <2>10, <2>13
  <2> QED  BY ONLY <2>9, <2>12, <2>14 DEF Goes, g, f
<1> QED  BY <1>1, <1>2

LEMMA HeldType ==
  ASSUME NEW r, Filled(r)
  PROVE  Held(r) \in Seq(Byte)
BY DEF Filled, Reader, Held

\* A packet that is complete is as long as its first byte says.
LEMMA DoneIsPacket ==
  ASSUME NEW r, Filled(r), r.state = "done"
  PROVE  Held(r) # <<>> /\ Len(Held(r)) = Length(Held(r)[1].kind)
<1> DEFINE h == r.header
           s == r.simple
           w == r.raw
<1>1. h \in Seq(Byte) /\ s \in Seq(Byte) /\ w \in Seq(Byte)
  BY DEF Filled, Reader
<1>2. /\ Len(h) = HeaderSize /\ HeaderSize \in Nat \ {0}
      /\ Len(s) = SimpleLen(h[1].kind) /\ Len(w) = RawLen(h[1].kind)
  BY PacketAssumption DEF Filled
<1> HIDE DEF h, s, w
<1>3. /\ (h \o s) \o w \in Seq(Byte)
      /\ Len((h \o s) \o w) = HeaderSize + Len(s) + Len(w)
      /\ ((h \o s) \o w)[1] = h[1]
  <2> DEFINE hs == h \o s
  <2>0. Len(h) > 0
    BY <1>2
  <2>1. hs \in Seq(Byte) /\ Len(hs) = HeaderSize + Len(s) /\ hs[1] = h[1]
    <3>1. /\ hs \in Seq(Byte) /\ Len(hs) = Len(h) + Len(s)
          /\ \A i \in 1 .. Len(h) + Len(s) :
               hs[i] = IF i <= Len(h) THEN h[i] ELSE s[i - Len(h)]
      <4>1. h \in Seq(Byte) /\ s \in Seq(Byte)
        BY <1>1
      <4> QED  BY ONLY <4>1, ConcatProperties
    <3>2. Len(h) \in Nat /\ Len(s) \in Nat
      BY <1>1
    <3>3. Len(hs) = HeaderSize + Len(s)
      BY <1>2, <3>1
    <3> HIDE DEF hs
    <3>4. 1 \in 1 .. Len(h) + Len(s) /\ 1 <= Len(h)
      BY <2>0, <3>2
    <3>5. hs[1] = h[1]
      BY <3>1, <3>4
    <3> QED  BY <3>1, <3>3, <3>5
  <2> HIDE DEF hs
  <2>2. hs \o w \in Seq(Byte) /\ Len(hs \o w) = Len(hs) + Len(w) /\ (hs \o w)[1] = hs[1]
    <3>1. /\ hs \o w \in Seq(Byte) /\ Len(hs \o w) = Len(hs) + Len(w)
          /\ \A i \in 1 .. Len(hs) + Len(w) :
               (hs \o w)[i] = IF i <= Len(hs) THEN hs[i] ELSE w[i - Len(hs)]
      <4>1. hs \in Seq(Byte) /\ w \in Seq(Byte)
        BY <1>1, <2>1
      <4> QED  BY ONLY <4>1, ConcatProperties
    <3>2. Len(hs) \in Nat /\ Len(w) \in Nat /\ Len(s) \in Nat /\ HeaderSize \in Nat \ {0}
      BY <1>1, <1>2, <2>1
    <3>3. 1 \in 1 .. Len(hs) + Len(w) /\ 1 <= Len(hs)
      BY <2>1, <3>2
    <3> QED  BY <3>1, <3>3
  <2> QED  BY ONLY <2>1, <2>2 DEF hs
<1>4. Len((h \o s) \o w) = Length(h[1].kind)
  BY <1>2, <1>3 DEF Length
<1>5. Len((h \o s) \o w) \in Nat \ {0}
  BY <1>1, <1>2, <1>3
<1>6. Held(r) = (h \o s) \o w
  BY DEF Held, h, s, w
<1> HIDE DEF Held
<1> QED  BY <1>3, <1>4, <1>5, <1>6

\* A call leaves the bytes in the reader and the rest, or gives one packet.
Fed(f, r, data) ==
  /\ f.rest \in Seq(Byte)
  /\ f.packet = <<>> =>
       /\ Filled(f.reader) /\ f.reader.state # "done"
       /\ Held(f.reader) \o f.rest = Held(r) \o data
  /\ f.packet # <<>> =>
       /\ f.reader = Fresh
       /\ f.packet \in Seq(Byte) /\ Len(f.packet) = Length(f.packet[1].kind)
       /\ f.packet \o f.rest = Held(r) \o data

LEMMA FeedKeeps ==
  ASSUME NEW r, Filled(r), NEW data \in Seq(Byte)
  PROVE  Fed(Feed(r, data), r, data)
<1>1. ASSUME NEW g, Goes(g, r, data)
      PROVE  Goes(Turn[g], r, data)
  <2>1. /\ g = [reader |-> g.reader, rest |-> g.rest]
        /\ g.rest \in Seq(Byte) /\ Filled(g.reader)
        /\ Held(g.reader) \o g.rest = Held(r) \o data
    BY <1>1 DEF Goes
  <2> DEFINE x == g.reader
             y == g.rest
  <2>2. Filled(x) /\ y \in Seq(Byte)
    BY <2>1
  <2> HIDE DEF x, y
  <2>3. Goes(Turn[[reader |-> x, rest |-> y]], x, y)
    BY ONLY <2>2, TurnKeeps
  <2>4. [reader |-> x, rest |-> y] = g /\ Held(x) \o y = Held(r) \o data
    BY ONLY <2>1 DEF x, y
  <2> QED  BY ONLY <2>3, <2>4 DEF Goes
<1> DEFINE f0 == [reader |-> r, rest |-> data]
           f == Turn[Turn[Turn[f0]]]
<1>2. Goes(Turn[f0], r, data)
  BY TurnKeeps
<1> HIDE DEF f0
<1>3. Goes(f, r, data)
  BY ONLY <1>1, <1>2
<1>4. Feed(r, data) =
        IF f.reader.state = "done"
          THEN [reader |-> Fresh, rest |-> f.rest, packet |-> Held(f.reader)]
          ELSE [reader |-> f.reader, rest |-> f.rest, packet |-> <<>>]
  BY DEF Feed, Held, f0
<1> HIDE DEF f
<1>5. /\ f.rest \in Seq(Byte) /\ Filled(f.reader)
      /\ Held(f.reader) \o f.rest = Held(r) \o data
      /\ Held(f.reader) \in Seq(Byte)
  BY <1>3, HeldType DEF Goes
<1>6. CASE f.reader.state = "done"
  <2>1. /\ Held(f.reader) # <<>>
        /\ Len(Held(f.reader)) = Length(Held(f.reader)[1].kind)
    BY <1>5, <1>6, DoneIsPacket
  <2> DEFINE g == Feed(r, data)
  <2>2. g.reader = Fresh /\ g.rest = f.rest /\ g.packet = Held(f.reader)
    BY ONLY <1>4, <1>6
  <2> HIDE DEF g
  <2>3. Fed(g, r, data)
    BY ONLY <1>5, <2>1, <2>2 DEF Fed
  <2> QED  BY ONLY <2>3 DEF g
<1>7. CASE f.reader.state # "done"
  <2> DEFINE g == Feed(r, data)
  <2>2. g.reader = f.reader /\ g.rest = f.rest /\ g.packet = <<>>
    BY ONLY <1>4, <1>7
  <2> HIDE DEF g
  <2>3. Fed(g, r, data)
    BY ONLY <1>5, <1>7, <2>2 DEF Fed
  <2> QED  BY ONLY <2>3 DEF g
<1> QED  BY <1>6, <1>7

----------------------------------------------------------------------------
(* The bytes of one client on their way. *)

\* Byte y comes after byte x in what a client sends that has sent kinds.
Follows(x, y, kinds) ==
  IF x.i < Length(x.kind)
    THEN y = [kind |-> x.kind, n |-> x.n, i |-> x.i + 1]
    ELSE /\ x.n < Len(kinds)
         /\ y = [kind |-> kinds[x.n + 1], n |-> x.n + 1, i |-> 1]

\* flow is what is left of it when d packets have been taken off.
Whole(flow, kinds, d) ==
  /\ flow \in Seq(Byte)
  /\ flow = <<>> => d = Len(kinds)
  /\ flow # <<>> =>
       /\ d < Len(kinds)
       /\ flow[1] = [kind |-> kinds[d + 1], n |-> d + 1, i |-> 1]
       /\ flow[Len(flow)].n = Len(kinds)
       /\ flow[Len(flow)].i = Length(flow[Len(flow)].kind)
  /\ \A j \in 1 .. Len(flow) - 1 : Follows(flow[j], flow[j + 1], kinds)

LEMMA WireType ==
  ASSUME NEW k \in Kind, NEW n \in Nat
  PROVE  /\ Wire(k, n) \in Seq(Byte) /\ Len(Wire(k, n)) = Length(k)
         /\ \A i \in 1 .. Length(k) : Wire(k, n)[i] = [kind |-> k, n |-> n, i |-> i]
<1> DEFINE L == Length(k)
<1>1. L \in Nat
  BY LengthIsPositive
<1>2. Wire(k, n) = [i \in 1 .. L |-> [kind |-> k, n |-> n, i |-> i]]
  BY DEF Wire, Length
<1> HIDE DEF L
<1>3. \A i \in 1 .. L : [kind |-> k, n |-> n, i |-> i] \in Byte
  BY <1>1 DEF Byte
<1>4. Wire(k, n) \in Seq(Byte) /\ Len(Wire(k, n)) = L
  BY <1>1, <1>2, <1>3
<1> QED  BY <1>2, <1>4 DEF L

\* The packet is the next one, and rest what comes after it.
Taken(front, rest, kinds, d) ==
  /\ d < Len(kinds)
  /\ front = Wire(kinds[d + 1], d + 1)
  /\ Whole(rest, kinds, d + 1)

\* The next packet comes first, and then those after it.
LEMMA WholePacket ==
  ASSUME NEW kinds \in Seq(Kind), NEW d \in Nat,
         NEW front \in Seq(Byte), NEW rest \in Seq(Byte),
         Whole(front \o rest, kinds, d),
         front # <<>>, Len(front) = Length(front[1].kind)
  PROVE  Taken(front, rest, kinds, d)
<1> DEFINE flow == front \o rest
           e == d + 1
           k == kinds[e]
           L == Length(k)
           m == Len(rest)
           size == Len(front)
<1>1. /\ Len(front) \in Nat \ {0} /\ m \in Nat /\ flow \in Seq(Byte)
      /\ Len(flow) = size + m
      /\ \A i \in 1 .. size + m : flow[i] = IF i <= size THEN front[i] ELSE rest[i - size]
  BY ConcatProperties
<1>2. flow # <<>> /\ flow[1] = front[1] /\ Whole(flow, kinds, d)
  BY <1>1
<1> HIDE DEF flow
<1>3. /\ d < Len(kinds)
      /\ flow[1] = [kind |-> k, n |-> e, i |-> 1]
      /\ flow[Len(flow)].n = Len(kinds)
      /\ flow[Len(flow)].i = Length(flow[Len(flow)].kind)
      /\ \A j \in 1 .. Len(flow) - 1 : Follows(flow[j], flow[j + 1], kinds)
  BY <1>2 DEF Whole
<1>4. e \in 1 .. Len(kinds) /\ k \in Kind
  BY <1>3
<1> HIDE DEF k
<1>5. L \in Nat \ {0}
  BY <1>4, LengthIsPositive
<1>6. size = L
  BY <1>2, <1>3
<1> HIDE DEF L, m, size, e
<1> DEFINE K == {i \in Nat : i + 1 <= L => flow[i + 1] = [kind |-> k, n |-> e, i |-> i + 1]}
<1>7. 0 \in K
  BY <1>3
<1>8. ASSUME NEW i \in Nat, i \in K
      PROVE  i + 1 \in K
  <2> DEFINE j == i + 1
  <2>1. CASE j + 1 <= L
    <3>1. j \in 1 .. Len(flow) - 1 /\ j < L /\ j <= L
      BY <1>1, <1>5, <1>6, <2>1
    <3>2. flow[j] = [kind |-> k, n |-> e, i |-> j]
      BY <1>8, <3>1
    <3>3. Follows(flow[j], flow[j + 1], kinds)
      BY <1>3, <3>1
    <3> HIDE DEF j
    <3>4. flow[j + 1] = [kind |-> k, n |-> e, i |-> j + 1]
      BY ONLY <3>1, <3>2, <3>3 DEF Follows, L
    <3>5. j \in K
      BY <3>1, <3>4
    <3> QED  BY <3>5 DEF j
  <2>2. CASE ~(j + 1 <= L)
    <3>1. j \in Nat
      OBVIOUS
    <3> HIDE DEF j
    <3>2. j \in K
      BY <2>2, <3>1
    <3> QED  BY <3>2 DEF j
  <2> QED  BY <2>1, <2>2
<1>9. \A i \in 1 .. L : flow[i] = [kind |-> k, n |-> e, i |-> i]
  <2>1. Nat \subseteq K
    <3> HIDE DEF K
    <3> QED  BY <1>7, <1>8, NatSetInduction
  <2>2. ASSUME NEW i \in 1 .. L
        PROVE  flow[i] = [kind |-> k, n |-> e, i |-> i]
    <3> DEFINE h == i - 1
    <3>1. h \in Nat /\ h + 1 = i /\ h + 1 <= L
      BY <1>5
    <3> HIDE DEF h
    <3>2. h \in K
      <4> HIDE DEF K
      <4> QED  BY <2>1, <3>1
    <3>3. flow[h + 1] = [kind |-> k, n |-> e, i |-> h + 1]
      BY <3>1, <3>2
    <3> QED  BY ONLY <3>1, <3>3
  <2> QED  BY <2>2
<1>10. front = Wire(k, e)
  <2>1. /\ Wire(k, e) \in Seq(Byte) /\ Len(Wire(k, e)) = L
        /\ \A i \in 1 .. L : Wire(k, e)[i] = [kind |-> k, n |-> e, i |-> i]
    <3>1. e \in Nat
      BY <1>4
    <3> QED  BY <1>4, <3>1, WireType DEF L
  <2>2. \A i \in 1 .. L : front[i] = Wire(k, e)[i]
    <3>1. \A i \in 1 .. L : i \in 1 .. size + m /\ i <= size
      BY <1>1, <1>5, <1>6
    <3>2. \A i \in 1 .. L : front[i] = flow[i]
      BY ONLY <1>1, <3>1
    <3> QED  BY ONLY <1>9, <2>1, <3>2
  <2>3. Len(front) = L
    BY <1>6 DEF size
  <2> QED  BY <2>1, <2>2, <2>3, SeqEqual
<1>11. Whole(rest, kinds, e)
  <2>1. flow[L] = [kind |-> k, n |-> e, i |-> L]
    <3>1. L \in 1 .. L
      BY <1>5
    <3> QED  BY ONLY <1>9, <3>1
  <2>2. \A i \in 1 .. m : flow[L + i] = rest[i]
    <3>1. ASSUME NEW i \in 1 .. m
          PROVE  flow[L + i] = rest[i]
      <4> DEFINE j == L + i
      <4>1. j \in 1 .. size + m /\ ~(j <= size) /\ j - size = i
        BY <1>1, <1>5, <1>6
      <4> HIDE DEF j
      <4>2. flow[j] = rest[j - size]
        BY <1>1, <4>1
      <4> QED  BY <4>1, <4>2 DEF j
    <3> QED  BY <3>1
  <2>3. ASSUME NEW j \in 1 .. m - 1
        PROVE  Follows(rest[j], rest[j + 1], kinds)
    <3> DEFINE a == L + j
    <3>1. a \in 1 .. Len(flow) - 1 /\ a + 1 = L + (j + 1) /\ j \in 1 .. m /\ j + 1 \in 1 .. m
      BY <1>1, <1>5, <1>6
    <3>2. flow[a] = rest[j] /\ flow[a + 1] = rest[j + 1]
      BY <2>2, <3>1
    <3> HIDE DEF a
    <3>3. Follows(flow[a], flow[a + 1], kinds)
      BY <1>3, <3>1
    <3> QED  BY <3>2, <3>3
  <2>4. CASE rest = <<>>
    <3>1. m = 0
      BY ONLY <2>4 DEF m
    <3>0. Len(flow) = L
      BY ONLY <1>1, <1>5, <1>6, <3>1
    <3>2. e = Len(kinds)
      BY <1>3, <2>1, <3>0
    <3> QED  BY <2>3, <2>4, <3>2 DEF Whole, m
  <2>5. CASE rest # <<>>
    <3>1. m \in Nat \ {0}
      BY <2>5 DEF m
    <3>2. L \in 1 .. Len(flow) - 1 /\ L + 1 \in 1 .. Len(flow) /\ m \in 1 .. m
          /\ Len(flow) = L + m
      BY <1>1, <1>5, <1>6, <3>1
    <3>3. Follows(flow[L], flow[L + 1], kinds)
      BY <1>3, <3>2
    <3>4. e < Len(kinds) /\ rest[1] = [kind |-> kinds[e + 1], n |-> e + 1, i |-> 1]
      <4>0. 1 \in 1 .. m
        BY <3>1
      <4>1. rest[1] = flow[L + 1]
        BY ONLY <2>2, <4>0
      <4>2. ~(L < Length(k)) 
        BY <1>5 DEF L
      <4> QED  BY ONLY <2>1, <3>3, <4>1, <4>2 DEF Follows
    <3>5. rest[m] = flow[Len(flow)]
      BY <2>2, <3>2
    <3> QED  BY <1>3, <2>3, <2>5, <3>4, <3>5 DEF Whole, m
  <2> QED  BY <2>4, <2>5
<1> QED  BY <1>3, <1>10, <1>11 DEF k, e, Taken

\* What a client sends comes after what it has sent.
LEMMA WholeSend ==
  ASSUME NEW flow, NEW kinds \in Seq(Kind), NEW d \in Nat, Whole(flow, kinds, d),
         NEW k \in Kind
  PROVE  Whole(flow \o Wire(k, Len(kinds) + 1), Append(kinds, k), d)
<1> DEFINE n == Len(kinds)
           m == n + 1
           w == Wire(k, m)
           L == Length(k)
           new == flow \o w
           all == Append(kinds, k)
           len == Len(flow)
<1>1. L \in Nat \ {0} /\ n \in Nat /\ m \in Nat \ {0}
  BY LengthIsPositive
<1>2. /\ w \in Seq(Byte) /\ Len(w) = L
      /\ \A i \in 1 .. L : w[i] = [kind |-> k, n |-> m, i |-> i]
  <2> HIDE DEF m
  <2> QED  BY <1>1, WireType
<1>3. flow \in Seq(Byte) /\ len \in Nat
  BY DEF Whole
<1>4. /\ Len(all) = m /\ all[m] = k
      /\ \A i \in 1 .. n : all[i] = kinds[i]
  OBVIOUS
<1> HIDE DEF w, all, L
<1>5. /\ new \in Seq(Byte) /\ Len(new) = len + L
      /\ \A i \in 1 .. len + L : new[i] = IF i <= len THEN flow[i] ELSE w[i - len]
  BY <1>2, <1>3, ConcatProperties
<1> HIDE DEF new
<1>6. \A i \in 1 .. L : new[len + i] = [kind |-> k, n |-> m, i |-> i]
  <2>1. ASSUME NEW i \in 1 .. L
        PROVE  new[len + i] = w[i]
    <3> DEFINE j == len + i
    <3>1. j \in 1 .. len + L /\ ~(j <= len) /\ j - len = i
      BY <1>1, <1>3
    <3> HIDE DEF j
    <3>2. new[j] = w[j - len]
      BY <1>5, <3>1
    <3> QED  BY <3>1, <3>2 DEF j
  <2> QED  BY <1>2, <2>1
<1>7. \A i \in 1 .. len : new[i] = flow[i]
  BY <1>1, <1>3, <1>5
<1>8. /\ new # <<>> /\ new[Len(new)].n = Len(all)
      /\ new[Len(new)].i = Length(new[Len(new)].kind)
  <2>1. L \in 1 .. L /\ Len(new) = len + L /\ Len(new) # 0
    BY <1>1, <1>3, <1>5
  <2>2. new[Len(new)] = [kind |-> k, n |-> m, i |-> L]
    BY <1>6, <2>1
  <2> QED  BY <1>4, <2>1, <2>2 DEF L
<1>9. d < Len(all) /\ new[1] = [kind |-> all[d + 1], n |-> d + 1, i |-> 1]
  <2>1. CASE flow = <<>>
    <3>1. d = n /\ len = 0 /\ 1 \in 1 .. L
      BY <1>1, <2>1 DEF Whole
    <3> QED  BY <1>1, <1>4, <1>6, <3>1
  <2>2. CASE flow # <<>>
    <3>1. /\ d < n /\ flow[1] = [kind |-> kinds[d + 1], n |-> d + 1, i |-> 1]
          /\ 1 \in 1 .. len
      BY <1>3, <2>2 DEF Whole
    <3>2. d + 1 \in 1 .. n
      BY <1>1, <3>1
    <3> QED  BY <1>1, <1>4, <1>7, <3>1, <3>2
  <2> QED  BY <2>1, <2>2
<1>10. ASSUME NEW j \in 1 .. Len(new) - 1
       PROVE  Follows(new[j], new[j + 1], all)
  <2>0. j \in Nat /\ j + 1 <= len + L /\ j >= 1
    BY <1>1, <1>3, <1>5
  <2>1. CASE j < len
    <3>1. j \in 1 .. len - 1 /\ j \in 1 .. len /\ j + 1 \in 1 .. len
      BY <1>3, <2>0, <2>1
    <3>2. Follows(flow[j], flow[j + 1], kinds) /\ new[j] = flow[j] /\ new[j + 1] = flow[j + 1]
      BY <1>7, <3>1 DEF Whole
    <3>3. flow[j] \in Byte
      BY <1>3, <3>1
    <3>4. flow[j].n \in Nat
      BY <3>3 DEF Byte
    <3>5. flow[j].n < n => flow[j].n < Len(all) /\ flow[j].n + 1 \in 1 .. n
      BY <1>1, <1>4, <3>4
    <3> QED  BY ONLY <1>4, <3>2, <3>5 DEF Follows, n
  <2>2. CASE j = len
    <3>1. flow # <<>> /\ len \in 1 .. len /\ 1 \in 1 .. L
      BY <1>1, <1>3, <2>0, <2>2
    <3>2. /\ new[j] = flow[len] /\ flow[len] \in Byte
          /\ flow[len].n = n /\ flow[len].i = Length(flow[len].kind)
      BY <1>3, <1>7, <2>2, <3>1 DEF Whole
    <3>3. new[j + 1] = [kind |-> k, n |-> m, i |-> 1]
      BY <1>6, <2>2, <3>1
    <3>4. Length(flow[len].kind) \in Nat
      BY <3>2, LengthIsPositive DEF Byte
    <3>5. ~(flow[len].i < Length(flow[len].kind))
      BY <3>2, <3>4
    <3>6. n < Len(all) /\ all[n + 1] = k
      BY <1>1, <1>4
    <3> QED  BY ONLY <3>2, <3>3, <3>5, <3>6 DEF Follows, m
  <2>3. CASE len < j
    <3> DEFINE i == j - len
    <3>1. i \in 1 .. L /\ i + 1 \in 1 .. L /\ j = len + i /\ j + 1 = len + (i + 1) /\ i < L
      BY <1>1, <1>3, <2>0, <2>3
    <3> HIDE DEF i
    <3>2. new[j] = [kind |-> k, n |-> m, i |-> i] /\ new[j + 1] = [kind |-> k, n |-> m, i |-> i + 1]
      BY <1>6, <3>1
    <3> QED  BY ONLY <3>1, <3>2 DEF Follows, L
  <2> QED  BY <1>3, <2>0, <2>1, <2>2, <2>3
<1> QED  BY <1>5, <1>8, <1>9, <1>10 DEF Whole, new, w, all

\* A call of the reader, in the stream of its client.
FedFlow(f, more, kinds, d) ==
  /\ f.rest \in Seq(Byte)
  /\ f.packet = <<>> =>
       /\ Filled(f.reader) /\ f.reader.state # "done"
       /\ Whole(Held(f.reader) \o (f.rest \o more), kinds, d)
  /\ f.packet # <<>> =>
       f.reader = Fresh /\ Taken(f.packet, f.rest \o more, kinds, d)

LEMMA Associates ==
  ASSUME NEW a \in Seq(Byte), NEW b \in Seq(Byte), NEW c \in Seq(Byte)
  PROVE  (a \o b) \o c = a \o (b \o c)
BY ConcatAssociative

LEMMA SplitSequence ==
  ASSUME NEW s \in Seq(Byte), NEW n \in 1 .. Len(s)
  PROVE  /\ SubSeq(s, 1, n) \in Seq(Byte) /\ SubSeq(s, n + 1, Len(s)) \in Seq(Byte)
         /\ SubSeq(s, 1, n) \o SubSeq(s, n + 1, Len(s)) = s
OBVIOUS

LEMMA FeedFlow ==
  ASSUME NEW r, Filled(r), NEW data \in Seq(Byte), NEW more \in Seq(Byte),
         NEW kinds \in Seq(Kind), NEW d \in Nat,
         Whole(Held(r) \o (data \o more), kinds, d)
  PROVE  FedFlow(Feed(r, data), more, kinds, d)
<1> DEFINE f == Feed(r, data)
           h == Held(r)
           g == Held(f.reader)
           y == f.rest
           p == f.packet
<1>1. Fed(f, r, data) /\ h \in Seq(Byte) /\ y \in Seq(Byte)
  BY FeedKeeps, HeldType DEF Fed
<1>2. Whole(h \o (data \o more), kinds, d)
  OBVIOUS
<1>3. CASE p = <<>>
  <2>1. Filled(f.reader) /\ f.reader.state # "done" /\ g \o y = h \o data /\ g \in Seq(Byte)
    BY <1>1, <1>3, HeldType DEF Fed
  <2> HIDE DEF h, g, y
  <2>2. /\ (g \o y) \o more = g \o (y \o more)
        /\ (h \o data) \o more = h \o (data \o more)
    BY ONLY <1>1, <2>1, data \in Seq(Byte), more \in Seq(Byte), Associates
  <2>3. Whole(g \o (y \o more), kinds, d)
    BY ONLY <1>2, <2>1, <2>2
  <2> QED  BY ONLY <1>1, <1>3, <2>1, <2>3 DEF FedFlow, f, g, y, p
<1>4. CASE p # <<>>
  <2>1. /\ f.reader = Fresh
        /\ p \in Seq(Byte) /\ Len(p) = Length(p[1].kind) /\ p \o y = h \o data
    BY <1>1, <1>4 DEF Fed
  <2> HIDE DEF h, g, y, p
  <2>2. /\ (p \o y) \o more = p \o (y \o more)
        /\ (h \o data) \o more = h \o (data \o more)
    BY ONLY <1>1, <2>1, data \in Seq(Byte), more \in Seq(Byte), Associates
  <2> DEFINE rest == y \o more
  <2>3. rest \in Seq(Byte)
    BY <1>1
  <2>4. Whole(p \o rest, kinds, d)
    BY ONLY <1>2, <2>1, <2>2
  <2> HIDE DEF rest
  <2>5. Taken(p, rest, kinds, d)
    BY ONLY <1>4, <2>1, <2>3, <2>4, kinds \in Seq(Kind), d \in Nat, WholePacket
  <2> QED  BY ONLY <1>1, <1>4, <2>1, <2>5 DEF FedFlow, f, y, p, rest
<1> QED  BY <1>3, <1>4

----------------------------------------------------------------------------
(* The prepared read. *)

\* A read is prepared while the loop waits, and at no other time until the end.
PreparedWhileWaiting ==
  /\ pc \in Place
  /\ pc = "wait" => prepared = 1
  /\ RoundtripsAreSafe

\* The clients do not touch the loop.
LEMMA ClientsKeepLoop ==
  ASSUME NEW c \in Client, ClientStep(c)
  PROVE  UNCHANGED <<pc, prepared, wl, batch, hups, cur, buf, packet, out, reader, done>>
BY DEF ClientStep, Connect, Identify, Send, Resume, BeginPaint, EndPaint, ReadEvent,
       Die, Notice, wayland, handling

LEMMA PreparedStep ==
  ASSUME PreparedWhileWaiting, [Next]_vars
  PROVE  PreparedWhileWaiting'
<1> USE DEF wayland
<1>1. CASE UNCHANGED <<pc, prepared, wl>>
  BY <1>1 DEF PreparedWhileWaiting, RoundtripsAreSafe
<1>2. CASE UNCHANGED vars
  BY <1>1, <1>2 DEF vars
<1>3. ASSUME NEW c \in Client, ClientStep(c)
      PROVE  PreparedWhileWaiting'
  BY <1>1, <1>3, ClientsKeepLoop
<1>4. CASE Signal
  BY <1>1, <1>4 DEF Signal
<1>5. CASE UNCHANGED <<prepared, wl>> /\ pc \in {"top", "qws", "batch", "feed", "write"}
           /\ pc' \in {"top", "qws", "batch", "feed", "write", "down"}
  BY <1>5 DEF PreparedWhileWaiting, RoundtripsAreSafe, Place
<1>6. CASE \/ DispatchPending \/ Gather \/ UseFreed \/ Dispatched \/ Finish
           \/ FeedReader
           \/ \E c \in Client : \/ DisconnectGone(c) \/ Write(c)
                                \/ \E n \in 1 .. Len(up[c]) : ReadBytes(c, n)
  <2>1. /\ pc \in {"top", "qws", "batch", "feed", "write"} /\ UNCHANGED <<prepared, wl>>
        /\ pc' \in {"top", "qws", "batch", "feed", "write", "down"}
    BY <1>6 DEF DispatchPending, Gather, UseFreed, Dispatched, Finish, FeedReader,
                DisconnectGone, Write, ReadBytes, AfterClient, AfterPacket
  <2> QED  BY <1>5, <2>1
<1>7. CASE Prepare \/ LoopClosed \/ HangUp
  BY <1>7 DEF Prepare, LoopClosed, HangUp, PreparedWhileWaiting, RoundtripsAreSafe, Place
<1>8. ASSUME NEW a \in SUBSET Client, NEW read \in Reads, NEW qws \in BOOLEAN,
             Poll(a, read, qws)
      PROVE  PreparedWhileWaiting'
  <2>1. /\ pc = "wait" /\ prepared' = prepared - 1
        /\ wl' = IF read \in {"error", "fails"} THEN "broken" ELSE "up"
        /\ pc' = IF read = "fails" THEN "shutdown" ELSE IF qws THEN "qws" ELSE "top"
    BY <1>8 DEF Poll, Finished
  <2> QED  BY <2>1 DEF PreparedWhileWaiting, RoundtripsAreSafe, Place
<1>9. CASE Shutdown
  BY <1>9 DEF Shutdown, PreparedWhileWaiting, RoundtripsAreSafe, Place
<1> QED  BY <1>2, <1>3, <1>4, <1>6, <1>7, <1>8, <1>9 DEF Next, Proxy

\* Clients' commands, which may do roundtrips, are only handled when no read is
\* prepared, and the read that qwswl_shutdown() cancels is one (qwswl_run()).
THEOREM NoRoundtripInRead == Spec => []RoundtripsAreSafe
<1>1. Init => PreparedWhileWaiting
  BY DEF Init, PreparedWhileWaiting, RoundtripsAreSafe, Place
<1>2. PreparedWhileWaiting => RoundtripsAreSafe
  BY DEF PreparedWhileWaiting
<1> QED  BY <1>1, <1>2, PreparedStep, PTL DEF Spec

----------------------------------------------------------------------------
(* The clients that are still to be handled. *)

ClientState ==
  {"new", "connected", "hello", "idle", "waiting", "painting", "gone"}

\* The client that is being handled is none of those that are still to be
\* handled, and there are none of these outside of the clients' turn.
BatchInv ==
  /\ conn \in [Client -> {"out", "backlog", "live", "freed"}]
  /\ client \in [Client -> ClientState]
  /\ \A c \in Client : client[c] = "new" => conn[c] = "out"
  /\ batch \subseteq Client /\ hups \subseteq batch
  /\ \A c \in batch : conn[c] = "live"
  /\ pc \in {"top", "wait", "qws", "shutdown"} => batch = {}
  /\ pc = "write" /\ packet = <<>> => batch = {}
  /\ pc \in {"feed", "write"} => cur \notin batch

LEMMA NoClientIsNone == NoClient \notin Client
BY LoopAssumption

LEMMA BatchClientStep ==
  ASSUME BatchInv, NEW c \in Client, ClientStep(c)
  PROVE  BatchInv'
<1>1. UNCHANGED <<pc, batch, hups, cur, packet>>
  BY ClientsKeepLoop
<1>2. CASE Connect(c)
  BY <1>1, <1>2 DEF BatchInv, Connect, ClientState
<1>3. CASE ~Connect(c)
  <2>1. /\ conn' = conn
        /\ client' \in [Client -> ClientState]
        /\ \A d \in Client : client'[d] = "new" => client[d] = "new"
    BY <1>3 DEF ClientStep, Identify, Send, Resume, BeginPaint, EndPaint, ReadEvent,
                Die, Notice, connection, BatchInv, ClientState
  <2> QED  BY <1>1, <2>1 DEF BatchInv
<1> QED  BY <1>2, <1>3

LEMMA BatchInit == Init => BatchInv
BY DEF Init, BatchInv, ClientState

LEMMA BatchStep ==
  ASSUME BatchInv, [Next]_vars
  PROVE  BatchInv'
<1> USE DEF wayland, handling, connection
<1>1. CASE UNCHANGED <<pc, batch, hups, cur, packet, conn, client>>
  BY <1>1 DEF BatchInv
<1>2. CASE UNCHANGED vars \/ Signal \/ Prepare \/ \E c \in Client : Write(c)
  <2>1. CASE UNCHANGED vars \/ Signal \/ \E c \in Client : Write(c)
    BY <1>1, <2>1 DEF vars, Signal, Write, WriteFailed
  <2>2. CASE Prepare
    BY <2>2 DEF Prepare, BatchInv
  <2> QED  BY <1>2, <2>1, <2>2
<1>3. ASSUME NEW c \in Client, ClientStep(c)
      PROVE  BatchInv'
  BY <1>3, BatchClientStep
<1>4. CASE DispatchPending \/ Dispatched \/ LoopClosed \/ HangUp \/ UseFreed
  BY <1>4, NoClientIsNone
     DEF DispatchPending, Dispatched, LoopClosed, HangUp, UseFreed, BatchInv
<1>5. CASE Gather
  BY <1>5 DEF Gather, Ready, BatchInv
<1>6. CASE \E c \in Client : DisconnectGone(c)
  <2> PICK c \in Client : DisconnectGone(c)
    BY <1>6
  <2>1. /\ batch' = batch \ {c} /\ hups' = hups \ {c} /\ c \in hups
        /\ conn' = [conn EXCEPT ![c] = "freed"]
        /\ client' = client
        /\ pc' \in {"top", "batch"} /\ (pc' = "top" => batch' = {})
    BY DEF DisconnectGone, Disconnect, AfterClient
  <2>2. client[c] # "new"
    BY <2>1 DEF BatchInv
  <2> QED  BY <2>1, <2>2 DEF BatchInv
<1>7. CASE \E c \in Client : \E n \in 1 .. Len(up[c]) : ReadBytes(c, n)
  <2> PICK c \in Client : \E n \in 1 .. Len(up[c]) : ReadBytes(c, n)
    BY <1>7
  <2>1. /\ c \in batch \ hups /\ cur' = c /\ batch' = batch \ {c} /\ pc' = "feed"
        /\ UNCHANGED <<hups, conn, client>>
    BY DEF ReadBytes
  <2> QED  BY <2>1 DEF BatchInv
<1>8. CASE FeedReader
  <2>1. /\ pc = "feed" /\ conn[cur] = "live"
        /\ UNCHANGED <<batch, hups, client>>
        /\ cur' = IF pc' \in {"feed", "write"} THEN cur ELSE NoClient
        /\ \/ pc' = "feed"
           \/ pc' = "write" /\ packet' # <<>>
           \/ pc' \in {"top", "batch"} /\ (pc' = "top" => batch = {})
        /\ conn' = conn \/ conn' = [conn EXCEPT ![cur] = "freed"]
    <3>1. /\ pc = "feed" /\ conn[cur] = "live" /\ UNCHANGED <<batch, hups, client>>
          /\ cur' = IF pc' \in {"feed", "write"} THEN cur ELSE NoClient
      BY <1>8 DEF FeedReader
    <3>2. PICK f : \/ /\ pc' = AfterPacket(f.rest) /\ conn' = conn
                   \/ /\ conn' = [conn EXCEPT ![cur] = "freed"]
                      /\ pc' = AfterPacket(f.rest)
                   \/ /\ f.packet # <<>> /\ packet' = f.packet
                      /\ pc' = "write" /\ conn' = conn
      BY <1>8 DEF FeedReader, Disconnect
    <3> QED  BY <3>1, <3>2 DEF AfterPacket, AfterClient
  <2>2. conn' \in [Client -> {"out", "backlog", "live", "freed"}]
    BY <2>1 DEF BatchInv
  <2>3. \A c \in Client : c # cur => conn'[c] = conn[c]
    BY <2>1 DEF BatchInv
  <2>4. cur \notin batch /\ (cur \in Client => client[cur] # "new")
    BY <2>1 DEF BatchInv
  <2>5. NoClient \notin batch
    BY NoClientIsNone DEF BatchInv
  <2> QED  BY <2>1, <2>2, <2>3, <2>4, <2>5 DEF BatchInv
<1>9. CASE Finish
  <2>1. /\ pc = "write" /\ UNCHANGED <<batch, hups, conn, client>>
        /\ cur' = cur \/ cur' = NoClient
        /\ pc' \in {"feed", "top", "batch"} /\ (pc' = "top" => batch = {})
    BY <1>9 DEF Finish, AfterPacket, AfterClient
  <2> QED  BY <2>1, NoClientIsNone DEF BatchInv
<1>10. ASSUME NEW a \in SUBSET Client, NEW read \in Reads, NEW qws \in BOOLEAN,
              Poll(a, read, qws)
       PROVE  BatchInv'
  <2>1. /\ pc = "wait" /\ \A c \in a : conn[c] = "backlog"
        /\ conn' = [c \in Client |-> IF c \in a THEN "live" ELSE conn[c]]
        /\ UNCHANGED <<batch, hups, client>>
        /\ pc' \in {"shutdown", "qws", "top"}
    BY <1>10 DEF Poll, Accept
  <2> QED  BY <2>1 DEF BatchInv
<1>11. CASE Shutdown
  BY <1>11 DEF Shutdown, BatchInv
<1> QED  BY <1>2, <1>3, <1>4, <1>5, <1>6, <1>7, <1>8, <1>9, <1>10, <1>11
         DEF Next, Proxy

----------------------------------------------------------------------------
(* The bytes of all clients. *)

\* What has arrived from c, or is under way, and is not in the reader.
Unread(c) == IF c = cur THEN buf \o up[c] ELSE up[c]

\* The bytes of a client, wherever they are, are the packets it has sent and
\* the proxy has not completed.
FlowOf(c) ==
  conn[c] # "freed" => Whole(Held(reader[c]) \o Unread(c), sent[c], done[c])

\* The packet at hand is the last one its client has had completed.
PacketAtHand ==
  packet # <<>> =>
    /\ pc = "write" /\ cur \in Client /\ conn[cur] = "live"
    /\ done[cur] > 0
    /\ packet = Wire(sent[cur][done[cur]], done[cur])

FlowInv ==
  /\ sent \in [Client -> Seq(Kind)]
  /\ up \in [Client -> Seq(Byte)]
  /\ done \in [Client -> Nat]
  /\ reader \in [Client -> Reader]
  /\ buf \in Seq(Byte)
  /\ cur \in Client \cup {NoClient}
  /\ \A c \in Client : /\ done[c] <= Len(sent[c])
                       /\ Filled(reader[c]) /\ reader[c].state # "done"
                       /\ conn[c] = "out" => client[c] = "new" /\ up[c] = <<>>
                       /\ FlowOf(c)
  /\ pc \notin {"feed", "down"} /\ packet = <<>> => cur = NoClient
  /\ pc = "feed" => cur \in Client
  /\ PacketAtHand

\* Steps that touch none of it but take clients off.
LEMMA FlowQuiet ==
  ASSUME FlowInv,
         UNCHANGED <<sent, up, done, reader, buf, cur, packet>>,
         \A c \in Client : /\ conn'[c] = "freed" \/ conn[c] # "freed"
                           /\ conn'[c] = "out" => conn[c] = "out"
                           /\ conn[c] = "out" /\ conn'[c] = "out"
                                => client'[c] = client[c],
         packet # <<>> => UNCHANGED <<pc, conn>>,
         pc' \notin {"feed", "down"} /\ packet = <<>> => cur = NoClient,
         pc' = "feed" => cur \in Client
  PROVE  FlowInv'
<1>1. ASSUME NEW c \in Client
      PROVE  /\ done'[c] <= Len(sent'[c])
             /\ Filled(reader'[c]) /\ reader'[c].state # "done"
             /\ conn'[c] = "out" => client'[c] = "new" /\ up'[c] = <<>>
             /\ FlowOf(c)'
  BY DEF FlowInv, FlowOf, Unread
<1>2. PacketAtHand'
  BY DEF FlowInv, PacketAtHand
<1> QED  BY <1>1, <1>2 DEF FlowInv

LEMMA SendsFlow ==
  ASSUME FlowInv, NEW c \in Client, NEW k \in Kind, Sends(c, k),
         conn[c] # "out", conn' = conn, \A d \in Client : d # c => client'[d] = client[d],
         UNCHANGED <<pc, cur, buf, packet, reader, done>>
  PROVE  FlowInv'
<1> DEFINE n == Len(sent[c]) + 1
           w == Wire(k, n)
<1>1. /\ sent' = [sent EXCEPT ![c] = Append(@, k)]
      /\ up' = [up EXCEPT ![c] = @ \o w]
  BY DEF Sends
<1>2. /\ sent[c] \in Seq(Kind) /\ up[c] \in Seq(Byte) /\ buf \in Seq(Byte)
      /\ done[c] \in Nat /\ Filled(reader[c]) /\ n \in Nat /\ done[c] <= Len(sent[c])
  BY DEF FlowInv
<1>3. w \in Seq(Byte)
  BY <1>2, WireType
<1>4. /\ sent'[c] = Append(sent[c], k) /\ up'[c] = up[c] \o w
      /\ sent' \in [Client -> Seq(Kind)] /\ up' \in [Client -> Seq(Byte)]
      /\ \A d \in Client : d # c => sent'[d] = sent[d] /\ up'[d] = up[d]
  BY <1>1, <1>2, <1>3 DEF FlowInv
<1>5. FlowOf(c)'
  <2> SUFFICES ASSUME conn[c] # "freed"
               PROVE  Whole(Held(reader[c]) \o Unread(c)', Append(sent[c], k), done[c])
    BY <1>4 DEF FlowOf
  <2> DEFINE h == Held(reader[c])
             u == Unread(c)
  <2>1. h \in Seq(Byte) /\ u \in Seq(Byte)
    BY <1>2, HeldType DEF Unread
  <2>2. Whole(h \o u, sent[c], done[c])
    BY DEF FlowInv, FlowOf
  <2>3. Whole((h \o u) \o w, Append(sent[c], k), done[c])
    <3> DEFINE flow == h \o u
    <3>1. Whole(flow, sent[c], done[c])
      BY <2>2
    <3> HIDE DEF flow
    <3>2. Whole(flow \o Wire(k, Len(sent[c]) + 1), Append(sent[c], k), done[c])
      BY ONLY <1>2, <3>1, k \in Kind, WholeSend
    <3> QED  BY ONLY <3>2 DEF flow, w, n
  <2>4. Unread(c)' = u \o w
    <3>1. (buf \o up[c]) \o w = buf \o (up[c] \o w)
      BY ONLY <1>2, <1>3, Associates
    <3> QED  BY ONLY <1>4, <3>1, UNCHANGED <<buf, cur>> DEF Unread
  <2> HIDE DEF h, u, w
  <2>5. (h \o u) \o w = h \o (u \o w)
    BY ONLY <1>3, <2>1, Associates
  <2> QED  BY ONLY <2>3, <2>4, <2>5 DEF h
<1> HIDE DEF w
<1>6. ASSUME NEW d \in Client
      PROVE  /\ done'[d] <= Len(sent'[d])
             /\ Filled(reader'[d]) /\ reader'[d].state # "done"
             /\ conn'[d] = "out" => client'[d] = "new" /\ up'[d] = <<>>
             /\ FlowOf(d)'
  <2>1. CASE d = c
    <3>1. done[c] <= Len(Append(sent[c], k))
      BY <1>2
    <3> QED  BY <1>4, <1>5, <2>1, <3>1 DEF FlowInv
  <2>2. CASE d # c
    <3>1. sent'[d] = sent[d] /\ up'[d] = up[d]
      BY <1>4, <2>2
    <3> QED  BY <2>2, <3>1 DEF FlowInv, FlowOf, Unread
  <2> QED  BY <2>1, <2>2
<1>7. PacketAtHand'
  <2> SUFFICES ASSUME packet # <<>>
               PROVE  PacketAtHand'
    BY DEF PacketAtHand
  <2>1. /\ cur \in Client /\ done[cur] \in 1 .. Len(sent[cur])
        /\ sent[cur] \in Seq(Kind)
    BY DEF FlowInv, PacketAtHand
  <2>2. sent'[cur][done[cur]] = sent[cur][done[cur]]
    <3>1. CASE cur # c
      BY <1>4, <2>1, <3>1
    <3>2. CASE cur = c
      <4> DEFINE kinds == sent[c]
                 i == done[c]
      <4>1. kinds \in Seq(Kind) /\ i \in 1 .. Len(kinds)
        BY <2>1, <3>2
      <4>2. Append(kinds, k)[i] = kinds[i]
        <5> HIDE DEF kinds, i
        <5> QED  BY <4>1
      <4> QED  BY <1>4, <3>2, <4>2
    <3> QED  BY <3>1, <3>2
  <2> QED  BY <2>2 DEF FlowInv, PacketAtHand
<1> QED  BY <1>4, <1>6, <1>7 DEF FlowInv
LEMMA FlowClientStep ==
  ASSUME FlowInv, BatchInv, NEW c \in Client, ClientStep(c)
  PROVE  FlowInv'
<1>0. client \in [Client -> ClientState]
  BY DEF BatchInv
<1>1. UNCHANGED <<pc, cur, buf, packet, reader, done>>
  BY ClientsKeepLoop
<1>2. ASSUME NEW k \in Kind, Identify(c, k) \/ Send(c, k)
      PROVE  FlowInv'
  <2>1. /\ Sends(c, k) /\ conn' = conn /\ conn[c] # "out"
        /\ client' = client \/ \E x : client' = [client EXCEPT ![c] = x]
    BY <1>2 DEF Identify, Send, FlowInv
  <2>2. \A d \in Client : d # c => client'[d] = client[d]
    BY <1>0, <2>1
  <2> QED  BY ONLY FlowInv, c \in Client, k \in Kind, <1>1, <2>1, <2>2, SendsFlow
<1>3. CASE Connect(c)
  <2>1. /\ client' = [client EXCEPT ![c] = "connected"]
        /\ conn' = [conn EXCEPT ![c] = "backlog"]
        /\ conn[c] = "out" /\ UNCHANGED <<sent, up>>
    BY <1>3 DEF Connect, BatchInv
  <2>2. \A d \in Client : d # c => client'[d] = client[d] /\ conn'[d] = conn[d]
    BY <1>0, <2>1 DEF BatchInv
  <2>3. conn'[c] = "backlog"
    BY <2>1 DEF BatchInv
  <2>4. \A d \in Client : FlowOf(d)'
    BY <1>1, <2>1, <2>2, <2>3 DEF FlowInv, FlowOf, Unread
  <2>5. PacketAtHand'
    BY <1>1, <2>1, <2>2 DEF FlowInv, PacketAtHand
  <2> QED  BY <1>1, <2>1, <2>2, <2>3, <2>4, <2>5 DEF FlowInv
<1>4. CASE \/ Resume(c) \/ BeginPaint(c) \/ EndPaint(c) \/ ReadEvent(c)
           \/ Die(c) \/ Notice(c)
  <2>1. /\ UNCHANGED <<sent, up, conn>> /\ client[c] # "new"
        /\ \E x : client' = [client EXCEPT ![c] = x]
    BY <1>4 DEF Resume, BeginPaint, EndPaint, ReadEvent, Die, Notice, connection
  <2>2. \A d \in Client : conn[d] = "out" => client'[d] = client[d]
    BY <1>0, <2>1 DEF FlowInv
  <2>3. /\ pc' \notin {"feed", "down"} /\ packet = <<>> => cur = NoClient
        /\ pc' = "feed" => cur \in Client
    BY <1>1 DEF FlowInv
  <2> QED  BY <1>1, <2>1, <2>2, <2>3, FlowQuiet
<1> QED  BY <1>2, <1>3, <1>4 DEF ClientStep

\* A call of the reader, and what is done with the packet that comes out.
LEMMA FlowFeedStep ==
  ASSUME FlowInv, BatchInv, FeedReader
  PROVE  FlowInv'
<1> SUFFICES ASSUME NEW me \in Client, me = cur
             PROVE  FlowInv'
  BY DEF FeedReader, FlowInv
<1> DEFINE r == reader[me]
           f == Feed(r, buf)
           d == done[me]
           kinds == sent[me]
           more == up[me]
<1>1. /\ pc = "feed" /\ cur = me /\ me \in Client /\ conn[me] = "live"
      /\ UNCHANGED <<sent, client>>
  BY DEF FeedReader
<1>2. /\ reader' = [reader EXCEPT ![me] = f.reader]
      /\ buf' = f.rest
      /\ \/ /\ f.packet = <<>>
            /\ pc' = AfterPacket(f.rest)
            /\ UNCHANGED <<packet, done, out, conn, up>>
         \/ /\ f.packet # <<>>
            /\ done' = [done EXCEPT ![me] = @ + 1]
            /\ \/ /\ Disconnect(me)
                  /\ pc' = AfterPacket(f.rest)
                  /\ UNCHANGED <<packet, out>>
               \/ /\ packet' = f.packet
                  /\ pc' = "write"
                  /\ UNCHANGED <<conn, up>>
      /\ cur' = IF pc' \in {"feed", "write"} THEN me ELSE NoClient
  BY <1>1 DEF FeedReader
<1>3. /\ Filled(r) /\ buf \in Seq(Byte) /\ more \in Seq(Byte) /\ kinds \in Seq(Kind)
      /\ d \in Nat /\ Whole(Held(r) \o (buf \o more), kinds, d) /\ packet = <<>>
  BY <1>1 DEF FlowInv, FlowOf, Unread, PacketAtHand
<1>4. FedFlow(f, more, kinds, d)
  <2> HIDE DEF r, d, kinds, more
  <2> QED  BY ONLY <1>3, FeedFlow
<1> HIDE DEF f
<1>5. f.rest \in Seq(Byte)
  BY <1>4 DEF FedFlow
<1>6. f.packet = <<>> \/ f.reader = Fresh
  BY <1>4 DEF FedFlow
<1>7. Filled(f.reader) /\ f.reader.state # "done"
  <2>1. Fresh.state # "done"
    BY DEF Fresh
  <2> QED  BY <1>4, <1>6, <2>1, FreshFilled DEF FedFlow
<1>8. reader' \in [Client -> Reader] /\ reader'[me] = f.reader
      /\ \A c \in Client : c # me => reader'[c] = reader[c]
  <2>1. f.reader \in Reader
    BY <1>7 DEF Filled
  <2> QED  BY <1>1, <1>2, <2>1 DEF FlowInv
<1>9. /\ pc' \in {"feed", "write", "top", "batch"}
      /\ pc' \in {"top", "batch"} => f.rest = <<>>
      /\ pc' = "feed" => packet' = <<>>
      /\ pc' \in {"top", "batch"} => packet' = <<>>
      /\ pc' = "write" => f.packet # <<>> /\ packet' = f.packet /\ UNCHANGED conn
  BY <1>2, <1>3 DEF AfterPacket, AfterClient
<1>10. /\ up' \in [Client -> Seq(Byte)]
       /\ conn' \in [Client -> {"out", "backlog", "live", "freed"}]
       /\ \A c \in Client : c # me => up'[c] = up[c] /\ conn'[c] = conn[c]
       /\ conn'[me] # "freed" => up' = up
       /\ conn'[me] # "out"
       /\ conn'[me] \in {"live", "freed"}
  <2>1. <<>> \in Seq(Byte)
    OBVIOUS
  <2>2. CASE conn' = conn /\ up' = up
    BY <1>1, <2>2 DEF FlowInv, BatchInv
  <2>3. CASE Disconnect(me)
    BY <1>1, <2>1, <2>3 DEF Disconnect, FlowInv, BatchInv
  <2> QED  BY <1>2, <2>2, <2>3
<1>11. /\ done' \in [Client -> Nat]
       /\ \A c \in Client : c # me => done'[c] = done[c]
       /\ done'[me] = IF f.packet = <<>> THEN d ELSE d + 1
  BY <1>1, <1>2, <1>3 DEF FlowInv
<1>12. f.packet # <<>> => d + 1 <= Len(kinds) /\ f.packet = Wire(kinds[d + 1], d + 1)
  BY <1>3, <1>4 DEF FedFlow, Taken
<1>13. FlowOf(me)'
  <2> SUFFICES ASSUME conn'[me] # "freed"
               PROVE  FlowOf(me)'
    BY DEF FlowOf
  <2> DEFINE u == f.rest \o more
  <2>1. u \in Seq(Byte)
    BY <1>3, <1>5
  <2>2. Unread(me)' = u
    <3>0. up'[me] = more
      BY <1>10
    <3>1. CASE pc' \in {"feed", "write"}
      BY <1>2, <3>0, <3>1 DEF Unread
    <3>2. CASE pc' \in {"top", "batch"}
      <4>1. f.rest = <<>>
        BY <1>9, <3>2
      <4>2. u = more
        BY <1>3, <4>1
      <4>3. cur' = NoClient /\ NoClient # me
        BY <1>1, <1>2, <3>2, NoClientIsNone
      <4> QED  BY <3>0, <4>2, <4>3 DEF Unread
    <3> QED  BY <1>9, <3>1, <3>2
  <2> HIDE DEF u
  <2>3. CASE f.packet = <<>>
    <3>1. Whole(Held(f.reader) \o u, kinds, d)
      BY <1>4, <2>3 DEF FedFlow, u
    <3> QED  BY <1>1, <1>8, <1>11, <2>2, <2>3, <3>1 DEF FlowOf
  <2>4. CASE f.packet # <<>>
    <3>1. Whole(u, kinds, d + 1) /\ f.reader = Fresh
      BY <1>4, <2>4 DEF FedFlow, Taken, u
    <3>2. Held(f.reader) \o u = u
      BY <2>1, <3>1, FreshFilled
    <3> QED  BY <1>1, <1>8, <1>11, <2>2, <2>4, <3>1, <3>2 DEF FlowOf
  <2> QED  BY <2>3, <2>4
<1>14. ASSUME NEW c \in Client
       PROVE  /\ done'[c] <= Len(sent'[c])
              /\ Filled(reader'[c]) /\ reader'[c].state # "done"
              /\ conn'[c] = "out" => client'[c] = "new" /\ up'[c] = <<>>
              /\ FlowOf(c)'
  <2>1. CASE c = me
    <3>1. done'[me] <= Len(kinds)
      BY <1>1, <1>11, <1>12 DEF FlowInv
    <3> QED  BY <1>1, <1>7, <1>8, <1>10, <1>13, <2>1, <3>1
  <2>2. CASE c # me
    <3>1. FlowOf(c)'
      <4>1. Unread(c)' = up[c] /\ Unread(c) = up[c]
        <5>1. c # cur' /\ c # cur
          BY <1>1, <1>2, <2>2, NoClientIsNone
        <5> QED  BY ONLY <1>10, <2>2, <5>1, c \in Client DEF Unread
      <4> QED  BY <1>1, <1>8, <1>10, <1>11, <2>2, <4>1 DEF FlowInv, FlowOf
    <3> QED  BY <1>1, <1>8, <1>10, <1>11, <2>2, <3>1 DEF FlowInv
  <2> QED  BY <2>1, <2>2
<1>15. PacketAtHand'
  <2>1. CASE pc' # "write"
    <3>1. packet' = <<>>
      BY <1>9, <2>1
    <3> QED  BY <3>1 DEF PacketAtHand
  <2>2. CASE pc' = "write"
    <3>1. /\ f.packet # <<>> /\ packet' = f.packet /\ UNCHANGED conn
          /\ cur' = me
      BY <1>2, <1>9, <2>2
    <3>2. done'[me] = d + 1 /\ d + 1 > 0 /\ f.packet = Wire(kinds[d + 1], d + 1)
      BY <1>3, <1>11, <1>12, <3>1
    <3> QED  BY <1>1, <2>2, <3>1, <3>2 DEF PacketAtHand
  <2> QED  BY <2>1, <2>2
<1>16. /\ cur' \in Client \cup {NoClient}
       /\ pc' \notin {"feed", "down"} /\ packet' = <<>> => cur' = NoClient
       /\ pc' = "feed" => cur' \in Client
  BY <1>1, <1>2, <1>9
<1> QED  BY <1>1, <1>2, <1>5, <1>8, <1>10, <1>11, <1>14, <1>15, <1>16 DEF FlowInv

\* The bytes a client has sent arrive in its buffer and in its socket.
LEMMA FlowReadStep ==
  ASSUME FlowInv, BatchInv, NEW c \in Client, NEW n \in 1 .. Len(up[c]), ReadBytes(c, n)
  PROVE  FlowInv'
<1> DEFINE u == up[c]
           head == SubSeq(u, 1, n)
           tail == SubSeq(u, n + 1, Len(u))
<1>1. /\ pc = "batch" /\ pc' = "feed" /\ cur' = c /\ buf' = head
      /\ up' = [up EXCEPT ![c] = tail]
      /\ UNCHANGED <<packet, reader, done, conn, client, sent>>
      /\ conn[c] = "live"
  BY DEF ReadBytes, BatchInv
<1>2. packet = <<>> /\ cur = NoClient
  BY <1>1 DEF FlowInv, PacketAtHand
<1>3. u \in Seq(Byte) /\ Len(u) \in Nat /\ n \in 1 .. Len(u)
  BY DEF FlowInv
<1> HIDE DEF u
<1>4. head \in Seq(Byte) /\ tail \in Seq(Byte) /\ head \o tail = u
  BY ONLY <1>3, SplitSequence
<1>5. /\ up' \in [Client -> Seq(Byte)] /\ up'[c] = tail
      /\ \A d \in Client : d # c => up'[d] = up[d]
  BY <1>1, <1>4 DEF FlowInv
<1>6. ASSUME NEW d \in Client
      PROVE  /\ conn'[d] = "out" => client'[d] = "new" /\ up'[d] = <<>>
             /\ Unread(d)' = Unread(d)
  <2>1. Unread(d) = up[d]
    BY <1>2, NoClientIsNone DEF Unread
  <2>2. CASE d = c
    BY <1>1, <1>4, <1>5, <2>1, <2>2 DEF Unread, u
  <2>3. CASE d # c
    BY <1>1, <1>5, <2>1, <2>3 DEF Unread, FlowInv
  <2> QED  BY <2>2, <2>3
<1>7. \A d \in Client : FlowOf(d)'
  BY <1>1, <1>6 DEF FlowInv, FlowOf
<1>8. PacketAtHand'
  BY <1>1, <1>2 DEF PacketAtHand
<1> QED  BY <1>1, <1>4, <1>5, <1>6, <1>7, <1>8 DEF FlowInv

LEMMA FlowStep ==
  ASSUME FlowInv, BatchInv, [Next]_vars
  PROVE  FlowInv'
<1> USE DEF wayland, handling, connection
<1>1. ASSUME NEW c \in Client, ClientStep(c)
      PROVE  FlowInv'
  BY <1>1, FlowClientStep
<1>2. ASSUME NEW c \in Client, NEW n \in 1 .. Len(up[c]), ReadBytes(c, n)
      PROVE  FlowInv'
  BY <1>2, FlowReadStep
<1>3. CASE FeedReader
  BY <1>3, FlowFeedStep
<1>4. CASE \/ UNCHANGED vars \/ Signal \/ Prepare \/ LoopClosed \/ HangUp \/ Gather
           \/ UseFreed \/ Dispatched \/ DispatchPending \/ \E c \in Client : Write(c)
  <2>1. /\ UNCHANGED <<sent, up, done, reader, buf, conn, client>>
        /\ packet' = packet /\ cur' = cur
        /\ packet # <<>> => pc' = pc
        /\ pc' \notin {"feed", "down"} => pc # "feed" /\ pc # "down"
        /\ pc' = "feed" => pc = "feed"
    <3>1. CASE DispatchPending
      BY <3>1 DEF DispatchPending, FlowInv, PacketAtHand
    <3>2. CASE UNCHANGED vars \/ Signal \/ \E c \in Client : Write(c)
      BY <3>2 DEF vars, Signal, Write, WriteFailed
    <3>3. CASE Prepare \/ LoopClosed \/ HangUp \/ Gather
      BY <3>3 DEF Prepare, LoopClosed, HangUp, Gather, FlowInv, PacketAtHand
    <3>4. CASE UseFreed \/ Dispatched
      BY <3>4 DEF UseFreed, Dispatched, FlowInv, PacketAtHand
    <3> QED  BY <1>4, <3>1, <3>2, <3>3, <3>4
  <2>2. /\ pc' \notin {"feed", "down"} /\ packet = <<>> => cur = NoClient
        /\ pc' = "feed" => cur \in Client
    BY <2>1 DEF FlowInv
  <2> QED  BY <2>1, <2>2, FlowQuiet
<1>5. ASSUME NEW a \in SUBSET Client, NEW read \in Reads, NEW qws \in BOOLEAN,
             Poll(a, read, qws)
      PROVE  FlowInv'
  <2>1. /\ pc = "wait" /\ pc' \in {"shutdown", "qws", "top"}
        /\ \A c \in a : conn[c] = "backlog"
        /\ conn' = [c \in Client |-> IF c \in a THEN "live" ELSE conn[c]]
        /\ UNCHANGED <<sent, up, done, reader, buf, cur, packet, client>>
    BY <1>5 DEF Poll, Accept
  <2>2. packet = <<>> /\ cur = NoClient
    BY <2>1 DEF FlowInv, PacketAtHand
  <2>3. \A c \in Client : /\ conn'[c] = "freed" \/ conn[c] # "freed"
                          /\ conn'[c] = "out" => conn[c] = "out"
    BY <2>1
  <2> QED  BY <2>1, <2>2, <2>3, FlowQuiet
<1>6. ASSUME NEW c \in Client, DisconnectGone(c)
      PROVE  FlowInv'
  <2>1. /\ pc = "batch" /\ pc' \in {"top", "batch"}
        /\ conn' = [conn EXCEPT ![c] = "freed"] /\ up' = [up EXCEPT ![c] = <<>>]
        /\ UNCHANGED <<sent, done, reader, buf, cur, packet, client>>
    BY <1>6 DEF DisconnectGone, Disconnect, AfterClient
  <2>2. packet = <<>> /\ cur = NoClient
    BY <2>1 DEF FlowInv, PacketAtHand
  <2>3. /\ up' \in [Client -> Seq(Byte)] /\ conn'[c] = "freed"
        /\ \A d \in Client : d # c => conn'[d] = conn[d] /\ up'[d] = up[d]
    <3>1. <<>> \in Seq(Byte)
      OBVIOUS
    <3> QED  BY <2>1, <3>1 DEF FlowInv, BatchInv
  <2>4. \A d \in Client : FlowOf(d)'
    BY <2>1, <2>3 DEF FlowInv, FlowOf, Unread
  <2>5. PacketAtHand'
    BY <2>1, <2>2 DEF PacketAtHand
  <2> QED  BY <2>1, <2>2, <2>3, <2>4, <2>5 DEF FlowInv
<1>7. CASE Shutdown
  <2>1. /\ pc = "shutdown" /\ pc' = "down"
        /\ conn' = [c \in Client |->
                      IF conn[c] \in {"live", "backlog"} THEN "freed" ELSE conn[c]]
        /\ up' = [c \in Client |-> <<>>]
        /\ UNCHANGED <<sent, done, reader, buf, cur, packet, client>>
    BY <1>7 DEF Shutdown
  <2>2. packet = <<>> /\ cur = NoClient
    BY <2>1 DEF FlowInv, PacketAtHand
  <2>3. /\ up' \in [Client -> Seq(Byte)]
        /\ \A c \in Client : conn'[c] # "freed" => conn[c] = "out" /\ conn'[c] = "out"
    <3>1. <<>> \in Seq(Byte)
      OBVIOUS
    <3> QED  BY <2>1, <3>1 DEF BatchInv
  <2>4. ASSUME NEW c \in Client, conn'[c] # "freed"
        PROVE  up'[c] = up[c]
    BY <2>1, <2>3, <2>4 DEF FlowInv
  <2>5. \A c \in Client : FlowOf(c)'
    BY <2>1, <2>3, <2>4 DEF FlowInv, FlowOf, Unread
  <2>6. PacketAtHand'
    BY <2>1, <2>2 DEF PacketAtHand
  <2> QED  BY <2>1, <2>2, <2>3, <2>4, <2>5, <2>6 DEF FlowInv
<1>8. CASE Finish
  <2>1. /\ pc = "write" /\ packet # <<>> /\ packet' = <<>>
        /\ pc' \in IF buf = <<>> THEN {"top", "batch"} ELSE {"feed"}
        /\ cur' = IF buf = <<>> THEN NoClient ELSE cur
        /\ UNCHANGED <<sent, done, reader, buf, conn, up, client>>
    BY <1>8 DEF Finish, AfterPacket, AfterClient
  <2>2. cur \in Client /\ cur # NoClient
    BY <2>1, NoClientIsNone DEF FlowInv, PacketAtHand
  <2>3. \A c \in Client : Unread(c)' = Unread(c)
    <3>1. CASE buf = <<>>
      <4>1. \A c \in Client : buf \o up[c] = up[c]
        BY <3>1 DEF FlowInv
      <4>2. cur' \notin Client
        BY <2>1, <3>1, NoClientIsNone
      <4> QED  BY ONLY <2>1, <4>1, <4>2 DEF Unread
    <3>2. CASE buf # <<>>
      BY <2>1, <3>2 DEF Unread
    <3> QED  BY <3>1, <3>2
  <2>4. \A c \in Client : FlowOf(c)'
    BY <2>1, <2>3 DEF FlowInv, FlowOf
  <2>5. PacketAtHand'
    BY <2>1 DEF PacketAtHand
  <2> QED  BY <2>1, <2>2, <2>4, <2>5 DEF FlowInv
<1> QED  BY <1>1, <1>2, <1>3, <1>4, <1>5, <1>6, <1>7, <1>8 DEF Next, Proxy

LEMMA FlowInit == Init => FlowInv
<1> SUFFICES ASSUME Init
             PROVE  FlowInv
  OBVIOUS
<1>1. <<>> \in Seq(Byte) /\ <<>> \in Seq(Kind)
  OBVIOUS
<1>2. Filled(Fresh) /\ Held(Fresh) = <<>> /\ Fresh.state # "done" /\ Fresh \in Reader
  <2>1. Fresh.state # "done"
    BY DEF Fresh
  <2> QED  BY <2>1, FreshFilled DEF Filled
<1>3. ASSUME NEW c \in Client
      PROVE  /\ done[c] <= Len(sent[c])
             /\ Filled(reader[c]) /\ reader[c].state # "done"
             /\ conn[c] = "out" => client[c] = "new" /\ up[c] = <<>>
             /\ FlowOf(c)
  <2>1. /\ reader[c] = Fresh /\ up[c] = <<>> /\ buf = <<>> /\ sent[c] = <<>>
        /\ done[c] = 0 /\ client[c] = "new"
    BY DEF Init
  <2>2. Unread(c) = <<>>
    BY <2>1 DEF Unread
  <2>3. Held(reader[c]) \o Unread(c) = <<>>
    BY <1>1, <1>2, <2>1, <2>2
  <2>4. Whole(<<>>, <<>>, 0)
    BY <1>1 DEF Whole
  <2> QED  BY <1>2, <2>1, <2>3, <2>4 DEF FlowOf
<1>4. PacketAtHand
  BY DEF Init, PacketAtHand
<1> QED  BY <1>1, <1>2, <1>3, <1>4 DEF Init, FlowInv

\* However the bytes of a client are cut into pieces on their way, a command
\* that is dispatched is the one its client sent next (qws_reader_feed(),
\* qwswl_handle_client_data()).
THEOREM PacketsStayWhole == Spec => []PacketsWhole
<1>1. FlowInv => PacketsWhole
  BY DEF FlowInv, PacketAtHand, PacketsWhole
<1> QED  BY <1>1, BatchInit, FlowInit, BatchStep, FlowStep, PTL DEF Spec

----------------------------------------------------------------------------
(* The client whose bytes are being handled. *)

\* What the reader is fed comes next, and so does the command it completes.
FedNext(f, c) ==
  /\ FedFlow(f, up[c], sent[c], done[c])
  /\ f.packet # <<>> =>
       done[c] < Len(sent[c]) /\ f.packet[1].kind = sent[c][done[c] + 1]

LEMMA WireKind ==
  ASSUME NEW k \in Kind, NEW n \in Nat
  PROVE  Wire(k, n)[1].kind = k
<1>1. 1 \in 1 .. Length(k)
  BY LengthIsPositive
<1>2. Wire(k, n)[1] = [kind |-> k, n |-> n, i |-> 1]
  BY <1>1, WireType
<1> QED  BY <1>2

LEMMA FeedsNext ==
  ASSUME FlowInv, FeedReader, NEW me \in Client, me = cur
  PROVE  FedNext(Feed(reader[me], buf), me)
<1> DEFINE r == reader[me]
           f == Feed(r, buf)
           d == done[me]
           kinds == sent[me]
           more == up[me]
<1>1. /\ Filled(r) /\ buf \in Seq(Byte) /\ more \in Seq(Byte) /\ kinds \in Seq(Kind)
      /\ d \in Nat /\ Whole(Held(r) \o (buf \o more), kinds, d)
  <2>1. pc = "feed" /\ conn[me] = "live"
    BY DEF FeedReader
  <2> QED  BY <2>1 DEF FlowInv, FlowOf, Unread
<1>2. FedFlow(f, more, kinds, d)
  <2> HIDE DEF r, d, kinds, more
  <2> QED  BY ONLY <1>1, FeedFlow
<1> HIDE DEF f
<1>3. ASSUME f.packet # <<>>
      PROVE  d < Len(kinds) /\ f.packet[1].kind = kinds[d + 1]
  <2> DEFINE e == d + 1
             k == kinds[e]
  <2>1. d < Len(kinds) /\ f.packet = Wire(k, e)
    BY <1>2, <1>3 DEF FedFlow, Taken
  <2>2. e \in Nat /\ k \in Kind
    BY <1>1, <2>1
  <2> HIDE DEF e, k
  <2>3. f.packet[1].kind = k
    BY <2>1, <2>2, WireKind
  <2> QED  BY <2>1, <2>3 DEF e, k
<1> QED  BY <1>2, <1>3 DEF FedNext, f

LivesOrRude ==
  pc \in {"feed", "write"} /\ cur # NoClient => conn[cur] = "live" \/ RudeClient(cur)

\* Commands that are sent take none back.
LEMMA StaysRude ==
  ASSUME sent \in [Client -> Seq(Kind)], NEW c \in Client, NEW d \in Client, RudeClient(d),
         sent' = sent \/ \E k \in Kind : sent' = [sent EXCEPT ![c] = Append(@, k)]
  PROVE  RudeClient(d)'
<1>1. CASE sent'[d] = sent[d]
  BY <1>1 DEF RudeClient
<1>2. CASE sent'[d] # sent[d]
  <2> DEFINE s == sent[d]
  <2>1. PICK k \in Kind : sent'[d] = Append(s, k)
    BY <1>2
  <2>2. PICK i \in 1 .. Len(s) - 1 : Parting(s[i])
    BY DEF RudeClient
  <2>3. s \in Seq(Kind)
    OBVIOUS
  <2> HIDE DEF s
  <2>4. i \in 1 .. Len(Append(s, k)) - 1 /\ Append(s, k)[i] = s[i]
    BY <2>3
  <2> QED  BY <2>1, <2>2, <2>4 DEF RudeClient
<1> QED  BY <1>1, <1>2

\* When there are bytes after a command that ends the connection, the client
\* has sent on.
LEMMA RudeFeedStep ==
  ASSUME FlowInv, FeedReader
  PROVE  LivesOrRude'
<1> SUFFICES ASSUME NEW me \in Client, me = cur
             PROVE  LivesOrRude'
  BY DEF FeedReader, FlowInv
<1> DEFINE r == reader[me]
           f == Feed(r, buf)
           d == done[me]
           kinds == sent[me]
           more == up[me]
<1>1. /\ pc = "feed" /\ conn[me] = "live" /\ sent' = sent
      /\ cur' = me \/ pc' \notin {"feed", "write"}
      /\ \/ conn' = conn
         \/ /\ f.packet # <<>> /\ Parting(f.packet[1].kind)
            /\ pc' = AfterPacket(f.rest)
  BY DEF FeedReader
<1>2. /\ more \in Seq(Byte) /\ kinds \in Seq(Kind) /\ d \in Nat
  BY DEF FlowInv
<1>3. FedNext(f, me)
  BY FeedsNext
<1> HIDE DEF f
<1>4. CASE conn' = conn
  BY <1>1, <1>4 DEF LivesOrRude
<1>5. CASE pc' # "feed" /\ conn' # conn
  BY <1>1, <1>5 DEF LivesOrRude, AfterPacket, AfterClient
<1>6. CASE pc' = "feed" /\ conn' # conn
  <2>1. f.packet # <<>> /\ Parting(f.packet[1].kind) /\ f.rest # <<>>
    BY <1>1, <1>6 DEF AfterPacket, AfterClient
  <2>2. /\ f.rest \in Seq(Byte) /\ f.packet[1].kind = kinds[d + 1]
        /\ Whole(f.rest \o more, kinds, d + 1)
    BY <1>3, <2>1 DEF FedNext, FedFlow, Taken
  <2>3. f.rest \o more # <<>>
    BY <1>2, <2>1, <2>2
  <2>4. d + 1 < Len(kinds)
    BY <2>2, <2>3 DEF Whole
  <2>6. d + 1 \in 1 .. Len(kinds) - 1
    BY <1>2, <2>4
  <2>7. RudeClient(me)'
    BY <1>1, <2>1, <2>2, <2>6 DEF RudeClient
  <2> QED  BY <1>1, <1>6, <2>7 DEF LivesOrRude
<1> QED  BY <1>4, <1>5, <1>6

LEMMA RudeStep ==
  ASSUME LivesOrRude, FlowInv, BatchInv, [Next]_vars
  PROVE  LivesOrRude'
<1> USE DEF wayland, handling, connection
<1>1. ASSUME NEW c \in Client, ClientStep(c)
      PROVE  LivesOrRude'
  <2>1. UNCHANGED <<pc, cur>>
    BY <1>1, ClientsKeepLoop
  <2>2. \/ conn' = conn
        \/ conn[c] = "out" /\ conn' = [conn EXCEPT ![c] = "backlog"]
    BY <1>1 DEF ClientStep, Connect, Identify, Send, Resume, BeginPaint, EndPaint,
                ReadEvent, Die, Notice, BatchInv
  <2>3. sent' = sent \/ \E k \in Kind : sent' = [sent EXCEPT ![c] = Append(@, k)]
    BY <1>1 DEF ClientStep, Connect, Identify, Send, Resume, BeginPaint, EndPaint,
                ReadEvent, Die, Notice, Sends
  <2>4. ASSUME NEW d \in Client, conn[d] = "live"
        PROVE  conn'[d] = "live"
    BY <2>2, <2>4 DEF BatchInv
  <2>5. ASSUME NEW d \in Client, RudeClient(d)
        PROVE  RudeClient(d)'
    BY <2>3, <2>5, StaysRude DEF FlowInv
  <2>6. ASSUME NEW d \in Client, d = cur, pc \in {"feed", "write"}
        PROVE  LivesOrRude'
    <3>1. conn[d] = "live" \/ RudeClient(d)
      BY <2>6, NoClientIsNone DEF LivesOrRude, RudeClient
    <3>2. conn'[d] = "live" \/ RudeClient(d)'
      BY <2>4, <2>5, <3>1
    <3> QED  BY <2>1, <2>6, <3>2 DEF LivesOrRude, RudeClient
  <2>7. CASE pc \notin {"feed", "write"} \/ cur = NoClient
    BY <2>1, <2>7 DEF LivesOrRude
  <2> QED  BY <2>6, <2>7 DEF FlowInv
<1>2. ASSUME NEW c \in Client, NEW n \in 1 .. Len(up[c]), ReadBytes(c, n)
      PROVE  LivesOrRude'
  <2>1. cur' = c /\ conn' = conn /\ conn[c] = "live"
    BY <1>2 DEF ReadBytes, BatchInv
  <2> QED  BY <2>1 DEF LivesOrRude
<1>3. CASE FeedReader
  BY <1>3, RudeFeedStep
<1>4. CASE UNCHANGED vars \/ Signal \/ \E c \in Client : Write(c)
  <2>1. UNCHANGED <<pc, cur, conn, sent>>
    BY <1>4 DEF vars, Signal, Write, WriteFailed
  <2> QED  BY <2>1 DEF LivesOrRude, RudeClient
<1>5. CASE Finish
  <2>1. /\ cur' \in {cur, NoClient} /\ conn' = conn /\ packet # <<>>
    BY <1>5 DEF Finish
  <2>2. conn[cur] = "live"
    BY <2>1 DEF FlowInv, PacketAtHand
  <2> QED  BY <2>1, <2>2 DEF LivesOrRude
<1>6. CASE DispatchPending
  BY <1>6 DEF DispatchPending, LivesOrRude
<1>7. CASE \/ Prepare \/ LoopClosed \/ HangUp \/ Gather \/ UseFreed \/ Dispatched
           \/ Shutdown \/ \E c \in Client : DisconnectGone(c)
  <2>1. pc' \notin {"feed", "write"}
    BY <1>7 DEF Prepare, LoopClosed, HangUp, Gather, UseFreed, Dispatched, Shutdown,
                DisconnectGone, AfterClient
  <2> QED  BY <2>1 DEF LivesOrRude
<1>8. ASSUME NEW a \in SUBSET Client, NEW read \in Reads, NEW qws \in BOOLEAN,
             Poll(a, read, qws)
      PROVE  LivesOrRude'
  BY <1>8 DEF Poll, LivesOrRude
<1> QED  BY <1>1, <1>2, <1>3, <1>4, <1>5, <1>6, <1>7, <1>8 DEF Next, Proxy

\* The clients whose events are still to be handled are not freed by the
\* handling of others, and the one whose bytes are being handled only when it
\* has sent on after a command that ends its connection: but for that the
\* pointers in qws_events are good (qwswl_run(), qwswl_handle_client_data()).
THEOREM FreedOnlyWhenRude == Spec => []BatchLives
<1>1. Init => LivesOrRude
  BY DEF Init, LivesOrRude
<1>2. BatchInv /\ LivesOrRude => BatchLives
  BY DEF BatchInv, LivesOrRude, BatchLives
<1> QED  BY <1>1, <1>2, BatchInit, FlowInit, BatchStep, FlowStep, RudeStep, PTL DEF Spec

----------------------------------------------------------------------------
(* The answers to synchronous commands. *)

Event == [type : {"identify", "region", "other"}, n : Nat]

\* The synchronous commands of a client that were not answered.
Unanswered(c) == {i \in Handled(c) + 1 .. Len(sent[c]) : Sync(sent[c][i])}

\* The last command of c was handled up to the writing of its event.
Notified(c) ==
  done[c] = Len(sent[c]) /\ ~(cur = c /\ packet # <<>> /\ c \in out)

RegionTold(c) ==
  \E i \in 1 .. Len(down[c]) : down[c][i] = [type |-> "region", n |-> Len(sent[c])]

\* A client waits from a synchronous command, the last it sends, until it is
\* answered.
AnswerFor(c) ==
  /\ client[c] = "waiting" => sent[c] # <<>>
  /\ conn[c] # "freed" =>
       /\ comm[c] = IF Unanswered(c) = {} THEN 1 ELSE 0
       /\ \A i \in Unanswered(c) :
            i = Len(sent[c]) /\ client[c] \in {"waiting", "gone"}
       /\ (/\ client[c] = "waiting" /\ sent[c][Len(sent[c])] = "region"
           /\ Notified(c))
          => RegionTold(c)

AnswerInv ==
  /\ comm \in [Client -> Nat]
  /\ down \in [Client -> Seq(Event)]
  /\ \A c \in Client : AnswerFor(c)

\* The command at hand is the last that was completed.
LEMMA CommandIs ==
  ASSUME FlowInv, packet # <<>>, NEW c \in Client, c = cur
  PROVE  done[c] \in 1 .. Len(sent[c]) /\ Command = sent[c][done[c]]
<1> DEFINE n == done[c]
           k == sent[c][n]
<1>1. /\ n \in Nat \ {0} /\ n <= Len(sent[c]) /\ sent[c] \in Seq(Kind)
      /\ packet = Wire(k, n)
  BY DEF FlowInv, PacketAtHand
<1>2. n \in 1 .. Len(sent[c]) /\ n \in Nat
  BY <1>1
<1>3. k \in Kind
  BY <1>1, <1>2
<1> HIDE DEF n, k
<1>4. Wire(k, n)[1].kind = k
  BY <1>2, <1>3, WireKind
<1> QED  BY <1>1, <1>2, <1>4 DEF Command, n, k

\* A client that is left alone, or leaves.
LEMMA AnswerKept ==
  ASSUME NEW c \in Client, AnswerFor(c),
         conn'[c] = "freed" \/ conn[c] # "freed",
         sent'[c] = sent[c],
         client'[c] = "waiting" => client[c] = "waiting",
         conn'[c] # "freed" =>
           /\ Handled(c)' = Handled(c) /\ comm'[c] = comm[c]
           /\ \/ client'[c] \in {client[c], "gone"}
              \/ client[c] # "gone" /\ Unanswered(c) = {}
           /\ client'[c] = "waiting" => /\ Notified(c)' => Notified(c)
                                        /\ down'[c] = down[c]
  PROVE  AnswerFor(c)'
<1>1. CASE conn'[c] = "freed"
  BY <1>1 DEF AnswerFor
<1>2. CASE conn'[c] # "freed"
  <2>1. Unanswered(c)' = Unanswered(c)
    BY <1>2 DEF Unanswered
  <2>2. client'[c] = "waiting" /\ RegionTold(c) => RegionTold(c)'
    BY <1>2 DEF RegionTold
  <2> QED  BY <1>2, <2>1, <2>2 DEF AnswerFor
<1> QED  BY <1>1, <1>2

\* A client that is not waiting has no command unanswered, so that a synchronous
\* one it sends is the only one.
LEMMA AnswerSend ==
  ASSUME FlowInv, AnswerInv, NEW c \in Client, NEW k \in Kind, Sends(c, k),
         conn[c] # "freed", conn' = conn, UNCHANGED <<cur, packet, done>>,
         client[c] \notin {"waiting", "gone"},
         Sync(k) => client'[c] = "waiting" /\ comm'[c] = comm[c] - 1,
         ~Sync(k) => client'[c] # "waiting" /\ comm'[c] = comm[c]
  PROVE  AnswerFor(c)'
<1> DEFINE kinds == sent[c]
           n == Len(kinds)
           all == Append(kinds, k)
<1>1. kinds \in Seq(Kind) /\ n \in Nat /\ done[c] \in Nat /\ done[c] <= n
  BY DEF FlowInv
<1>2. sent'[c] = all
  BY DEF Sends, FlowInv
<1>3. Handled(c)' = Handled(c) /\ Handled(c) \in Int /\ Handled(c) <= n
  BY <1>1 DEF Handled
<1>4. Unanswered(c) = {} /\ comm[c] = 1
  BY DEF AnswerInv, AnswerFor
<1>5. /\ Len(all) = n + 1 /\ all[n + 1] = k /\ all # <<>>
      /\ \A i \in 1 .. n : all[i] = kinds[i]
  BY <1>1
<1> HIDE DEF kinds, all
<1>6. \A i \in Handled(c) + 1 .. n : i \in 1 .. n
  <2>1. Handled(c) >= 0
    <3>1. CASE cur = c /\ packet # <<>>
      BY <3>1, CommandIs DEF Handled
    <3>2. CASE ~(cur = c /\ packet # <<>>)
      BY <1>1, <3>2 DEF Handled
    <3> QED  BY <3>1, <3>2
  <2> QED  BY <1>1, <1>3, <2>1
<1>7. \A i \in Handled(c) + 1 .. n : ~Sync(all[i])
  BY <1>4, <1>5, <1>6 DEF Unanswered, kinds
<1>8. Unanswered(c)' = {i \in Handled(c) + 1 .. n + 1 : Sync(all[i])}
  BY <1>2, <1>3, <1>5 DEF Unanswered
<1>9. Unanswered(c)' = IF Sync(k) THEN {n + 1} ELSE {}
  <2>1. \A i \in Handled(c) + 1 .. n + 1 : i = n + 1 \/ i \in Handled(c) + 1 .. n
    BY <1>1, <1>3
  <2>2. n + 1 \in Handled(c) + 1 .. n + 1
    BY <1>1, <1>3
  <2> QED  BY <1>5, <1>7, <1>8, <2>1, <2>2
<1>10. ~Notified(c)'
  <2>1. done[c] # n + 1
    BY <1>1
  <2> QED  BY <1>2, <1>5, <2>1 DEF Notified
<1> QED  BY <1>2, <1>4, <1>5, <1>9, <1>10 DEF AnswerFor

LEMMA AnswerClientStep ==
  ASSUME FlowInv, BatchInv, AnswerInv, NEW c \in Client, ClientStep(c)
  PROVE  AnswerInv'
<1>1. UNCHANGED <<cur, packet, out, done>>
  BY ClientsKeepLoop
<1>2. /\ \E x : client' = [client EXCEPT ![c] = x]
      /\ \/ conn' = conn
         \/ conn[c] = "out" /\ conn' = [conn EXCEPT ![c] = "backlog"]
      /\ \/ sent' = sent
         \/ \E x : sent' = [sent EXCEPT ![c] = x]
      /\ \/ comm' = comm
         \/ comm[c] = 1 /\ comm' = [comm EXCEPT ![c] = @ - 1]
      /\ \/ down' = down
         \/ down' = [down EXCEPT ![c] = <<>>]
         \/ /\ down[c] # <<>> /\ client'[c] # "waiting"
            /\ down' = [down EXCEPT ![c] = Tail(@)]
  <2>1. client \in [Client -> ClientState] /\ client = [client EXCEPT ![c] = client[c]]
    BY DEF BatchInv
  <2>2. CASE Connect(c) \/ Die(c) \/ Notice(c)
    BY <2>2 DEF Connect, Die, Notice, connection, BatchInv
  <2>3. CASE Resume(c) \/ BeginPaint(c) \/ EndPaint(c)
    BY <2>3 DEF Resume, BeginPaint, EndPaint, connection
  <2>4. CASE \E k \in Kind : Identify(c, k)
    BY <2>4 DEF Identify, Sends
  <2>5. CASE \E k \in Kind : Send(c, k)
    BY <2>1, <2>5 DEF Send, Sends
  <2>6. CASE ReadEvent(c)
    <3>1. client'[c] # "waiting"
      BY <2>1, <2>6 DEF ReadEvent
    <3> QED  BY <2>6, <3>1 DEF ReadEvent
  <2> QED  BY <2>2, <2>3, <2>4, <2>5, <2>6 DEF ClientStep
<1>3. comm' \in [Client -> Nat]
  <2>1. comm[c] = 1 => comm[c] - 1 \in Nat
    OBVIOUS
  <2> QED  BY <1>2, <2>1 DEF AnswerInv
<1>4. down' \in [Client -> Seq(Event)]
  <2>1. <<>> \in Seq(Event)
    OBVIOUS
  <2>2. down[c] # <<>> => Tail(down[c]) \in Seq(Event)
    BY DEF AnswerInv
  <2> QED  BY <1>2, <2>1, <2>2 DEF AnswerInv
<1>5. ASSUME NEW d \in Client, d # c
      PROVE  AnswerFor(d)'
  <2>1. /\ client'[d] = client[d] /\ conn'[d] = conn[d] /\ sent'[d] = sent[d]
        /\ comm'[d] = comm[d] /\ down'[d] = down[d]
    BY <1>2, <1>5 DEF BatchInv, FlowInv, AnswerInv
  <2>2. Handled(d)' = Handled(d) /\ Notified(d)' = Notified(d)
    BY <1>1, <2>1 DEF Handled, Notified
  <2>3. AnswerFor(d)
    BY DEF AnswerInv
  <2> QED  BY <2>1, <2>2, <2>3, AnswerKept
<1>6. AnswerFor(c)'
  <2>0. AnswerFor(c) /\ client \in [Client -> ClientState] /\ Handled(c)' = Handled(c)
    BY <1>1 DEF AnswerInv, BatchInv, Handled
  <2>1. ASSUME NEW k \in Kind, Identify(c, k) \/ Send(c, k)
        PROVE  AnswerFor(c)'
    <3>1. /\ Sends(c, k) /\ conn[c] # "freed" /\ conn' = conn
          /\ client[c] \notin {"waiting", "gone"}
          /\ Sync(k) => client'[c] = "waiting" /\ comm'[c] = comm[c] - 1
          /\ ~Sync(k) => client'[c] # "waiting" /\ comm'[c] = comm[c]
      BY <2>0, <2>1 DEF Identify, Send, AnswerInv, First, Sync
    <3> QED  BY <1>1, <3>1, AnswerSend
  <2>2. CASE Resume(c)
    <3>1. /\ client[c] = "waiting" /\ client'[c] = "idle"
          /\ UNCHANGED <<conn, sent, comm>>
          /\ comm[c] > 0 \/ conn[c] = "freed"
      BY <2>0, <2>2 DEF Resume, connection
    <3>2. conn[c] # "freed" => Unanswered(c) = {}
      BY <2>0, <3>1 DEF AnswerFor
    <3> QED  BY <2>0, <3>1, <3>2, AnswerKept
  <2>3. CASE Connect(c)
    <3>1. /\ client[c] = "new" /\ client'[c] = "connected" /\ UNCHANGED <<sent, comm>>
          /\ conn[c] # "freed" /\ client[c] # "gone"
      BY <2>0, <2>3 DEF Connect, BatchInv
    <3>2. Unanswered(c) = {}
      BY <2>0, <3>1 DEF AnswerFor
    <3> QED  BY <2>0, <3>1, <3>2, AnswerKept
  <2>4. CASE BeginPaint(c) \/ EndPaint(c) \/ ReadEvent(c)
    <3>1. /\ client[c] \notin {"waiting", "gone"} /\ client'[c] # "waiting"
          /\ UNCHANGED <<sent, comm, conn>>
      BY <2>0, <2>4 DEF BeginPaint, EndPaint, ReadEvent, connection
    <3>2. conn[c] # "freed" => Unanswered(c) = {}
      BY <2>0, <3>1 DEF AnswerFor
    <3> QED  BY <2>0, <3>1, <3>2, AnswerKept
  <2>5. CASE Die(c) \/ Notice(c)
    <3>1. client'[c] = "gone" /\ UNCHANGED <<sent, comm, conn>>
      BY <2>0, <2>5 DEF Die, Notice
    <3> QED  BY <2>0, <3>1, AnswerKept
  <2> QED  BY <2>1, <2>2, <2>3, <2>4, <2>5 DEF ClientStep
<1> QED  BY <1>3, <1>4, <1>5, <1>6 DEF AnswerInv

\* A packet that comes out of the reader is at hand until it is answered.
LEMMA AnswerFeedStep ==
  ASSUME FlowInv, BatchInv, AnswerInv, FeedReader
  PROVE  AnswerInv'
<1> SUFFICES ASSUME NEW me \in Client, me = cur
             PROVE  AnswerInv'
  BY DEF FeedReader, FlowInv
<1> DEFINE f == Feed(reader[me], buf)
           d == done[me]
<1>1. /\ pc = "feed" /\ packet = <<>>
      /\ UNCHANGED <<sent, client, comm, down>>
      /\ cur' = IF pc' \in {"feed", "write"} THEN me ELSE NoClient
  BY DEF FeedReader, FlowInv, PacketAtHand
<1>2. \/ UNCHANGED <<packet, done, conn>>
      \/ packet' = packet /\ done' = [done EXCEPT ![me] = @ + 1]
         /\ conn' = [conn EXCEPT ![me] = "freed"]
      \/ /\ f.packet # <<>> /\ packet' = f.packet /\ pc' = "write" /\ conn' = conn
         /\ done' = [done EXCEPT ![me] = @ + 1]
         /\ out' = Targets(f.packet[1].kind, me)
  BY DEF FeedReader, Disconnect
<1>3. FedNext(f, me)
  BY FeedsNext
<1> HIDE DEF f
<1>4. /\ \A c \in Client : c # me => done'[c] = done[c] /\ conn'[c] = conn[c]
      /\ d \in Nat
  BY <1>2 DEF FlowInv, BatchInv
<1>5. ASSUME NEW c \in Client, c # me
      PROVE  AnswerFor(c)'
  <2>1. cur # c /\ cur' # c
    BY <1>1, <1>5, NoClientIsNone
  <2>2. Handled(c)' = Handled(c) /\ Notified(c)' = Notified(c)
    BY <1>1, <1>4, <1>5, <2>1 DEF Handled, Notified
  <2> QED  BY <1>1, <1>4, <1>5, <2>2, AnswerKept DEF AnswerInv
<1>6. AnswerFor(me)'
  <2>0. AnswerFor(me) /\ Handled(me) = d
    BY <1>1, <1>4 DEF AnswerInv, Handled
  <2>1. CASE UNCHANGED <<packet, done, conn>>
    <3>1. Handled(me)' = Handled(me) /\ Notified(me)' = Notified(me)
      BY <1>1, <2>1 DEF Handled, Notified
    <3> QED  BY <1>1, <2>0, <2>1, <3>1, AnswerKept DEF FeedReader
  <2>2. CASE conn' = [conn EXCEPT ![me] = "freed"]
    <3>1. conn'[me] = "freed"
      BY <2>2 DEF BatchInv
    <3> QED  BY <1>1, <2>0, <3>1, AnswerKept
  <2>3. CASE /\ f.packet # <<>> /\ packet' = f.packet /\ pc' = "write" /\ conn' = conn
             /\ done' = [done EXCEPT ![me] = @ + 1]
             /\ out' = Targets(f.packet[1].kind, me)
    <3>1. conn[me] # "freed" /\ cur' = me /\ done'[me] = d + 1
      BY <1>1, <2>3 DEF FeedReader, FlowInv
    <3>2. Handled(me)' = Handled(me)
      BY <1>4, <2>0, <2>3, <3>1 DEF Handled
    <3>3. f.packet[1].kind = sent[me][d + 1]
      BY <1>3, <2>3 DEF FedNext
    <3>4. sent[me][Len(sent[me])] = "region" => ~Notified(me)'
      <4>1. SUFFICES ASSUME sent[me][Len(sent[me])] = "region", d + 1 = Len(sent[me])
                     PROVE  me \in out'
        BY <1>1, <2>3, <3>1 DEF Notified
      <4>2. f.packet[1].kind = "region"
        BY <3>3, <4>1
      <4> QED  BY <2>3, <4>2 DEF Targets
    <3>5. Unanswered(me)' = Unanswered(me)
      BY <1>1, <3>2 DEF Unanswered
    <3> QED  BY <1>1, <2>0, <2>3, <3>1, <3>4, <3>5 DEF AnswerFor
  <2> QED  BY <1>2, <2>1, <2>2, <2>3
<1> QED  BY <1>1, <1>5, <1>6 DEF AnswerInv

\* The event of a region request is in the client's socket when nobody is left
\* to be written to.
LEMMA AnswerWriteStep ==
  ASSUME FlowInv, BatchInv, AnswerInv, NEW w \in Client, Write(w)
  PROVE  AnswerInv'
<1>1. /\ pc = "write" /\ out' = out \ {w} /\ conn' = conn
      /\ UNCHANGED <<cur, packet, done, comm, client, sent>>
      /\ \/ client[w] = "gone" /\ down' = down
         \/ down' = [down EXCEPT ![w] = Append(@, EventFor(w))]
  BY DEF Write, WriteFailed
<1>2. EventFor(w) \in Event
  BY DEF EventFor, Event, FlowInv
<1>3. down' \in [Client -> Seq(Event)]
  <2>1. Append(down[w], EventFor(w)) \in Seq(Event)
    BY <1>2 DEF AnswerInv
  <2> QED  BY <1>1, <2>1 DEF AnswerInv
<1>4. ASSUME NEW c \in Client
      PROVE  AnswerFor(c)'
  <2>1. Handled(c)' = Handled(c) /\ AnswerFor(c)
    BY <1>1 DEF Handled, AnswerInv
  <2>2. CASE c # w
    <3>1. down'[c] = down[c] /\ Notified(c)' = Notified(c)
      BY <1>1, <2>2 DEF Notified, AnswerInv
    <3> QED  BY <1>1, <2>1, <3>1, AnswerKept
  <2>3. CASE c = w
    <3> DEFINE n == Len(sent[c])
               old == down[c]
               e == EventFor(w)
    <3>1. ASSUME client[c] = "waiting", sent[c][n] = "region", Notified(c)',
                 Notified(c) => RegionTold(c)
          PROVE  RegionTold(c)'
      <4>1. down'[c] = Append(old, e) /\ old \in Seq(Event)
        BY <1>1, <2>3, <3>1 DEF AnswerInv
      <4>2. \E i \in 1 .. Len(Append(old, e)) :
              Append(old, e)[i] = [type |-> "region", n |-> n]
        <5>1. CASE Notified(c)
          <6>1. PICK i \in 1 .. Len(old) : old[i] = [type |-> "region", n |-> n]
            BY <3>1, <5>1 DEF RegionTold
          <6> HIDE DEF e, old
          <6>2. i \in 1 .. Len(Append(old, e)) /\ Append(old, e)[i] = old[i]
            BY <4>1
          <6> QED  BY <6>1, <6>2
        <5>2. CASE ~Notified(c)
          <6>1. cur = c /\ packet # <<>> /\ done[c] = n
            BY <1>1, <3>1, <5>2 DEF Notified
          <6>2. Command = "region"
            BY <3>1, <6>1, CommandIs
          <6>3. e = [type |-> "region", n |-> n]
            BY <2>3, <6>1, <6>2 DEF EventFor
          <6> HIDE DEF e, old
          <6>4. /\ Len(old) + 1 \in 1 .. Len(Append(old, e))
                /\ Append(old, e)[Len(old) + 1] = e
            BY <4>1
          <6> QED  BY <6>3, <6>4
        <5> QED  BY <5>1, <5>2
      <4> QED  BY <1>1, <4>1, <4>2 DEF RegionTold
    <3>2. Unanswered(c)' = Unanswered(c)
      BY <1>1, <2>1 DEF Unanswered
    <3> QED  BY <1>1, <2>1, <3>1, <3>2 DEF AnswerFor
  <2> QED  BY <2>2, <2>3
<1> QED  BY <1>1, <1>3, <1>4 DEF AnswerInv

\* The end of a command posts the semaphore if its client waits for it.
LEMMA AnswerFinishStep ==
  ASSUME FlowInv, BatchInv, AnswerInv, Finish
  PROVE  AnswerInv'
<1> SUFFICES ASSUME NEW me \in Client, me = cur
             PROVE  AnswerInv'
  BY DEF Finish, FlowInv, PacketAtHand
<1> DEFINE n == Len(sent[me])
           d == done[me]
           k == sent[me][d]
<1>1. /\ packet # <<>> /\ packet' = <<>> /\ out = {}
      /\ cur' \in {me, NoClient}
      /\ comm' = [comm EXCEPT ![me] = IF Sync(Command) THEN @ + 1 ELSE @]
      /\ UNCHANGED <<done, conn, down, client, sent>>
  BY DEF Finish, Told, Answered
<1>2. d \in 1 .. n /\ Command = k /\ sent[me] \in Seq(Kind) /\ n \in Nat
  BY <1>1, CommandIs DEF FlowInv
<1>3. /\ comm' \in [Client -> Nat]
      /\ comm'[me] = IF Sync(k) THEN comm[me] + 1 ELSE comm[me]
      /\ \A c \in Client : c # me => comm'[c] = comm[c]
  <2> HIDE DEF k
  <2> QED  BY <1>1, <1>2 DEF AnswerInv
<1>4. ASSUME NEW c \in Client, c # me
      PROVE  AnswerFor(c)'
  <2>1. cur' # c
    BY <1>1, <1>4, NoClientIsNone
  <2>2. Handled(c)' = Handled(c) /\ Notified(c)' = Notified(c)
    BY <1>1, <1>4, <2>1 DEF Handled, Notified
  <2> QED  BY <1>1, <1>3, <1>4, <2>2, AnswerKept DEF AnswerInv
<1>5. AnswerFor(me)'
  <2>1. /\ Handled(me) = d - 1 /\ Handled(me)' = d
    BY <1>1, <1>2 DEF Handled, FlowInv
  <2>2. /\ Unanswered(me) = {i \in d .. n : Sync(sent[me][i])}
        /\ Unanswered(me)' = {i \in d + 1 .. n : Sync(sent[me][i])}
    <3>1. Handled(me) + 1 = d
      BY <1>2, <2>1
    <3> QED  BY <1>1, <2>1, <3>1 DEF Unanswered
  <2>3. /\ \A i \in d + 1 .. n : i \in d .. n /\ i # d
        /\ \A i \in d .. n : i = d \/ i \in d + 1 .. n
        /\ d \in d .. n /\ n \notin d .. d - 1
    BY <1>2
  <2>4. Notified(me)' => Notified(me)
    BY <1>1 DEF Notified
  <2>5. RegionTold(me) => RegionTold(me)'
    BY <1>1 DEF RegionTold
  <2>6. AnswerFor(me)
    BY DEF AnswerInv
  <2> HIDE DEF k
  <2>7. CASE conn[me] # "freed" /\ Sync(k)
    <3>1. d \in Unanswered(me)
      BY <2>2, <2>3, <2>7 DEF k
    <3>2. d = n /\ comm[me] = 0
      BY <2>6, <2>7, <3>1 DEF AnswerFor
    <3>3. Unanswered(me)' = {}
      BY <1>2, <2>2, <3>2
    <3>4. comm'[me] = 1
      BY <1>3, <2>7, <3>2
    <3> QED  BY <1>1, <2>4, <2>5, <2>6, <2>7, <3>3, <3>4 DEF AnswerFor
  <2>8. CASE conn[me] # "freed" /\ ~Sync(k)
    <3>1. Unanswered(me)' = Unanswered(me)
      BY <2>2, <2>3, <2>8 DEF k
    <3> QED  BY <1>1, <1>3, <2>4, <2>5, <2>6, <2>8, <3>1 DEF AnswerFor
  <2>9. CASE conn[me] = "freed"
    BY <1>1, <2>6, <2>9 DEF AnswerFor
  <2> QED  BY <2>7, <2>8, <2>9
<1> QED  BY <1>1, <1>3, <1>4, <1>5 DEF AnswerInv

LEMMA AnswerStep ==
  ASSUME FlowInv, BatchInv, AnswerInv, [Next]_vars
  PROVE  AnswerInv'
<1> USE DEF wayland, handling, connection
<1>1. ASSUME NEW c \in Client, ClientStep(c)
      PROVE  AnswerInv'
  BY <1>1, AnswerClientStep
<1>2. CASE FeedReader
  BY <1>2, AnswerFeedStep
<1>3. ASSUME NEW c \in Client, Write(c)
      PROVE  AnswerInv'
  BY <1>3, AnswerWriteStep
<1>4. CASE Finish
  BY <1>4, AnswerFinishStep
<1>5. CASE \/ UNCHANGED vars \/ Signal \/ Prepare \/ LoopClosed \/ HangUp \/ Gather
           \/ UseFreed \/ Dispatched \/ DispatchPending \/ Shutdown
           \/ \E c \in Client : \/ DisconnectGone(c)
                                \/ \E n \in 1 .. Len(up[c]) : ReadBytes(c, n)
           \/ \E a \in SUBSET Client, read \in Reads, qws \in BOOLEAN : Poll(a, read, qws)
  <2>1. /\ UNCHANGED <<sent, done, comm, down, client>>
        /\ packet' = packet
        /\ packet # <<>> => UNCHANGED <<cur, out>>
        /\ \A c \in Client : conn'[c] = "freed" \/ conn[c] # "freed"
    <3>1. CASE \/ UNCHANGED vars \/ Signal \/ Prepare \/ LoopClosed \/ HangUp \/ Gather
               \/ UseFreed \/ Dispatched
      BY <3>1 DEF vars, Signal, Prepare, LoopClosed, HangUp, Gather, UseFreed, Dispatched
    <3>2. CASE DispatchPending
      BY <3>2 DEF DispatchPending, FlowInv, PacketAtHand
    <3>3. CASE Shutdown
      BY <3>3 DEF Shutdown
    <3>4. CASE \E c \in Client : DisconnectGone(c)
      BY <3>4 DEF DisconnectGone, Disconnect, BatchInv
    <3>5. CASE \E c \in Client : \E n \in 1 .. Len(up[c]) : ReadBytes(c, n)
      BY <3>5 DEF ReadBytes, FlowInv, PacketAtHand
    <3>6. CASE \E a \in SUBSET Client, read \in Reads, qws \in BOOLEAN : Poll(a, read, qws)
      BY <3>6 DEF Poll, Accept
    <3> QED  BY <1>5, <3>1, <3>2, <3>3, <3>4, <3>5, <3>6
  <2>2. ASSUME NEW c \in Client
        PROVE  AnswerFor(c)'
    <3>1. Handled(c)' = Handled(c) /\ Notified(c)' = Notified(c)
      BY <2>1 DEF Handled, Notified
    <3> QED  BY <2>1, <3>1, AnswerKept DEF AnswerInv
  <2> QED  BY <2>1, <2>2 DEF AnswerInv
<1> QED  BY <1>1, <1>2, <1>3, <1>4, <1>5 DEF Next, Proxy

LEMMA AnswerInit == Init => AnswerInv
<1> SUFFICES ASSUME Init
             PROVE  AnswerInv
  OBVIOUS
<1>1. <<>> \in Seq(Event)
  OBVIOUS
<1>2. ASSUME NEW c \in Client
      PROVE  AnswerFor(c)
  <2>1. /\ sent[c] = <<>> /\ done[c] = 0 /\ comm[c] = 1 /\ client[c] = "new"
        /\ packet = <<>>
    BY DEF Init
  <2>2. Handled(c) = 0
    BY <2>1 DEF Handled
  <2>3. Unanswered(c) = {}
    <3>1. Len(sent[c]) = 0
      BY <2>1
    <3> QED  BY <2>2, <3>1 DEF Unanswered
  <2> QED  BY <2>1, <2>3 DEF AnswerFor
<1> QED  BY <1>1, <1>2 DEF Init, AnswerInv

\* The Communication semaphore of a client is down from when it sends a
\* synchronous command until that is answered, so that each gets one answer, and
\* its own (qws_is_synchronous_command() and the end of
\* qwswl_dispatch_command()).
THEOREM EachAnsweredOnce == Spec => []AnsweredOnce
<1>1. AnswerInv => AnsweredOnce
  BY DEF AnswerInv, AnswerFor, Unanswered, AnsweredOnce
<1> QED  BY <1>1, BatchInit, FlowInit, AnswerInit, BatchStep, FlowStep, AnswerStep, PTL
         DEF Spec

\* A client that is let go after a region request finds the region event in its
\* socket (qwswl_request_region(), the end of qwswl_dispatch_command()).
THEOREM EventIsThere == Spec => []EventBeforeAnswer
<1>1. ASSUME FlowInv, AnswerInv
      PROVE  EventBeforeAnswer
  <2> SUFFICES ASSUME NEW c \in Client,
                      client[c] = "waiting", comm[c] = 1, conn[c] = "live",
                      sent[c][Len(sent[c])] = "region"
               PROVE  RegionTold(c)
    BY DEF EventBeforeAnswer, RegionTold
  <2> DEFINE n == Len(sent[c])
             d == done[c]
  <2>0. AnswerFor(c)
    BY <1>1 DEF AnswerInv
  <2>1. sent[c] \in Seq(Kind) /\ sent[c] # <<>> /\ d \in Nat /\ d <= n
    BY <1>1, <2>0 DEF FlowInv, AnswerFor
  <2>2. n \in Nat \ {0}
    BY <2>1
  <2>3. Unanswered(c) = {}
    BY <2>0 DEF AnswerFor
  <2>4. ~(n \in Handled(c) + 1 .. n)
    BY <2>3 DEF Unanswered, Sync
  <2>5. d = n /\ ~(cur = c /\ packet # <<>>)
    BY <2>1, <2>2, <2>4 DEF Handled
  <2>6. Notified(c)
    BY <2>5 DEF Notified
  <2> QED  BY <2>0, <2>6 DEF AnswerFor
<1> QED  BY <1>1, BatchInit, FlowInit, AnswerInit, BatchStep, FlowStep, AnswerStep, PTL
         DEF Spec
=============================================================================
