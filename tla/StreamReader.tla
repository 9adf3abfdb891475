---------------------------- MODULE StreamReader ----------------------------
(***************************************************************************)
(* The reader of QWS packets, qws_reader_feed() in                         *)
(* libqwsproto/qws_proto.c, as operators.  A packet on the wire is a       *)
(* header of fixed size, simple data whose size follows from the type in   *)
(* the header, and raw data whose size stands in the header.  What the     *)
(* code does with byte counts is done here with sequences of bytes; a byte *)
(* is a record that says which packet it is of, `kind' being the type the  *)
(* header holds.                                                           *)
(*                                                                         *)
(* Allocation is taken to succeed.                                         *)
(***************************************************************************)
EXTENDS Naturals, Sequences

CONSTANTS
    Kind,               \* the types of packets
    HeaderSize,         \* QWS_WIRE_HEADER_SIZE
    SimpleLen(_),       \* qws_command_simple_len(), qws_event_simple_len()
    RawLen(_)           \* the length in the header, by kind of packet

Byte == [kind : Kind, n : Nat, i : Nat]

\* The bytes of the n-th packet of a stream, of the given kind.
Wire(kind, n) ==
    [i \in 1 .. HeaderSize + SimpleLen(kind) + RawLen(kind) |->
        [kind |-> kind, n |-> n, i |-> i]]

Sections == {"header", "simple", "raw"}

\* What a reader holds: the section it is in, what it has of each.
Reader == [state : Sections \cup {"done"},
           header : Seq(Byte), simple : Seq(Byte), raw : Seq(Byte)]
Fresh == [state |-> "header", header |-> <<>>, simple |-> <<>>, raw |-> <<>>]

\* The size of section s of the packet whose header r holds.
Size(r, s) ==
    CASE s = "header" -> HeaderSize
      [] s = "simple" -> SimpleLen(r.header[1].kind)
      [] s = "raw"    -> RawLen(r.header[1].kind)

\* Mutant of After: raw data is not expected after simple data.
AfterNoRaw(r) ==
    IF r.state = "header" /\ Size(r, "simple") > 0 THEN "simple"
    ELSE IF r.state = "header" /\ Size(r, "raw") > 0 THEN "raw"
    ELSE "done"

\* The section that follows a complete one: empty ones are skipped.
After(r) ==
    IF r.state = "header" /\ Size(r, "simple") > 0 THEN "simple"
    ELSE IF r.state \in {"header", "simple"} /\ Size(r, "raw") > 0 THEN "raw"
    ELSE "done"

\* One turn of the loop: take what there is of the current section.  f holds
\* the reader and the bytes that are left.
Turn[f \in [reader : Reader, rest : Seq(Byte)]] ==
    IF f.rest = <<>> \/ f.reader.state = "done" THEN f
    ELSE LET s    == f.reader.state
             have == f.reader[s]
             need == Size(f.reader, s) - Len(have)
             take == IF Len(f.rest) < need THEN Len(f.rest) ELSE need
             next == [f.reader EXCEPT ![s] = have \o SubSeq(f.rest, 1, take)]
         IN  [reader |-> IF take = need
                           THEN [next EXCEPT !.state = After(next)]
                           ELSE next,
              rest   |-> SubSeq(f.rest, take + 1, Len(f.rest))]

\* A call: at most one packet comes out, and the reader is then reset.  Each
\* turn completes a section or uses up the bytes, so that three are enough.
Feed(reader, data) ==
    LET f == Turn[Turn[Turn[[reader |-> reader, rest |-> data]]]]
    IN  IF f.reader.state = "done"
          THEN [reader |-> Fresh, rest |-> f.rest,
                packet |-> f.reader.header \o f.reader.simple \o f.reader.raw]
          ELSE [reader |-> f.reader, rest |-> f.rest, packet |-> <<>>]

=============================================================================
