------------------------------- MODULE Rects -------------------------------
(***************************************************************************)
(* The rectangle arithmetic of libqwsproto/qws_rect.c.                     *)
(*                                                                         *)
(* Every rectangle of this model spans the full height of the screen, so a *)
(* rectangle is its horizontal extent [x1, x2].  QWS rectangles are        *)
(* inclusive: x2 is the last column.  pixman boxes are half open: x2 is    *)
(* the first column outside.  qws_rect_subtract() casts the one to the     *)
(* other without converting, so inside it a rectangle stands for the unit  *)
(* cells x1 .. x2-1, and a result box is read back as an inclusive one.    *)
(***************************************************************************)
EXTENDS Integers, SequencesExt

Rect(a, b) == [x1 |-> a, x2 |-> b]

\* The columns an inclusive rectangle covers.
Columns(r) == r.x1 .. r.x2
ColumnsOf(rs) == UNION {Columns(rs[i]) : i \in DOMAIN rs}

\* The columns the same four numbers cover as a half-open pixman box.
Cells(r) == r.x1 .. (r.x2 - 1)
CellsOf(rs) == UNION {Cells(rs[i]) : i \in DOMAIN rs}

Translate(rs, dx) == [i \in DOMAIN rs |-> Rect(rs[i].x1 + dx, rs[i].x2 + dx)]

\* Each edge is clamped on its own: a rectangle that lies off the screen is
\* not dropped but collapses onto the nearest edge.
Clamp(v, max) == IF v < 0 THEN 0 ELSE IF v > max THEN max ELSE v

\* Mutant of ClipRects: the edges are not tested against 0.
ClipRectsAtMaxOnly(rs, max) ==
  [i \in DOMAIN rs |-> Rect(Min({rs[i].x1, max}), Min({rs[i].x2, max}))]

ClipRects(rs, max) ==
  [i \in DOMAIN rs |-> Rect(Clamp(rs[i].x1, max), Clamp(rs[i].x2, max))]

\* pixman's canonical list of boxes for a set of cells, left to right: a cell
\* that follows on the last box makes it longer, any other starts a new one.
AddCell(c, boxes) ==
  LET n == Len(boxes) IN
  IF n > 0 /\ boxes[n].x2 = c
    THEN ReplaceAt(boxes, n, Rect(boxes[n].x1, c + 1))
    ELSE Append(boxes, Rect(c, c + 1))

Runs(S) == MapThenFoldSet(AddCell, <<>>, LAMBDA c : c, LAMBDA T : Max(T), S)

\* Mutant of Subtract: only the first blocking rectangle counts.
SubtractFirst(as, bs) ==
  IF bs = <<>> THEN as ELSE Runs(CellsOf(as) \ Cells(bs[1]))

\* With nothing to subtract the input is cloned as it is, degenerate
\* rectangles included; otherwise it goes through pixman's region code.
Subtract(as, bs) ==
  IF bs = <<>> THEN as ELSE Runs(CellsOf(as) \ CellsOf(bs))
=============================================================================
