---------------------------- MODULE MCQwsWindows ----------------------------
(***************************************************************************)
(* Constants for model checking QwsWindows: a screen of four columns, and  *)
(* regions that overlap on it, one of them partly off its left edge.       *)
(***************************************************************************)
EXTENDS QwsWindows, FiniteSetsExt

TwoPlacements == {<<Rect(-1, 1)>>, <<Rect(0, 2)>>}
OverlappingPlacements == {<<Rect(0, 2)>>, <<Rect(1, 3)>>}
StepOne == {-1, 1}
NoStep == {}

WindowSymmetry == Permutations(Window)

\* For three windows: clients that keep to the rules, and at most one window
\* at a time that is on top, translucent or hidden.
PoliteWithOneSpecial ==
  /\ polite
  /\ Quantify(Window, LAMBDA w : onTop[w])
       + Quantify(Window, LAMBDA w : ~opaque[w])
       + Quantify(Window, LAMBDA w : shm[w] = "detached") <= 1
=============================================================================
