------------------------------- MODULE MCSeat -------------------------------
(***************************************************************************)
(* Constants for model checking Seat: a window for each of two clients.    *)
(***************************************************************************)
EXTENDS Seat

CONSTANTS w1, w2, c1, c2

OneEach == [w \in Window |-> IF w = w1 THEN c1 ELSE c2]

\* A desktop compositor, one that sends no leave events for destroyed surfaces,
\* and one that offers the Qt shell.
Servers == [qtShell : {FALSE}, leaves : BOOLEAN]
             \cup [qtShell : {TRUE}, leaves : {FALSE}]
=============================================================================
