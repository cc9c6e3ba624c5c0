----------------------------- MODULE MCPrograms -----------------------------
(***************************************************************************)
(* The small programs on small data.                                       *)
(***************************************************************************)
EXTENDS Programs

CONSTANTS n1, n2, n3, n4, c1, t1, t2, t3, k1

\* A price may be negative; a short piece may be worth more than a long one.
MCPrice == {-2, 1, 4}

\* Less than the money for the longest rod.
MCMinusInfinity == -9

\* Ranges that lie on the disk in another order than in the file, and two that
\* follow each other there too; sectors of other files before and behind them.
MCSecRanges ==
  <<[min |-> 5, max |-> 6], [min |-> 2, max |-> 2], [min |-> 3, max |-> 3]>>
=============================================================================
