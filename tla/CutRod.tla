------------------------------- MODULE CutRod -------------------------------
(***************************************************************************)
(* cut-rod-bottom-up.c and cut-rod-memoized.c: the most money for a rod of *)
(* length len, cut at will. A round of the innermost loop of the first,    *)
(* which only takes a maximum, is not a step of its own.                   *)
(***************************************************************************)
EXTENDS Integers, Sequences, FiniteSetsExt, SequencesExt

CONSTANTS
  Price,
  Length,        \* of the longest rod
  MinusInfinity  \* INT_MIN

\* MinusInfinity is less than any money.
RodAssumption ==
  /\ Price \subseteq Int
  /\ Length \in Nat \ {0}
  /\ MinusInfinity \in Int
  /\ \A p \in Price, pieces \in 0..Length : MinusInfinity < pieces * p

VARIABLES
  price_array,
  len,
  method,        \* "bottom up" or "memoized"
  profits,
  calls,         \* of memoized_cut_rod_aux that have not returned, the last first
  i,             \* the length that bottom_up_cut_rod is at
  ret            \* what the program prints, once it is there

rodVars == <<price_array, len, method, profits, calls, i, ret>>

Frame(n) == [len |-> n, i |-> 1, ret |-> IF n = 0 THEN 0 ELSE MinusInfinity]

Start ==
  /\ price_array \in [1..Length -> Price]
  /\ len \in 1..Length
  /\ ret = MinusInfinity

\* What malloc leaves uninitialised is MinusInfinity too; it is written before it is read.
BottomUp ==
  /\ Start
  /\ method = "bottom up"
  /\ profits = [n \in 0..len |-> IF n = 0 THEN 0 ELSE MinusInfinity]
  /\ calls = <<>>
  /\ i = 1

Memoized ==
  /\ Start
  /\ method = "memoized"
  /\ profits = [n \in 0..len |-> MinusInfinity]
  /\ calls = <<Frame(len)>>
  /\ i = 0

Init == BottomUp \/ Memoized

\* Mutation: a rod in one piece is not tried.
FillUncut ==
  /\ method = "bottom up"
  /\ i <= len
  /\ profits' = [profits EXCEPT ![i] =
                   Max({price_array[j] + profits[i - j] : j \in 1..i - 1} \cup {MinusInfinity})]
  /\ i' = i + 1
  /\ UNCHANGED <<price_array, len, method, calls, ret>>

\* One round of the outer loop.
Fill ==
  /\ method = "bottom up"
  /\ i <= len
  /\ profits' = [profits EXCEPT ![i] =
                   Max({price_array[j] + profits[i - j] : j \in 1..i})]
  /\ i' = i + 1
  /\ UNCHANGED <<price_array, len, method, calls, ret>>

Filled ==
  /\ method = "bottom up"
  /\ i = len + 1
  /\ ret = MinusInfinity
  /\ ret' = profits[len]
  /\ UNCHANGED <<price_array, len, method, profits, calls, i>>

Larger(a, b) == IF a > b THEN a ELSE b

\* What the caller does with what a call returns.
Returned(frame, value) ==
  [frame EXCEPT !.ret = Larger(@, price_array[frame.i] + value), !.i = @ + 1]

\* The next call of the loop, which returns at once if the memo has it.
Recurse ==
  LET frame == Head(calls)
      rest == frame.len - frame.i
  IN
  /\ calls # <<>>
  /\ frame.i <= frame.len
  /\ calls' = IF profits[rest] >= 0
                THEN <<Returned(frame, profits[rest])>> \o Tail(calls)
                ELSE <<Frame(rest)>> \o calls
  /\ UNCHANGED <<price_array, len, method, profits, i, ret>>

\* The loop has ended: the result is kept and returned.
Return ==
  LET frame == Head(calls)
      callers == Tail(calls)
  IN
  /\ calls # <<>>
  /\ frame.i > frame.len
  /\ profits' = [profits EXCEPT ![frame.len] = frame.ret]
  /\ IF callers = <<>>
       THEN /\ calls' = <<>>
            /\ ret' = frame.ret
       ELSE /\ calls' = <<Returned(Head(callers), frame.ret)>> \o Tail(callers)
            /\ UNCHANGED ret
  /\ UNCHANGED <<price_array, len, method, i>>

Next == Fill \/ Filled \/ Recurse \/ Return

-----------------------------------------------------------------------------

Total(s) ==
  LET sum[k \in 0..Len(s)] == IF k = 0 THEN 0 ELSE sum[k - 1] + s[k]
  IN sum[Len(s)]

\* The lists of pieces that make up a rod of length n.
Cuts == [n \in 0..Length |-> {cut \in BoundedSeq(1..n, n) : Total(cut) = n}]

Money(prices, cut) == Total([k \in DOMAIN cut |-> prices[cut[k]]])

Best(prices, n) == Max({Money(prices, cut) : cut \in Cuts[n]})

TypeOK ==
  /\ DOMAIN profits = 0..len
  /\ i \in 0..len + 1
  /\ Len(calls) <= len + 1

(* Both programs print the most that any way to cut the rod brings, and    *)
(* what is kept on the way is right whenever it may be used: a negative    *)
(* profit counts as not computed yet and is computed again.                *)
Optimal ==
  /\ ret # MinusInfinity => ret = Best(price_array, len)
  /\ \A n \in DOMAIN profits :
       profits[n] # MinusInfinity => profits[n] = Best(price_array, n)
-----------------------------------------------------------------------------
(* Why the calls are no deeper than the rod is long: the inductive         *)
(* invariant                                                               *)

\* Each call is for a shorter rod than the one it was made by, which is
\* inside its loop.
CallsNest ==
  /\ calls \in Seq([len : Nat, i : Nat, ret : {calls[p].ret : p \in DOMAIN calls}])
  /\ \A p \in 1..Len(calls) :
       /\ calls[p].len <= len - (Len(calls) - p)
       /\ calls[p].i \in 1..calls[p].len + 1
       /\ p > 1 => calls[p].i <= calls[p].len

IInv == TypeOK /\ len \in Nat /\ CallsNest

-----------------------------------------------------------------------------
(* Why what is printed is the most: the inductive invariant                *)

\* A call has the most that the pieces it has tried first would bring.
TriedSoFar(frame) ==
  LET tried == {price_array[piece] + Best(price_array, frame.len - piece) :
                  piece \in 1..frame.i - 1}
      least == IF frame.len = 0 THEN 0 ELSE MinusInfinity
  IN /\ frame.ret \in tried \cup {least}
     /\ \A money \in tried : money <= frame.ret

\* The first call is for the whole rod, and each call waits for the one that
\* is for what its piece leaves.
CallsWait ==
  /\ calls # <<>> => calls[Len(calls)].len = len
  /\ \A p \in 1..Len(calls) - 1 : calls[p + 1].len - calls[p + 1].i = calls[p].len

\* The bottom-up program has filled profits up to i.
FilledSoFar ==
  method = "bottom up" =>
    /\ calls = <<>>
    /\ i > 0
    /\ \A n \in 0..i - 1 : profits[n] = Best(price_array, n)

OptimalInv ==
  /\ IInv
  /\ price_array \in [1..Length -> Price]
  /\ len \in 1..Length
  /\ \A p \in 1..Len(calls) : TriedSoFar(calls[p])
  /\ CallsWait
  /\ FilledSoFar
  /\ Optimal
=============================================================================
