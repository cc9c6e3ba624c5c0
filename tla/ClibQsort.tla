----------------------------- MODULE ClibQsort ------------------------------
(***************************************************************************)
(* clib-qsort.c: the C library sorts with a comparison that subtracts. The *)
(* difference of two ints wraps around. What qsort makes of a comparison   *)
(* that is not an order is unspecified: any rearrangement.                 *)
(***************************************************************************)
EXTENDS Arrays, Functions

CONSTANTS
  Element,
  Length,
  Half           \* an int goes from -Half to Half - 1

QsortAssumption ==
  /\ Half \in Nat \ {0}
  /\ Element \subseteq -Half..Half - 1
  /\ Length \in Nat

VARIABLES
  input,
  array,
  phase          \* "ascend", "descend" or "done"

qsortVars == <<input, array, phase>>

Init ==
  /\ input \in [0..Length - 1 -> Element]
  /\ array = input
  /\ phase = "ascend"

Wrap(x) == ((x + Half) % (2 * Half)) - Half

ascend_cmp(a, b) == Wrap(a - b)

descend_cmp(a, b) == Wrap(b - a)

\* The call of the function that cmp points to.
Call(cmp, a, b) == IF cmp = "ascend_cmp" THEN ascend_cmp(a, b) ELSE descend_cmp(a, b)

IsOrder(cmp, S) ==
  \A a, b, c \in S :
    /\ Call(cmp, a, b) <= 0 \/ Call(cmp, b, a) <= 0
    /\ Call(cmp, a, b) <= 0 /\ Call(cmp, b, c) <= 0 => Call(cmp, a, c) <= 0

qsort(cmp) ==
  {sorted \in {[s \in 0..Length - 1 |-> array[p[s]]] :
                 p \in Bijection(0..Length - 1, 0..Length - 1)} :
     IsOrder(cmp, {array[s] : s \in 0..Length - 1}) =>
       \A s, t \in 0..Length - 1 : s < t => Call(cmp, sorted[s], sorted[t]) <= 0}

SortAscending ==
  /\ phase = "ascend"
  /\ array' \in qsort("ascend_cmp")
  /\ phase' = "descend"
  /\ UNCHANGED input

SortDescending ==
  /\ phase = "descend"
  /\ array' \in qsort("descend_cmp")
  /\ phase' = "done"
  /\ UNCHANGED input

Next == SortAscending \/ SortDescending

-----------------------------------------------------------------------------

TypeOK == array \in [0..Length - 1 -> Element]

(* As far as no two elements are half the range of an int apart, the first *)
(* call sorts the array and the second turns it round (sort.md:12).        *)
Near == \A s, t \in 0..Length - 1 : input[s] - input[t] < Half

Sorts ==
  Near =>
    /\ phase = "descend" => InOrder(array, Length)
    /\ phase = "done" => InOrder([s \in 0..Length - 1 |-> -array[s]], Length)
    /\ Rearranged(array, input, Length)

-----------------------------------------------------------------------------
(* Why: the inductive invariant. The second call compares what the first   *)
(* has left, which are the elements of the input.                          *)

IInv ==
  /\ input \in [0..Length - 1 -> Element]
  /\ TypeOK
  /\ phase \in {"ascend", "descend", "done"}
  /\ Rearranged(array, input, Length)
  /\ Sorts
=============================================================================
