------------------------------- MODULE Arrays -------------------------------
(* What the sample programs of the algorithm course do to an int array, an *)
(* array of length n being a function on 0..n-1.                           *)
EXTENDS Integers, FiniteSets

\* swap(&a[i], &a[j])
Swapped(a, i, j) == [a EXCEPT ![i] = a[j], ![j] = a[i]]

\* How often each value occurs.
Count(a, n) ==
  [v \in {a[k] : k \in 0..n - 1} |-> Cardinality({k \in 0..n - 1 : a[k] = v})]

Rearranged(a, b, n) == Count(a, n) = Count(b, n)

InOrder(a, n) == \A k, l \in 0..n - 1 : k < l => a[k] <= a[l]
=============================================================================
