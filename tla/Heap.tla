-------------------------------- MODULE Heap --------------------------------
(* A binary heap in an array: the helpers of priority_queue.c and, word    *)
(* for word, of heap-sort.c.                                               *)
EXTENDS Arrays

\* (int)((i-1)/2): C truncates -1/2 to 0.
Parent(i) == IF i = 0 THEN 0 ELSE (i - 1) \div 2

Left(i) == 2 * i + 1

Right(i) == 2 * i + 2

\* Mutation: the right child is compared with the root, not with the largest.
LargestOfRoot(a, size, i) ==
  IF Right(i) < size /\ a[Right(i)] > a[i] THEN Right(i)
  ELSE IF Left(i) < size /\ a[Left(i)] > a[i] THEN Left(i) ELSE i

\* Where the largest of a node and its children is.
Largest(a, size, i) ==
  LET m == IF Left(i) < size /\ a[Left(i)] > a[i] THEN Left(i) ELSE i
  IN  IF Right(i) < size /\ a[Right(i)] > a[m] THEN Right(i) ELSE m

\* From r on the array is a heap but for x, and what is above x is larger
\* than what is below it.
HeapBut(a, size, r, x) ==
  /\ r <= x
  /\ \A s \in 1..size - 1 : Parent(s) >= r /\ Parent(s) # x => a[Parent(s)] >= a[s]
  /\ \A s \in 1..size - 1 :
       Parent(s) = x /\ x > 0 /\ Parent(x) >= r => a[Parent(x)] >= a[s]
=============================================================================
