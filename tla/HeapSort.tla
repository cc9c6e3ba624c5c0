------------------------------ MODULE HeapSort ------------------------------
(* heap-sort.c, split at each level that max_heapify goes down.            *)
EXTENDS Heap

CONSTANTS
  Element,
  Length         \* of the array

HeapSortAssumption == Element \subseteq Int /\ Length \in Nat

VARIABLES
  input,
  array,
  phase,         \* "build", "sort" or "done"
  heap_size,
  root,          \* the i of build_max_heap
  node           \* the i of max_heapify

heapSortVars == <<input, array, phase, heap_size, root, node>>

\* build_max_heap starts at parent(size).
Init ==
  /\ input \in [0..Length - 1 -> Element]
  /\ array = input
  /\ phase = "build"
  /\ heap_size = Length
  /\ root = Parent(Length)
  /\ node = root

\* max_heapify: one level down
Sink ==
  LET largest == Largest(array, heap_size, node) IN
  /\ phase # "done"
  /\ largest # node
  /\ array' = Swapped(array, node, largest)
  /\ node' = largest
  /\ UNCHANGED <<input, phase, heap_size, root>>

Sunk == phase # "done" /\ Largest(array, heap_size, node) = node

\* for (int i = parent(size); i >= 0; i--)
BuildNext ==
  /\ Sunk
  /\ phase = "build"
  /\ IF root > 0
       THEN root' = root - 1 /\ node' = root' /\ UNCHANGED phase
       ELSE phase' = "sort" /\ UNCHANGED <<root, node>>
  /\ UNCHANGED <<input, array, heap_size>>

\* for (int i = size-1; i >= 1; i--); i is heap_size - 1.
SortNext ==
  /\ Sunk
  /\ phase = "sort"
  /\ IF heap_size > 1
       THEN /\ array' = Swapped(array, 0, heap_size - 1)
            /\ heap_size' = heap_size - 1
            /\ node' = 0
            /\ UNCHANGED phase
       ELSE /\ phase' = "done"
            /\ UNCHANGED <<array, heap_size, node>>
  /\ UNCHANGED <<input, root>>

Next == Sink \/ BuildNext \/ SortNext

-----------------------------------------------------------------------------

TypeOK ==
  /\ phase \in {"build", "sort", "done"}
  /\ heap_size \in 0..Length
  /\ root \in 0..Length
  /\ node \in 0..Length

(* The array ends up in order and holds what it held.                      *)
Sorts ==
  phase = "done" => InOrder(array, Length) /\ Rearranged(array, input, Length)

-----------------------------------------------------------------------------
(* Why the array is in order in the end: the inductive invariant           *)

\* What has been taken out of the heap lies behind it in order, and nothing
\* before it is larger.
OrderedBehind ==
  \A l \in heap_size..Length - 1, k \in 0..Length - 1 : k < l => array[k] <= array[l]

IInv ==
  /\ TypeOK
  /\ array \in [0..Length - 1 -> Element]
  /\ Rearranged(array, input, Length)
  /\ IF heap_size = 0 THEN Length = 0 ELSE node < heap_size
  /\ HeapBut(array, heap_size, root, node)
  /\ phase = "build" => heap_size = Length
  /\ phase # "build" => root = 0
  /\ phase = "done" => heap_size <= 1
  /\ OrderedBehind
=============================================================================
