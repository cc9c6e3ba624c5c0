--------------------------- MODULE PriorityQueue ----------------------------
(***************************************************************************)
(* priority_queue.c: a queue in a binary heap. A call is split at each     *)
(* level of the heap it goes down or up. The code checks no bounds: its    *)
(* callers, like main, pop only what is there and push only what fits.     *)
(***************************************************************************)
EXTENDS Heap

CONSTANTS
  Key,           \* the elements
  Capacity       \* ARRAY_MAX_LENGTH

ASSUME QueueAssumption ==
  /\ Key \subseteq Int
  /\ Capacity \in Nat \ {0}

VARIABLES
  heap,          \* array[]
  size,
  call,          \* "idle", "down" in max_heapify or "up" in increase_to_k
  root,          \* the i of build_max_heap; 0 in a pop
  node,          \* the i of max_heapify or increase_to_k
  returned       \* by the last pop

queueVars == <<heap, size, call, root, node, returned>>

Slot == 0..Capacity - 1

\* Mutation: build_max_heap starts one too low.
StartTooLow(n) ==
  /\ size = n
  /\ \E given \in [0..n - 1 -> Key] :
       heap = [s \in Slot |-> IF s < n THEN given[s] ELSE 0]
  /\ call = "down"
  /\ root = IF Parent(n) > 0 THEN Parent(n) - 1 ELSE 0
  /\ node = root
  /\ returned = 0

\* An array of any n elements and zeros, and build_max_heap from parent(size).
Start(n) ==
  /\ size = n
  /\ \E given \in [0..n - 1 -> Key] :
       heap = [s \in Slot |-> IF s < n THEN given[s] ELSE 0]
  /\ call = "down"
  /\ root = Parent(n)
  /\ node = root
  /\ returned = 0

Init == \E n \in 0..Capacity : Start(n)

\* max_heapify: one level down
Sink ==
  LET largest == Largest(heap, size, node) IN
  /\ call = "down"
  /\ largest # node
  /\ heap' = Swapped(heap, node, largest)
  /\ node' = largest
  /\ UNCHANGED <<size, call, root, returned>>

\* max_heapify has ended: on to the next root of build_max_heap, if any.
Sunk ==
  /\ call = "down"
  /\ Largest(heap, size, node) = node
  /\ IF root > 0
       THEN root' = root - 1 /\ node' = root' /\ UNCHANGED call
       ELSE call' = "idle" /\ UNCHANGED <<root, node>>
  /\ UNCHANGED <<heap, size, returned>>

\* push; the INT_MIN it writes is overwritten at once.
Push(x) ==
  /\ call = "idle"
  /\ size < Capacity
  /\ size' = size + 1
  /\ heap' = [heap EXCEPT ![size] = x]
  /\ node' = size
  /\ call' = "up"
  /\ UNCHANGED <<root, returned>>

\* increase_to_k: one level up
Rise ==
  /\ call = "up"
  /\ node > 0
  /\ heap[Parent(node)] < heap[node]
  /\ heap' = Swapped(heap, Parent(node), node)
  /\ node' = Parent(node)
  /\ UNCHANGED <<size, call, root, returned>>

Risen ==
  /\ call = "up"
  /\ node = 0 \/ heap[Parent(node)] >= heap[node]
  /\ call' = "idle"
  /\ UNCHANGED <<heap, size, root, node, returned>>

\* Mutation: the size goes down before the last element is read.
PopShorter ==
  /\ call = "idle"
  /\ size > 1
  /\ returned' = heap[0]
  /\ size' = size - 1
  /\ heap' = [heap EXCEPT ![0] = heap[size - 2]]
  /\ call' = "down"
  /\ root' = 0
  /\ node' = 0

\* pop: the last element goes first, and down from there.
Pop ==
  /\ call = "idle"
  /\ size > 0
  /\ returned' = heap[0]
  /\ heap' = [heap EXCEPT ![0] = heap[size - 1]]
  /\ size' = size - 1
  /\ call' = "down"
  /\ root' = 0
  /\ node' = 0

Next ==
  \/ Sink
  \/ Sunk
  \/ \E x \in Key : Push(x)
  \/ Rise
  \/ Risen
  \/ Pop

Spec == Init /\ [][Next]_queueVars

-----------------------------------------------------------------------------

TypeOK ==
  /\ heap \in [Slot -> Key \cup {0}]
  /\ size \in 0..Capacity
  /\ call \in {"idle", "down", "up"}
  /\ root \in 0..Capacity
  /\ node \in 0..Capacity
  /\ returned \in Key \cup {0}

(* Between two calls no element is larger than its parent, whatever was    *)
(* called before: the two sifts restore what build, push and pop break.    *)
HeapOrder ==
  call = "idle" => \A s \in 1..size - 1 : heap[Parent(s)] >= heap[s]

(* What makes HeapOrder inductive: during a call, all is in order but at   *)
(* node, and what is next to node on both sides is in order, too.          *)
OrderDown ==
  call = "down" =>
    /\ root <= node
    /\ \A s \in 1..size - 1 : Parent(s) >= root /\ Parent(s) # node =>
         heap[Parent(s)] >= heap[s]
    /\ \A s \in 1..size - 1 : Parent(s) = node /\ node > 0 /\ Parent(node) >= root =>
         heap[Parent(node)] >= heap[s]

OrderUp ==
  call = "up" =>
    /\ node < size
    /\ \A s \in 1..size - 1 : s # node => heap[Parent(s)] >= heap[s]
    /\ \A s \in 1..size - 1 : Parent(s) = node /\ node > 0 =>
         heap[Parent(node)] >= heap[s]

IInv ==
  /\ TypeOK
  /\ root \in Slot
  /\ node \in Slot
  /\ HeapOrder
  /\ OrderDown
  /\ OrderUp

(* What the queue holds are elements: the zeros that the array starts with *)
(* are never in it.                                                        *)
Filled == \A s \in 0..size - 1 : heap[s] \in Key

(* The queue gives back all that was put in, and the largest first         *)
(* (extract_max in the comment of pop): it implements MaxQueue.            *)
Held == [k \in Key |-> Cardinality({s \in 0..size - 1 : heap[s] = k})]

Queue == INSTANCE MaxQueue WITH held <- Held, out <- returned

ImplementsQueue == Queue!Spec
=============================================================================
