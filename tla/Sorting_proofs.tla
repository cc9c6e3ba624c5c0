--------------------------- MODULE Sorting_proofs ---------------------------
(***************************************************************************)
(* Proofs about the priority queue and the sorting programs.               *)
(*                                                                         *)
(* priority_queue.c, for any elements, any capacity and any sequence of    *)
(* calls: the array is a heap between any two calls.  IInv of              *)
(* PriorityQueue is the inductive invariant.                               *)
(*                                                                         *)
(* The sorting programs, for arrays of any length and any elements:        *)
(* whichever of them Programs runs leaves a rearrangement of its array     *)
(* in order.                                                               *)
(***************************************************************************)
EXTENDS Programs, PriorityQueue, FiniteSetTheorems, SequenceTheorems, TLAPS

(***************************************************************************)
(* The priority queue.  Parent is used through three facts alone: it is in *)
(* the array, it is below, and its inverse is Left and Right.              *)
(***************************************************************************)

LEMMA ParentBelow ==
  ASSUME NEW s \in Nat
  PROVE  Parent(s) \in Nat /\ Parent(s) <= s /\ (s > 0 => Parent(s) < s)
BY DEF Parent

LEMMA ParentOfChild ==
  ASSUME NEW s \in Nat, s > 0
  PROVE  s = Left(Parent(s)) \/ s = Right(Parent(s))
BY DEF Parent, Left, Right

LEMMA ChildOfParent ==
  ASSUME NEW s \in Nat
  PROVE  /\ Left(s) \in Nat /\ Left(s) > s /\ Parent(Left(s)) = s
         /\ Right(s) \in Nat /\ Right(s) > s /\ Parent(Right(s)) = s
BY DEF Parent, Left, Right

LEMMA ParentMonotone ==
  ASSUME NEW s \in Nat, NEW t \in Nat, s <= t
  PROVE  Parent(s) <= Parent(t)
BY DEF Parent

(***************************************************************************)
(* max_heapify in any array that holds ints, as heap-sort.c has it too.    *)
(***************************************************************************)

(* The node or the larger of its children.                                 *)
LEMMA LargestChild ==
  ASSUME NEW n \in Nat, NEW a, \A s \in 0..n - 1 : a[s] \in Int, NEW x \in 0..n - 1
  PROVE  LET m == Largest(a, n, x) IN
         /\ m \in 0..n - 1
         /\ m # x => m > x /\ m \in 1..n - 1 /\ Parent(m) = x /\ a[m] > a[x]
         /\ \A s \in 1..n - 1 : Parent(s) = x => a[m] >= a[s]
<1> DEFINE l == Left(x)
           r == Right(x)
           best == IF l < n /\ a[l] > a[x] THEN l ELSE x
           m == IF r < n /\ a[r] > a[best] THEN r ELSE best
<1>1. x \in Nat /\ a[x] \in Int
  OBVIOUS
<1>2. l \in Nat /\ l > x /\ Parent(l) = x /\ r \in Nat /\ r > x /\ Parent(r) = x
  BY <1>1, ChildOfParent
<1>3. Largest(a, n, x) = m
  BY DEF Largest
<1>4. (l < n => l \in 1..n - 1 /\ a[l] \in Int) /\ (r < n => r \in 1..n - 1 /\ a[r] \in Int)
  BY <1>1, <1>2
<1>5. ASSUME NEW s \in 1..n - 1, Parent(s) = x
      PROVE  s = l \/ s = r
  <2>1. s \in Nat /\ s > 0
    OBVIOUS
  <2>. QED
    BY <1>5, <2>1, ParentOfChild
<1>. HIDE DEF l, r
<1>6. /\ best \in 0..n - 1 /\ a[best] \in Int /\ a[best] >= a[x]
      /\ best # x => best = l /\ l < n /\ a[best] > a[x]
      /\ l < n => a[best] >= a[l]
  BY <1>1, <1>4
<1>. HIDE DEF best
<1>7. /\ m \in 0..n - 1 /\ a[m] \in Int /\ a[m] >= a[best]
      /\ m # best => m = r /\ r < n /\ a[m] > a[best]
      /\ r < n => a[m] >= a[r]
  BY <1>1, <1>4, <1>6
<1>. HIDE DEF m
<1>8. ASSUME m # x PROVE m > x /\ m \in 1..n - 1 /\ Parent(m) = x /\ a[m] > a[x]
  <2>1. CASE m = best
    BY <1>2, <1>4, <1>6, <1>8, <2>1
  <2>2. CASE m # best
    BY <1>1, <1>2, <1>4, <1>6, <1>7, <2>2
  <2>. QED
    BY <2>1, <2>2
<1>9. ASSUME NEW s \in 1..n - 1, Parent(s) = x PROVE a[m] >= a[s]
  <2>1. CASE s = l
    <3>1. l < n
      BY <2>1
    <3>. QED
      BY <1>4, <1>6, <1>7, <2>1, <3>1
  <2>2. CASE s = r
    <3>1. r < n
      BY <2>2
    <3>. QED
      BY <1>7, <2>2, <3>1
  <2>. QED
    BY <1>5, <1>9, <2>1, <2>2
<1>. QED
  BY <1>3, <1>7, <1>8, <1>9

(* What swapping two elements does.                                        *)
LEMMA SwappedArray ==
  ASSUME NEW n \in Nat, NEW S, NEW a \in [0..n - 1 -> S],
         NEW x \in 0..n - 1, NEW y \in 0..n - 1
  PROVE  LET b == Swapped(a, x, y) IN
         /\ b \in [0..n - 1 -> S]
         /\ \A s \in 0..n - 1 :
              b[s] = IF s = x THEN a[y] ELSE IF s = y THEN a[x] ELSE a[s]
BY DEF Swapped

(* One level down.                                                         *)
LEMMA HeapSinks ==
  ASSUME NEW N \in Nat, NEW n \in Nat, n <= N, NEW a \in [0..N - 1 -> Int],
         NEW r \in Nat, NEW x \in 0..n - 1, HeapBut(a, n, r, x), Largest(a, n, x) # x
  PROVE  /\ Largest(a, n, x) \in 0..n - 1
         /\ HeapBut(Swapped(a, x, Largest(a, n, x)), n, r, Largest(a, n, x))
<1> DEFINE m == Largest(a, n, x)
           b == Swapped(a, x, m)
<1>1. \A s \in 0..n - 1 : s \in 0..N - 1 /\ s \in Nat /\ a[s] \in Int
  OBVIOUS
<1>2. /\ m \in 0..n - 1 /\ m \in 1..n - 1 /\ m > x /\ Parent(m) = x /\ a[m] > a[x]
      /\ \A s \in 1..n - 1 : Parent(s) = x => a[m] >= a[s]
  BY <1>1, LargestChild
<1>3. \A s \in 0..n - 1 : b[s] = IF s = x THEN a[m] ELSE IF s = m THEN a[x] ELSE a[s]
  <2>. HIDE DEF m
  <2>1. x \in 0..N - 1 /\ m \in 0..N - 1
    BY <1>1, <1>2
  <2>2. \A s \in 0..N - 1 : b[s] = IF s = x THEN a[m] ELSE IF s = m THEN a[x] ELSE a[s]
    BY <2>1 DEF Swapped
  <2>. QED
    BY <1>1, <2>2
<1>. HIDE DEF m, b
<1>4. b[x] = a[m] /\ b[m] = a[x] /\ \A s \in 0..n - 1 : s # x /\ s # m => b[s] = a[s]
  BY <1>2, <1>3
<1>5. ASSUME NEW s \in 1..n - 1
      PROVE  /\ s \in 0..n - 1 /\ s \in Nat
             /\ Parent(s) \in 0..n - 1 /\ Parent(s) \in Nat /\ Parent(s) < s
  <2>1. s \in Nat /\ s > 0
    OBVIOUS
  <2>2. Parent(s) \in Nat /\ Parent(s) < s
    BY <2>1, ParentBelow
  <2>. QED
    BY <2>2
<1>6. r <= x /\ r <= m
  BY <1>1, <1>2 DEF HeapBut
<1>7. ASSUME NEW s \in 1..n - 1, Parent(s) >= r, Parent(s) # m
      PROVE  b[Parent(s)] >= b[s]
  <2>1. CASE s = m
    BY <1>1, <1>2, <1>4, <2>1
  <2>2. CASE s # m /\ Parent(s) = x
    <3>1. s # x
      BY <1>5, <2>2
    <3>. QED
      BY <1>2, <1>4, <1>5, <2>2, <3>1
  <2>3. CASE s = x
    <3>1. x > 0 /\ Parent(x) # x /\ a[Parent(x)] >= a[m]
      BY <1>2, <1>5, <1>7, <2>3 DEF HeapBut
    <3>. QED
      BY <1>4, <1>5, <1>7, <2>3, <3>1
  <2>4. CASE s # m /\ s # x /\ Parent(s) # x
    <3>1. a[Parent(s)] >= a[s]
      BY <1>7, <2>4 DEF HeapBut
    <3>. QED
      BY <1>4, <1>5, <1>7, <2>4, <3>1
  <2>. QED
    BY <2>1, <2>2, <2>3, <2>4
<1>8. ASSUME NEW s \in 1..n - 1, Parent(s) = m
      PROVE  b[Parent(m)] >= b[s]
  <2>1. a[m] >= a[s]
    BY <1>2, <1>5, <1>6, <1>8 DEF HeapBut
  <2>2. s # x /\ s # m
    BY <1>1, <1>2, <1>5, <1>8
  <2>. QED
    BY <1>2, <1>4, <1>5, <2>1, <2>2
<1>. QED
  BY <1>2, <1>6, <1>7, <1>8 DEF HeapBut, m, b

(* max_heapify has ended: all from the root on is a heap.                  *)
LEMMA HeapSunk ==
  ASSUME NEW n \in Nat, NEW a, \A s \in 0..n - 1 : a[s] \in Int, NEW r \in Nat,
         NEW x \in 0..n - 1, HeapBut(a, n, r, x), Largest(a, n, x) = x
  PROVE  \A s \in 1..n - 1 : Parent(s) >= r => a[Parent(s)] >= a[s]
<1>. SUFFICES ASSUME NEW s \in 1..n - 1, Parent(s) >= r PROVE a[Parent(s)] >= a[s]
  OBVIOUS
<1>1. CASE Parent(s) = x
  BY <1>1, LargestChild
<1>2. CASE Parent(s) # x
  BY <1>2 DEF HeapBut
<1>. QED
  BY <1>1, <1>2

LEMMA ElementIsInt == ASSUME TypeOK PROVE \A s \in Slot : heap[s] \in Int
<1>1. \A s \in Slot : heap[s] \in Key \cup {0}
  BY DEF TypeOK
<1>2. Key \cup {0} \subseteq Int
  BY QueueAssumption DEF QueueAssumption
<1>. QED
  BY <1>1, <1>2

LEMMA SlotIsNat == /\ Slot \subseteq Nat
                   /\ \A s \in Nat, n \in 0..Capacity : s < n => s \in Slot
BY QueueAssumption DEF Slot, QueueAssumption

(* max_heapify, lines 67 to 73: the node or the larger of its children.    *)
LEMMA LargestOfThree ==
  ASSUME TypeOK, node \in Slot
  PROVE  LET m == Largest(heap, size, node) IN
         /\ m \in Slot
         /\ m # node => /\ m < size /\ m > node /\ Parent(m) = node
                        /\ heap[m] > heap[node]
         /\ \A s \in 1..size - 1 : Parent(s) = node => heap[m] >= heap[s]
<1> DEFINE m == Largest(heap, size, node)
<1>1. node \in Nat /\ size \in 0..Capacity /\ Capacity \in Nat
  BY SlotIsNat, QueueAssumption DEF TypeOK, QueueAssumption
<1>2. /\ Left(node) < size => Left(node) \in Slot
      /\ Right(node) < size => Right(node) \in Slot
  BY <1>1, ChildOfParent, SlotIsNat
<1>3. /\ heap[node] \in Int
      /\ Left(node) < size => heap[Left(node)] \in Int
      /\ Right(node) < size => heap[Right(node)] \in Int
  BY <1>2, ElementIsInt
<1>4. /\ Left(node) < size => heap[m] >= heap[Left(node)]
      /\ Right(node) < size => heap[m] >= heap[Right(node)]
  BY <1>1, <1>3, ChildOfParent DEF Largest
<1>5. /\ m \in Slot
      /\ m # node => /\ m < size /\ m > node /\ Parent(m) = node
                     /\ heap[m] > heap[node]
  BY <1>1, <1>2, <1>3, ChildOfParent DEF Largest
<1>6. ASSUME NEW s \in 1..size - 1, Parent(s) = node PROVE heap[m] >= heap[s]
  BY <1>1, <1>4, <1>6, ParentOfChild
<1>. QED
  BY <1>5, <1>6

(* swap, lines 21 to 26.                                                   *)
LEMMA SwappedFacts ==
  ASSUME TypeOK, NEW x \in Slot, NEW y \in Slot, x # y
  PROVE  LET b == Swapped(heap, x, y) IN
         /\ b \in [Slot -> Key \cup {0}]
         /\ b[x] = heap[y] /\ b[y] = heap[x]
         /\ \A s \in Slot \ {x, y} : b[s] = heap[s]
BY DEF TypeOK, Swapped

LEMMA InitEstablishesIInv == Init => IInv
<1>. SUFFICES ASSUME NEW n \in 0..Capacity, Start(n) PROVE IInv
  BY DEF Init
<1>1. PICK given \in [0..n - 1 -> Key] :
        heap = [s \in Slot |-> IF s < n THEN given[s] ELSE 0]
  BY DEF Start
<1>2. heap \in [Slot -> Key \cup {0}]
  BY <1>1, SlotIsNat DEF Slot
<1>3. n \in Nat /\ Capacity \in Nat \ {0} /\ Parent(n) \in 0..Capacity /\ Parent(n) \in Slot
  <2>1. CASE n = 0
    BY <2>1, ParentBelow, QueueAssumption DEF QueueAssumption, Slot
  <2>2. CASE n > 0
    BY <2>2, ParentBelow, QueueAssumption DEF QueueAssumption, Slot
  <2>. QED
    BY <2>1, <2>2
<1>4. TypeOK /\ root \in Slot /\ node \in Slot /\ root = node /\ size = n /\ call = "down"
  BY <1>2, <1>3 DEF Start, TypeOK
<1>5. ASSUME NEW s \in 1..size - 1 PROVE Parent(s) <= root /\ Parent(s) \in Nat
  BY <1>3, <1>4, ParentMonotone, ParentBelow DEF Start
<1>6. OrderDown
  <2>1. ASSUME node > 0, Parent(node) >= root PROVE FALSE
    BY <1>4, <2>1, ParentBelow, SlotIsNat
  <2>. QED
    BY <1>3, <1>4, <1>5, <2>1 DEF OrderDown, Slot
<1>. QED
  BY <1>4, <1>6 DEF IInv, HeapOrder, OrderUp

(* Where the elements that a call is about lie.                            *)
LEMMA Elements ==
  ASSUME TypeOK, node \in Slot
  PROVE  /\ size \in Nat /\ node \in Nat
         /\ \A s \in 1..size - 1 :
              /\ s \in Slot /\ s \in Nat /\ heap[s] \in Int
              /\ Parent(s) \in Slot /\ Parent(s) \in Nat /\ Parent(s) < s
              /\ heap[Parent(s)] \in Int
<1>1. size \in 0..Capacity /\ Capacity \in Nat
  BY QueueAssumption DEF TypeOK, QueueAssumption
<1>2. ASSUME NEW s \in 1..size - 1
      PROVE  /\ s \in Slot /\ s \in Nat
             /\ Parent(s) \in Slot /\ Parent(s) \in Nat /\ Parent(s) < s
  BY <1>1, ParentBelow, SlotIsNat
<1>. QED
  BY <1>1, <1>2, ElementIsInt, SlotIsNat

(* max_heapify goes down one level.                                        *)
LEMMA SinkKeepsIInv == IInv /\ Sink => IInv'
<1>. SUFFICES ASSUME IInv, Sink PROVE IInv'
  OBVIOUS
<1> DEFINE m == Largest(heap, size, node)
<1>1. TypeOK /\ node \in Slot /\ root \in Slot /\ root \in Nat /\ call = "down"
  BY SlotIsNat DEF IInv, Sink
<1>2. /\ m \in Slot /\ m < size /\ m > node /\ Parent(m) = node
      /\ heap[m] > heap[node]
      /\ \A s \in 1..size - 1 : Parent(s) = node => heap[m] >= heap[s]
  BY <1>1, LargestOfThree DEF Sink
<1>3. /\ UNCHANGED <<size, call, root, returned>>
      /\ node' = m /\ heap' = Swapped(heap, node, m)
  BY DEF Sink
<1>. HIDE DEF m
<1>4. m \in Nat /\ m \in 1..size - 1 /\ heap[m] \in Int /\ heap[node] \in Int
  <2>1. node \in Nat /\ m \in Nat /\ size \in Nat
    BY <1>1, <1>2, SlotIsNat, Elements
  <2>. QED
    BY <1>1, <1>2, <2>1, ElementIsInt
<1>5. /\ heap' \in [Slot -> Key \cup {0}]
      /\ heap'[node] = heap[m] /\ heap'[m] = heap[node]
      /\ \A s \in Slot \ {node, m} : heap'[s] = heap[s]
  <2>1. node # m
    BY <1>1, <1>2, <1>4, Elements
  <2>. QED
    BY <1>1, <1>2, <1>3, <2>1, SwappedFacts
<1>6. TypeOK'
  <2>1. m \in 0..Capacity
    BY <1>2, QueueAssumption DEF Slot, QueueAssumption
  <2>. QED
    BY <1>1, <1>3, <1>5, <2>1 DEF TypeOK
<1>7. root <= m
  BY <1>1, <1>2, <1>4, Elements DEF IInv, OrderDown
<1>8. ASSUME NEW s \in 1..size - 1, Parent(s) >= root, Parent(s) # m
      PROVE  heap'[Parent(s)] >= heap'[s]
  <2>1. CASE s = m
    BY <1>2, <1>3, <1>5, <1>4, <2>1
  <2>2. CASE s # m /\ Parent(s) = node
    BY <1>1, <1>2, <1>3, <1>5, <1>4, <2>2, Elements
  <2>3. CASE s = node
    <3>1. heap[Parent(node)] >= heap[m]
      BY <1>1, <1>2, <1>4, <1>8, <2>3, Elements DEF IInv, OrderDown
    <3>2. Parent(s) \in Slot \ {node, m}
      BY <1>1, <1>8, <2>3, Elements
    <3>. QED
      BY <1>3, <1>5, <2>3, <3>1, <3>2
  <2>4. CASE s # m /\ s # node /\ Parent(s) # node
    <3>1. heap[Parent(s)] >= heap[s]
      BY <1>1, <1>8, <2>4 DEF IInv, OrderDown
    <3>2. s \in Slot \ {node, m} /\ Parent(s) \in Slot \ {node, m}
      BY <1>1, <1>8, <2>4, Elements
    <3>. QED
      BY <1>3, <1>5, <3>1, <3>2
  <2>. QED
    BY <2>1, <2>2, <2>3, <2>4
<1>9. ASSUME NEW s \in 1..size - 1, Parent(s) = m
      PROVE  heap'[Parent(m)] >= heap'[s]
  <2>1. heap[m] >= heap[s]
    <3>1. Parent(s) >= root /\ Parent(s) # node
      BY <1>1, <1>2, <1>4, <1>7, <1>9, Elements
    <3>. QED
      BY <1>1, <1>9, <3>1 DEF IInv, OrderDown
  <2>2. s \in Slot \ {node, m}
    BY <1>1, <1>2, <1>4, <1>9, Elements
  <2>. QED
    BY <1>2, <1>3, <1>5, <2>1, <2>2
<1>10. OrderDown'
  BY <1>3, <1>5, <1>7, <1>8, <1>9 DEF OrderDown
<1>. QED
  BY <1>1, <1>2, <1>3, <1>6, <1>10 DEF IInv, HeapOrder, OrderUp

(* max_heapify has ended; build_max_heap may go on with the root before.   *)
LEMMA SunkKeepsIInv == IInv /\ Sunk => IInv'
<1>. SUFFICES ASSUME IInv, Sunk PROVE IInv'
  OBVIOUS
<1>1. /\ TypeOK /\ node \in Slot /\ root \in Slot /\ root \in Nat /\ call = "down"
      /\ UNCHANGED <<heap, size, returned>>
  BY SlotIsNat DEF IInv, Sunk
<1>2. ASSUME NEW s \in 1..size - 1, Parent(s) >= root
      PROVE  heap[Parent(s)] >= heap[s]
  <2>1. CASE Parent(s) = node
    BY <1>1, <2>1, LargestOfThree DEF Sunk
  <2>2. CASE Parent(s) # node
    BY <1>1, <1>2, <2>2 DEF IInv, OrderDown
  <2>. QED
    BY <2>1, <2>2
<1>3. CASE root > 0
  <2>1. root' = root - 1 /\ node' = root - 1 /\ call' = "down"
    BY <1>1, <1>3 DEF Sunk
  <2>2. root' \in Slot /\ node' \in Slot /\ TypeOK'
    BY <1>1, <1>3, <2>1, QueueAssumption DEF TypeOK, Slot, QueueAssumption
  <2>3. ASSUME NEW s \in 1..size - 1, Parent(s) >= root - 1, Parent(s) # root - 1
        PROVE  heap[Parent(s)] >= heap[s]
    BY <1>1, <1>2, <2>3, Elements
  <2>4. node' > 0 => Parent(node') < root'
    BY <1>1, <1>3, <2>1, ParentBelow
  <2>5. OrderDown'
    <3>1. node' > 0 => ~(Parent(node') >= root')
      BY <1>1, <1>3, <2>1, <2>4, ParentBelow
    <3>2. root' <= node'
      BY <1>1, <2>1
    <3>. QED
      BY <1>1, <2>1, <2>3, <3>1, <3>2 DEF OrderDown
  <2>. QED
    BY <2>1, <2>2, <2>5 DEF IInv, HeapOrder, OrderUp
<1>4. CASE ~(root > 0)
  <2>1. call' = "idle" /\ UNCHANGED <<root, node>>
    BY <1>4 DEF Sunk
  <2>2. TypeOK'
    BY <1>1, <2>1 DEF TypeOK
  <2>3. HeapOrder'
    BY <1>1, <1>2, <1>4, <2>1, Elements DEF HeapOrder
  <2>. QED
    BY <1>1, <2>1, <2>2, <2>3 DEF IInv, OrderDown, OrderUp
<1>. QED
  BY <1>3, <1>4

(* push: the new element is the only one that may be out of order.         *)
LEMMA PushKeepsIInv == ASSUME NEW x \in Key, IInv, Push(x) PROVE IInv'
<1>1. /\ TypeOK /\ node \in Slot /\ call = "idle" /\ HeapOrder
      /\ size \in Nat /\ size < Capacity /\ size \in Slot /\ Capacity \in Nat
  BY SlotIsNat, QueueAssumption DEF IInv, Push, TypeOK, QueueAssumption
<1>2. /\ size' = size + 1 /\ node' = size /\ call' = "up" /\ UNCHANGED <<root, returned>>
      /\ heap' \in [Slot -> Key \cup {0}]
      /\ \A s \in Slot \ {size} : heap'[s] = heap[s]
  BY <1>1 DEF Push, TypeOK
<1>3. TypeOK'
  <2>1. size' \in 0..Capacity /\ node' \in 0..Capacity
    BY <1>1, <1>2
  <2>. QED
    BY <1>1, <1>2, <2>1 DEF TypeOK
<1>4. ASSUME NEW s \in 1..size' - 1
      PROVE  /\ Parent(s) # size
             /\ s # size => heap'[Parent(s)] >= heap'[s]
  <2>1. s \in Nat /\ s <= size /\ Parent(s) \in Nat /\ Parent(s) < s
    BY <1>1, <1>2, ParentBelow
  <2>2. ASSUME s # size PROVE heap'[Parent(s)] >= heap'[s]
    <3>1. s \in 1..size - 1
      BY <1>1, <2>1, <2>2
    <3>2. s \in Slot \ {size} /\ Parent(s) \in Slot \ {size}
      BY <1>1, <2>1, <2>2, <3>1, Elements
    <3>. QED
      BY <1>1, <1>2, <3>1, <3>2 DEF HeapOrder
  <2>. QED
    BY <1>1, <2>1, <2>2
<1>5. OrderUp'
  BY <1>1, <1>2, <1>4 DEF OrderUp
<1>. QED
  BY <1>1, <1>2, <1>3, <1>5 DEF IInv, HeapOrder, OrderDown

(* increase_to_k goes up one level.                                        *)
LEMMA RiseKeepsIInv == IInv /\ Rise => IInv'
<1>. SUFFICES ASSUME IInv, Rise PROVE IInv'
  OBVIOUS
<1> DEFINE p == Parent(node)
<1>1. /\ TypeOK /\ node \in Slot /\ call = "up" /\ node > 0 /\ node < size
      /\ heap[p] < heap[node] /\ node' = p /\ heap' = Swapped(heap, p, node)
      /\ UNCHANGED <<size, call, root, returned>>
  BY DEF IInv, Rise, OrderUp
<1>2. /\ node \in Nat /\ size \in Nat /\ p \in Nat /\ p < node
      /\ node \in 1..size - 1
  BY <1>1, Elements, ParentBelow
<1>3. p \in Slot /\ heap[p] \in Int /\ heap[node] \in Int
  BY <1>1, <1>2, Elements
<1>4. /\ heap' \in [Slot -> Key \cup {0}]
      /\ heap'[p] = heap[node] /\ heap'[node] = heap[p]
      /\ \A s \in Slot \ {p, node} : heap'[s] = heap[s]
  BY <1>1, <1>2, <1>3, SwappedFacts
<1>5. TypeOK'
  <2>1. p \in 0..Capacity
    BY <1>3, QueueAssumption DEF Slot, QueueAssumption
  <2>. QED
    BY <1>1, <1>4, <2>1 DEF TypeOK
<1>6. \A s \in 1..size - 1 :
        /\ s # node => heap[Parent(s)] >= heap[s]
        /\ Parent(s) = node => heap[p] >= heap[s]
  BY <1>1 DEF IInv, OrderUp
<1>7. ASSUME NEW s \in 1..size - 1, s # p
      PROVE  heap'[Parent(s)] >= heap'[s]
  <2>1. CASE s = node
    BY <1>1, <1>3, <1>4, <2>1
  <2>2. CASE s # node /\ Parent(s) = p
    <3>1. heap'[s] = heap[s] /\ heap[p] >= heap[s] /\ heap[s] \in Int
      BY <1>1, <1>4, <1>6, <1>7, <2>2, Elements
    <3>. QED
      BY <1>1, <1>3, <1>4, <2>2, <3>1
  <2>3. CASE Parent(s) = node
    <3>1. s # node
      BY <1>1, <1>2, <2>3, Elements
    <3>. QED
      BY <1>1, <1>4, <1>6, <1>7, <2>3, <3>1, Elements
  <2>4. CASE s # node /\ Parent(s) # p /\ Parent(s) # node
    BY <1>1, <1>4, <1>6, <1>7, <2>4, Elements
  <2>. QED
    BY <2>1, <2>2, <2>3, <2>4
<1>8. ASSUME NEW s \in 1..size - 1, Parent(s) = p, p > 0
      PROVE  heap'[Parent(p)] >= heap'[s]
  <2>1. p \in 1..size - 1
    BY <1>2, <1>8
  <2>2. /\ heap[Parent(p)] >= heap[p] /\ heap[Parent(p)] \in Int
        /\ heap'[Parent(p)] = heap[Parent(p)]
    <3>1. Parent(p) \in Slot /\ Parent(p) < p /\ Parent(p) \in Nat
      BY <1>1, <2>1, Elements
    <3>2. Parent(p) \in Slot \ {p, node}
      BY <1>2, <3>1
    <3>. QED
      BY <1>1, <1>2, <1>4, <1>6, <2>1, <3>2, Elements
  <2>3. CASE s = node
    BY <1>4, <2>2, <2>3
  <2>4. CASE s # node
    <3>1. s # p /\ s \in Slot /\ heap[s] \in Int
      BY <1>1, <1>8, Elements
    <3>2. heap'[s] = heap[s] /\ heap[p] >= heap[s]
      BY <1>4, <1>6, <1>8, <2>4, <3>1
    <3>. QED
      BY <1>3, <2>2, <3>1, <3>2
  <2>. QED
    BY <2>3, <2>4
<1>. HIDE DEF p
<1>9. p < size
  BY <1>1, <1>2
<1>10. OrderUp'
  BY <1>1, <1>7, <1>8, <1>9 DEF OrderUp
<1>. QED
  BY <1>1, <1>3, <1>5, <1>10 DEF IInv, HeapOrder, OrderDown

LEMMA RisenKeepsIInv == IInv /\ Risen => IInv'
<1>. SUFFICES ASSUME IInv, Risen PROVE IInv'
  OBVIOUS
<1>1. /\ TypeOK /\ call = "up" /\ call' = "idle"
      /\ UNCHANGED <<heap, size, root, node, returned>>
      /\ node = 0 \/ heap[Parent(node)] >= heap[node]
  BY DEF IInv, Risen
<1>2. TypeOK'
  BY <1>1 DEF TypeOK
<1>3. HeapOrder'
  BY <1>1 DEF IInv, OrderUp, HeapOrder
<1>. QED
  BY <1>1, <1>2, <1>3 DEF IInv, OrderDown, OrderUp

(* pop: only the root may be out of order.                                 *)
LEMMA PopKeepsIInv == IInv /\ Pop => IInv'
<1>. SUFFICES ASSUME IInv, Pop PROVE IInv'
  OBVIOUS
<1>1. /\ TypeOK /\ node \in Slot /\ HeapOrder /\ call = "idle" /\ size > 0
      /\ size \in Nat /\ size <= Capacity /\ Capacity \in Nat \ {0}
  BY QueueAssumption DEF IInv, Pop, TypeOK, QueueAssumption
<1>2. 0 \in Slot /\ size - 1 \in Slot /\ heap[0] \in Key \cup {0}
  BY <1>1 DEF Slot, TypeOK
<1>3. /\ size' = size - 1 /\ call' = "down" /\ root' = 0 /\ node' = 0
      /\ returned' = heap[0]
      /\ heap' \in [Slot -> Key \cup {0}]
      /\ \A s \in Slot \ {0} : heap'[s] = heap[s]
  BY <1>1, <1>2 DEF Pop, TypeOK
<1>4. TypeOK'
  <2>1. size' \in 0..Capacity /\ 0 \in 0..Capacity
    BY <1>1, <1>3
  <2>. QED
    BY <1>2, <1>3, <2>1 DEF TypeOK
<1>5. ASSUME NEW s \in 1..size' - 1, Parent(s) # 0
      PROVE  heap'[Parent(s)] >= heap'[s]
  <2>1. s \in 1..size - 1
    BY <1>1, <1>3
  <2>2. s \in Slot \ {0} /\ Parent(s) \in Slot \ {0}
    BY <1>1, <1>5, <2>1, Elements
  <2>. QED
    BY <1>1, <1>3, <2>1, <2>2 DEF HeapOrder
<1>6. OrderDown'
  BY <1>3, <1>5 DEF OrderDown
<1>. QED
  BY <1>2, <1>3, <1>4, <1>6 DEF IInv, HeapOrder, OrderUp

LEMMA NextKeepsIInv == IInv /\ [Next]_queueVars => IInv'
<1>. SUFFICES ASSUME IInv, [Next]_queueVars PROVE IInv'
  OBVIOUS
<1>1. CASE Next
  BY <1>1, SinkKeepsIInv, SunkKeepsIInv, PushKeepsIInv, RiseKeepsIInv, RisenKeepsIInv,
     PopKeepsIInv DEF Next
<1>2. CASE UNCHANGED queueVars
  BY <1>2 DEF queueVars, IInv, TypeOK, HeapOrder, OrderDown, OrderUp
<1>. QED
  BY <1>1, <1>2

THEOREM InductiveInvariant == Spec => []IInv
BY InitEstablishesIInv, NextKeepsIInv, PTL DEF Spec

(* No call of priority_queue.c reads or writes outside the array's types:  *)
(* the size stays within ARRAY_MAX_LENGTH, and what is stored are elements. *)
THEOREM TypeCorrect == Spec => []TypeOK
<1>1. IInv => TypeOK
  BY DEF IInv
<1>. QED
  BY <1>1, InductiveInvariant, PTL

(* Between two calls the array is a heap, whatever it held at the start,   *)
(* whatever was pushed and popped, and however long it is                  *)
(* (priority_queue.c 65-128).                                              *)
THEOREM HeapKept == Spec => []HeapOrder
<1>1. IInv => HeapOrder
  BY DEF IInv
<1>. QED
  BY <1>1, InductiveInvariant, PTL

(***************************************************************************)
(* The refinement: what MaxQueue holds is a count of what is in the array, *)
(* which a swap does not change.                                           *)
(***************************************************************************)

LEMMA SwapKeepsCount ==
  ASSUME NEW A, IsFiniteSet(A), NEW B, NEW x, NEW y,
         x \in B <=> y \in A, y \in B <=> x \in A,
         \A s : s # x /\ s # y => (s \in B <=> s \in A)
  PROVE  Cardinality(B) = Cardinality(A)
<1> DEFINE D == A \cup B \cup {x, y}
           other == [s \in D |-> IF s = x THEN y ELSE IF s = y THEN x ELSE s]
           f == [s \in A |-> other[s]]
<1>1. \A s \in D : other[s] \in D /\ other[other[s]] = s /\ (s \in B <=> other[s] \in A)
  OBVIOUS
<1>2. A \subseteq D /\ B \subseteq D
  OBVIOUS
<1>. HIDE DEF other, D
<1>3. f \in [A -> B]
  BY <1>1, <1>2
<1>4. \A s, t \in A : f[s] = f[t] => s = t
  BY <1>1, <1>2
<1>5. \A t \in B : \E s \in A : f[s] = t
  <2>. SUFFICES ASSUME NEW t \in B PROVE other[t] \in A /\ f[other[t]] = t
    BY <1>1
  <2>. QED
    BY <1>1, <1>2
<1>. HIDE DEF f
<1>6. f \in Bijection(A, B)
  BY <1>3, <1>4, <1>5 DEF Bijection, Injection, Surjection, IsInjective
<1>. QED
  BY <1>6, FS_Bijection DEF ExistsBijection

LEMMA HeldType ==
  ASSUME TypeOK
  PROVE  /\ Held \in [Key -> Nat]
         /\ \A k \in Key : IsFiniteSet({s \in 0..size - 1 : heap[s] = k})
<1>1. IsFiniteSet(0..size - 1)
  BY QueueAssumption, FS_Interval DEF TypeOK, QueueAssumption
<1>2. \A k \in Key : IsFiniteSet({s \in 0..size - 1 : heap[s] = k})
  BY <1>1, FS_Subset
<1>. QED
  BY <1>2, FS_CardinalityType DEF Held

(* The array's part that is in use.                                        *)
LEMMA InUse ==
  ASSUME TypeOK
  PROVE  0..size - 1 \subseteq Slot /\ IsFiniteSet(0..size - 1)
BY QueueAssumption, FS_Interval DEF TypeOK, QueueAssumption, Slot

LEMMA InitEstablishesFilled == Init => Filled
<1>. SUFFICES ASSUME NEW n \in 0..Capacity, Start(n) PROVE Filled
  BY DEF Init
<1>1. PICK given \in [0..n - 1 -> Key] :
        heap = [s \in Slot |-> IF s < n THEN given[s] ELSE 0]
  BY DEF Start
<1>2. \A s \in 0..n - 1 : s \in Slot /\ s < n
  BY QueueAssumption DEF Slot, QueueAssumption
<1>. QED
  BY <1>1, <1>2 DEF Start, Filled

\* Where Sink and Rise swap.
LEMMA SinkSwapsInUse ==
  ASSUME IInv, Sink
  PROVE  /\ node \in 0..size - 1 /\ Largest(heap, size, node) \in 0..size - 1
         /\ node # Largest(heap, size, node)
<1>. DEFINE m == Largest(heap, size, node)
<1>1. m # node /\ node \in Slot /\ m \in Slot /\ m < size /\ m > node
  BY LargestOfThree DEF IInv, Sink
<1>. HIDE DEF m
<1>2. node \in Nat /\ m \in Nat /\ size \in Nat
  BY <1>1, SlotIsNat, QueueAssumption DEF IInv, TypeOK, QueueAssumption
<1>3. node \in 0..size - 1 /\ m \in 0..size - 1
  BY <1>1, <1>2
<1>. QED
  BY <1>1, <1>3 DEF m

LEMMA RiseSwapsInUse ==
  ASSUME IInv, Rise
  PROVE  node \in 0..size - 1 /\ Parent(node) \in 0..size - 1
<1>1. node \in Nat /\ size \in Nat /\ node < size
  BY SlotIsNat, QueueAssumption DEF IInv, TypeOK, OrderUp, Rise, QueueAssumption
<1>. QED
  BY <1>1, ParentBelow DEF Rise

LEMMA SwapKeepsFilled ==
  ASSUME TypeOK, Filled, NEW p \in 0..size - 1, NEW q \in 0..size - 1,
         heap' = Swapped(heap, p, q), size' = size
  PROVE  Filled' /\ Held' = Held
<1>1. heap \in [Slot -> Key \cup {0}] /\ 0..size - 1 \subseteq Slot
  BY InUse DEF TypeOK
<1>2. Filled'
  BY <1>1 DEF Filled, Swapped
<1>3. ASSUME NEW k \in Key
      PROVE  Cardinality({s \in 0..size - 1 : heap'[s] = k})
               = Cardinality({s \in 0..size - 1 : heap[s] = k})
  <2> DEFINE A == {s \in 0..size - 1 : heap[s] = k}
             B == {s \in 0..size - 1 : Swapped(heap, p, q)[s] = k}
  <2>1. IsFiniteSet(A)
    BY HeldType
  <2>2. /\ p \in B <=> q \in A
        /\ q \in B <=> p \in A
        /\ \A s : s # p /\ s # q => (s \in B <=> s \in A)
    BY <1>1 DEF Swapped
  <2>. HIDE DEF A, B
  <2>3. Cardinality(B) = Cardinality(A)
    BY <2>1, <2>2, SwapKeepsCount
  <2>. QED
    BY <2>3 DEF A, B
<1>. QED
  BY <1>2, <1>3 DEF Held

\* The calls between push or pop and the next one move elements alone.
LEMMA MovesStutter ==
  ASSUME IInv, Filled, Sink \/ Sunk \/ Rise \/ Risen
  PROVE  Filled' /\ UNCHANGED <<Held, returned>>
<1>1. CASE Sink
  BY <1>1, SinkSwapsInUse, SwapKeepsFilled DEF IInv, Sink
<1>2. CASE Rise
  BY <1>2, RiseSwapsInUse, SwapKeepsFilled DEF IInv, Rise
<1>3. CASE Sunk
  BY <1>3 DEF Sunk, Filled, Held
<1>4. CASE Risen
  BY <1>4 DEF Risen, Filled, Held
<1>. QED
  BY <1>1, <1>2, <1>3, <1>4

(* push adds its element.                                                  *)
LEMMA PushInserts ==
  ASSUME IInv, Filled, NEW x \in Key, Push(x)
  PROVE  Filled' /\ Queue!Insert(x)
<1>1. /\ size \in Nat /\ size < Capacity /\ size \in Slot /\ Capacity \in Nat
      /\ heap \in [Slot -> Key \cup {0}] /\ 0..size - 1 \subseteq Slot
  BY SlotIsNat, QueueAssumption, InUse DEF IInv, Push, TypeOK, QueueAssumption
<1>2. /\ size' = size + 1 /\ heap'[size] = x /\ returned' = returned
      /\ \A s \in Slot \ {size} : heap'[s] = heap[s]
  BY <1>1 DEF Push
<1>3. 0..size' - 1 = (0..size - 1) \cup {size} /\ size \notin 0..size - 1
  BY <1>1, <1>2
<1>4. \A s \in 0..size - 1 : heap'[s] = heap[s]
  BY <1>1, <1>2, <1>3
<1>5. Filled'
  BY <1>2, <1>3, <1>4 DEF Filled
<1>6. ASSUME NEW k \in Key
      PROVE  Held'[k] = IF k = x THEN Held[k] + 1 ELSE Held[k]
  <2> DEFINE A == {s \in 0..size - 1 : heap[s] = k}
             B == {s \in 0..size' - 1 : heap'[s] = k}
  <2>1. IsFiniteSet(A) /\ size \notin A
    BY <1>3, HeldType DEF IInv
  <2>2. B = IF k = x THEN A \cup {size} ELSE A
    BY <1>2, <1>3, <1>4
  <2>3. Held'[k] = Cardinality(B) /\ Held[k] = Cardinality(A)
    BY DEF Held
  <2>. HIDE DEF A, B
  <2>. QED
    BY <2>1, <2>2, <2>3, FS_AddElement
<1>7. Held' = [Held EXCEPT ![x] = @ + 1]
  BY <1>6 DEF Held
<1>. QED
  BY <1>2, <1>5, <1>7 DEF Queue!Insert

(* The minimal-element argument: of the elements that are larger than the  *)
(* root the first would have a parent that is not, which the heap forbids. *)
LEMMA RootIsLargest ==
  ASSUME NEW n \in Nat, NEW a, \A s \in 0..n - 1 : a[s] \in Int,
         \A s \in 1..n - 1 : a[Parent(s)] >= a[s]
  PROVE  \A s \in 0..n - 1 : a[s] <= a[0]
<1> DEFINE Larger == {s \in 0..n - 1 : a[s] > a[0]}
           Less == OpToRel(<, Nat)
<1>1. Larger \subseteq Nat
  OBVIOUS
<1>2. ASSUME NEW m \in Larger PROVE \E l \in Larger : l < m
  <2>1. m \in 1..n - 1 /\ a[0] \in Int
    OBVIOUS
  <2>2. Parent(m) \in 0..n - 1 /\ Parent(m) < m
    BY <2>1, ParentBelow
  <2>3. a[Parent(m)] >= a[m] /\ a[m] \in Int /\ a[Parent(m)] \in Int
    BY <2>1, <2>2
  <2>4. Parent(m) \in Larger
    BY <2>1, <2>2, <2>3
  <2>. QED
    BY <2>2, <2>4
<1>. HIDE DEF Larger
<1>3. IsWellFoundedOn(Less, Nat)
  BY ONLY NatLessThanWellFounded, Zenon
<1>. HIDE DEF Less
<1>4. ASSUME Larger # {} PROVE FALSE
  <2>1. PICK m \in Larger : \A l \in Larger : <<l, m>> \notin Less
    BY <1>1, <1>3, <1>4, WFMin
  <2>2. PICK l \in Larger : l < m
    BY <1>2
  <2>3. <<l, m>> \in Less
    BY <1>1, <2>2 DEF Less, OpToRel
  <2>. QED
    BY <2>1, <2>3
<1>5. ASSUME NEW s \in 0..n - 1 PROVE a[s] <= a[0]
  <2>1. 0 \in 0..n - 1 /\ a[s] \in Int /\ a[0] \in Int
    OBVIOUS
  <2>2. ~(a[s] > a[0])
    BY <1>4 DEF Larger
  <2>. QED
    BY <2>1, <2>2
<1>. QED
  BY <1>5

(* pop takes the largest out.                                              *)
LEMMA PopExtracts ==
  ASSUME IInv, Filled, Pop
  PROVE  Filled' /\ heap[0] \in Key /\ Queue!ExtractMax(heap[0])
<1>1. /\ TypeOK /\ HeapOrder /\ call = "idle" /\ size \in Nat /\ size > 0
      /\ heap \in [Slot -> Key \cup {0}] /\ 0..size - 1 \subseteq Slot
  BY QueueAssumption, InUse DEF IInv, Pop, TypeOK, QueueAssumption
<1>2. 0 \in 0..size - 1 /\ size - 1 \in 0..size - 1 /\ heap[0] \in Key
  BY <1>1 DEF Filled
<1>3. /\ size' = size - 1 /\ returned' = heap[0] /\ heap'[0] = heap[size - 1]
      /\ \A s \in Slot \ {0} : heap'[s] = heap[s]
  BY <1>1, <1>2 DEF Pop
<1>4. \A s \in 0..size' - 1 : s \in 0..size - 1 /\ s # size - 1
  BY <1>1, <1>3
<1>5. Filled'
  BY <1>1, <1>2, <1>3, <1>4 DEF Filled
<1>6. ASSUME NEW k \in Key
      PROVE  /\ Held'[k] = IF k = heap[0] THEN Held[k] - 1 ELSE Held[k]
             /\ Held[k] > 0 => k <= heap[0]
  <2> DEFINE A == {s \in 0..size - 1 : heap[s] = k}
             B == {s \in 0..size' - 1 : heap'[s] = k}
             W == {s \in 0..size - 1 : Swapped(heap, 0, size - 1)[s] = k}
  <2>1. IsFiniteSet(A) /\ IsFiniteSet(W)
    BY HeldType, InUse, FS_Subset DEF IInv
  <2>2. Cardinality(W) = Cardinality(A)
    <3> DEFINE q == size - 1
    <3>1. /\ 0 \in W <=> q \in A
          /\ q \in W <=> 0 \in A
          /\ \A s : s # 0 /\ s # q => (s \in W <=> s \in A)
      BY <1>1, <1>2 DEF Swapped
    <3>. HIDE DEF A, W, q
    <3>. QED
      BY <2>1, <3>1, SwapKeepsCount
  <2>3. \A s \in 0..size' - 1 : heap'[s] = Swapped(heap, 0, size - 1)[s]
    <3>1. ASSUME NEW s \in 0..size' - 1
          PROVE  heap'[s] = Swapped(heap, 0, size - 1)[s]
      <4>1. s \in Slot /\ s # size - 1
        BY <1>1, <1>4
      <4>2. CASE s = 0
        BY <1>1, <1>2, <1>3, <4>1, <4>2 DEF Swapped
      <4>3. CASE s # 0
        BY <1>1, <1>2, <1>3, <4>1, <4>3 DEF Swapped
      <4>. QED
        BY <4>2, <4>3
    <3>. QED
      BY <3>1
  <2>4. Swapped(heap, 0, size - 1)[size - 1] = heap[0]
    BY <1>1, <1>2 DEF Swapped
  <2>5. 0..size - 1 = (0..size' - 1) \cup {size - 1}
    BY <1>1, <1>3
  <2>6. B = W \ {size - 1} /\ (size - 1 \in W <=> k = heap[0])
    BY <1>2, <1>4, <2>3, <2>4, <2>5
  <2>7. Held'[k] = Cardinality(B) /\ Held[k] = Cardinality(A)
    BY DEF Held
  <2>8. Held[k] > 0 => k <= heap[0]
    <3>1. ASSUME Held[k] > 0 PROVE A # {}
      BY <2>1, <2>7, <3>1, FS_EmptySet
    <3>2. \A s \in 0..size - 1 : heap[s] \in Int
      BY <1>1, InUse, ElementIsInt
    <3>3. \A s \in 1..size - 1 : heap[Parent(s)] >= heap[s]
      BY <1>1 DEF HeapOrder
    <3>4. \A s \in 0..size - 1 : heap[s] <= heap[0]
      BY <1>1, <3>2, <3>3, RootIsLargest
    <3>. QED
      BY <3>1, <3>4
  <2>. HIDE DEF A, B, W
  <2>9. Held'[k] = IF k = heap[0] THEN Held[k] - 1 ELSE Held[k]
    <3>1. Cardinality(B) = IF size - 1 \in W THEN Cardinality(W) - 1 ELSE Cardinality(W)
      BY <2>1, <2>6, FS_RemoveElement
    <3>. QED
      BY <2>2, <2>6, <2>7, <3>1
  <2>. QED
    BY <2>8, <2>9
<1>7. Held' = [Held EXCEPT ![heap[0]] = @ - 1]
  BY <1>6 DEF Held
<1>8. Held[heap[0]] > 0
  <2> DEFINE A == {s \in 0..size - 1 : heap[s] = heap[0]}
  <2>1. IsFiniteSet(A) /\ A # {} /\ Held[heap[0]] = Cardinality(A)
    BY <1>1, <1>2, HeldType DEF Held
  <2>. HIDE DEF A
  <2>2. Cardinality(A) # 0 /\ Cardinality(A) \in Nat
    BY <2>1, FS_EmptySet, FS_CardinalityType
  <2>. QED
    BY <2>1, <2>2
<1>. QED
  BY <1>2, <1>3, <1>5, <1>6, <1>7, <1>8 DEF Queue!ExtractMax

LEMMA StepsRefine ==
  IInv /\ Filled /\ [Next]_queueVars =>
    Filled' /\ [Queue!Next]_<<Held, returned>>
<1>. SUFFICES ASSUME IInv, Filled, [Next]_queueVars
              PROVE  Filled' /\ [Queue!Next]_<<Held, returned>>
  OBVIOUS
<1>1. CASE Sink \/ Sunk \/ Rise \/ Risen
  BY <1>1, MovesStutter
<1>2. CASE \E x \in Key : Push(x)
  BY <1>2, PushInserts DEF Queue!Next
<1>3. CASE Pop
  BY <1>3, PopExtracts DEF Queue!Next
<1>4. CASE UNCHANGED queueVars
  BY <1>4 DEF queueVars, Filled, Held
<1>. QED
  BY <1>1, <1>2, <1>3, <1>4 DEF Next

(* pop returns the largest of what has been pushed and not popped yet, and *)
(* nothing is lost or made up on the way: the heap implements the queue    *)
(* that priority_queue.c is named for, of any capacity.                    *)
THEOREM RefinesMaxQueue == Spec => ImplementsQueue
<1>1. Init => Queue!Init
  BY InitEstablishesIInv, HeldType DEF Init, Start, IInv, Queue!Init
<1>2. IInv /\ Filled /\ [Next]_queueVars => [Queue!Next]_<<Held, returned>>
  BY StepsRefine
<1>3. Spec => []Filled
  <2>1. IInv /\ Filled /\ [Next]_queueVars => Filled'
    BY StepsRefine
  <2>. QED
    BY <2>1, InitEstablishesFilled, InductiveInvariant, PTL DEF Spec
<1>. QED
  BY <1>1, <1>2, <1>3, InductiveInvariant, PTL DEF Spec, ImplementsQueue, Queue!Spec


(***************************************************************************)
(* The sorting programs. What they share: an array is rearranged by a      *)
(* permutation of its indices, and by a swap.                              *)
(***************************************************************************)

LEMMA RearrangedBy ==
  ASSUME NEW n \in Nat, NEW a, NEW b,
         NEW p \in [0..n - 1 -> 0..n - 1], NEW q \in [0..n - 1 -> 0..n - 1],
         \A k \in 0..n - 1 : p[q[k]] = k /\ q[p[k]] = k,
         \A k \in 0..n - 1 : b[k] = a[p[k]]
  PROVE  Rearranged(b, a, n)
<1> DEFINE At(f, v) == {k \in 0..n - 1 : f[k] = v}
           Values(f) == {f[k] : k \in 0..n - 1}
<1>1. \A k \in 0..n - 1 : p[k] \in 0..n - 1 /\ q[k] \in 0..n - 1 /\ a[k] = b[q[k]]
  OBVIOUS
<1>2. Values(a) = Values(b)
  <2>1. \A k \in 0..n - 1 : \E l \in 0..n - 1 : a[k] = b[l]
    BY <1>1
  <2>2. \A k \in 0..n - 1 : \E l \in 0..n - 1 : b[k] = a[l]
    BY <1>1
  <2>3. ASSUME NEW v \in Values(a) PROVE v \in Values(b)
    <3>1. PICK k \in 0..n - 1 : v = a[k]
      OBVIOUS
    <3>2. PICK l \in 0..n - 1 : a[k] = b[l]
      BY <2>1
    <3>. QED
      BY <3>1, <3>2
  <2>4. ASSUME NEW v \in Values(b) PROVE v \in Values(a)
    <3>1. PICK k \in 0..n - 1 : v = b[k]
      OBVIOUS
    <3>2. PICK l \in 0..n - 1 : b[k] = a[l]
      BY <2>2
    <3>. QED
      BY <3>1, <3>2
  <2>. HIDE DEF Values
  <2>. QED
    BY <2>3, <2>4
<1>3. ASSUME NEW v PROVE Cardinality(At(b, v)) = Cardinality(At(a, v))
  <2> DEFINE A == At(a, v)
             B == At(b, v)
             f == [k \in A |-> q[k]]
  <2>1. IsFiniteSet(A)
    <3>1. IsFiniteSet(0..n - 1)
      BY FS_Interval
    <3>. QED
      BY <3>1, FS_Subset
  <2>2. \A k \in A : k \in 0..n - 1 /\ q[k] \in B
    BY <1>1
  <2>3. \A k \in B : k \in 0..n - 1 /\ p[k] \in A
    BY <1>1
  <2>. HIDE DEF A, B
  <2>4. f \in [A -> B] /\ \A s, t \in A : f[s] = f[t] => s = t
    BY <2>2
  <2>5. \A t \in B : \E s \in A : f[s] = t
    <3>. SUFFICES ASSUME NEW t \in B PROVE p[t] \in A /\ f[p[t]] = t
      OBVIOUS
    <3>. QED
      BY <2>3
  <2>. HIDE DEF f
  <2>6. f \in Bijection(A, B)
    BY <2>4, <2>5 DEF Bijection, Injection, Surjection, IsInjective
  <2>7. Cardinality(B) = Cardinality(A)
    BY <2>1, <2>6, FS_Bijection DEF ExistsBijection
  <2>. QED
    BY <2>7 DEF A, B
<1>4. /\ Count(a, n) = [v \in Values(a) |-> Cardinality(At(a, v))]
      /\ Count(b, n) = [v \in Values(b) |-> Cardinality(At(b, v))]
  BY DEF Count
<1>. HIDE DEF At, Values
<1>5. [v \in Values(b) |-> Cardinality(At(b, v))]
        = [v \in Values(a) |-> Cardinality(At(a, v))]
  BY <1>2, <1>3
<1>. QED
  BY <1>4, <1>5 DEF Rearranged

LEMMA SwapRearranges ==
  ASSUME NEW n \in Nat, NEW S, NEW a \in [0..n - 1 -> S],
         NEW x \in 0..n - 1, NEW y \in 0..n - 1
  PROVE  Rearranged(Swapped(a, x, y), a, n)
<1> DEFINE p == [k \in 0..n - 1 |-> IF k = x THEN y ELSE IF k = y THEN x ELSE k]
           b == Swapped(a, x, y)
<1>1. p \in [0..n - 1 -> 0..n - 1] /\ \A k \in 0..n - 1 : p[p[k]] = k
  OBVIOUS
<1>2. \A k \in 0..n - 1 : b[k] = a[p[k]]
  BY DEF Swapped
<1>. HIDE DEF p, b
<1>3. Rearranged(b, a, n)
  BY <1>1, <1>2, RearrangedBy
<1>. QED
  BY <1>3 DEF b


(***************************************************************************)
(* heap-sort.c. HS!IInv is the inductive invariant: the heap, in which one *)
(* node may be out of order, and behind it what has been taken out.        *)
(***************************************************************************)

\* heap-sort.c has the helpers of priority_queue.c.
LEMMA SameHelpers ==
  /\ \A x : HS!Parent(x) = Parent(x)
  /\ \A a, n, x : HS!Largest(a, n, x) = Largest(a, n, x)
  /\ \A a, n, r, x : HS!HeapBut(a, n, r, x) <=> HeapBut(a, n, r, x)
  /\ \A a, x, y : HS!Swapped(a, x, y) = Swapped(a, x, y)
  /\ \A a, b, n : HS!Rearranged(a, b, n) <=> Rearranged(a, b, n)
<1>1. \A x : HS!Parent(x) = Parent(x)
  BY DEF HS!Parent, Parent
<1>2. \A a, n, x : HS!Largest(a, n, x) = Largest(a, n, x)
  BY DEF HS!Largest, Largest, HS!Left, Left, HS!Right, Right
<1>3. \A a, n, r, x : HS!HeapBut(a, n, r, x) <=> HeapBut(a, n, r, x)
  BY DEF HS!HeapBut, HeapBut, HS!Parent, Parent
<1>4. \A a, x, y : HS!Swapped(a, x, y) = Swapped(a, x, y)
  BY DEF HS!Swapped, Swapped
<1>5. \A a, b, n : HS!Rearranged(a, b, n) <=> Rearranged(a, b, n)
  <2>1. \A S : HS!Cardinality(S) = Cardinality(S)
    BY Zenon DEF HS!Cardinality, Cardinality
  <2>. QED
    BY <2>1 DEF HS!Rearranged, Rearranged, HS!Count, Count
<1>. QED
  BY <1>1, <1>2, <1>3, <1>4, <1>5

LEMMA SortedThings == Length \in Nat /\ Element \subseteq Int
BY ProgramsAssumption DEF ProgramsAssumption, HS!HeapSortAssumption

LEMMA RearrangedFurther ==
  ASSUME NEW n, NEW a, NEW b, NEW c, Rearranged(b, a, n), Rearranged(c, b, n)
  PROVE  Rearranged(c, a, n)
BY DEF Rearranged

\* What HS!IInv says, in terms of the helpers above.
LEMMA HeapSortFacts ==
  ASSUME HS!IInv
  PROVE  /\ array \in [0..Length - 1 -> Int]
         /\ heap_size \in Nat /\ heap_size <= Length /\ Length \in Nat
         /\ root \in Nat /\ node \in Nat
         /\ heap_size # 0 => node \in 0..heap_size - 1
         /\ \A s \in 0..heap_size - 1 : s \in 0..Length - 1 /\ array[s] \in Int
         /\ HeapBut(array, heap_size, root, node)
<1>1. array \in [0..Length - 1 -> Int] /\ Length \in Nat
  BY SortedThings DEF HS!IInv
<1>2. heap_size \in Nat /\ heap_size <= Length /\ root \in Nat /\ node \in Nat
  BY <1>1 DEF HS!IInv, HS!TypeOK
<1>3. heap_size # 0 => node \in 0..heap_size - 1
  BY <1>2 DEF HS!IInv
<1>4. \A s \in 0..heap_size - 1 : s \in 0..Length - 1 /\ array[s] \in Int
  BY <1>1, <1>2
<1>. QED
  BY <1>1, <1>2, <1>3, <1>4, SameHelpers DEF HS!IInv

LEMMA HeapSortInit == HS!Init => HS!IInv
<1>. SUFFICES ASSUME HS!Init PROVE HS!IInv
  OBVIOUS
<1>1. /\ array \in [0..Length - 1 -> Element] /\ array = input
      /\ phase = "build" /\ heap_size = Length /\ root = Parent(Length) /\ node = root
  BY SameHelpers DEF HS!Init
<1>2. /\ root \in Nat /\ root <= Length /\ (Length > 0 => root < Length) /\ Length \in Nat
  BY <1>1, SortedThings, ParentBelow
<1>3. ASSUME NEW s \in 1..Length - 1 PROVE Parent(s) \in Nat /\ Parent(s) <= root
  BY <1>1, <1>2, ParentMonotone, ParentBelow
<1>4. HeapBut(array, heap_size, root, node)
  <2>1. root > 0 => ~(Parent(root) >= root)
    BY <1>2, ParentBelow
  <2>. QED
    BY <1>1, <1>2, <1>3, <2>1 DEF HeapBut
<1>5. HS!TypeOK
  BY <1>1, <1>2 DEF HS!TypeOK
<1>6. Rearranged(array, input, Length)
  BY <1>1 DEF Rearranged
<1>7. HS!OrderedBehind
  BY <1>1, <1>2 DEF HS!OrderedBehind
<1>. QED
  BY <1>1, <1>2, <1>4, <1>5, <1>6, <1>7, SameHelpers DEF HS!IInv

LEMMA HeapSortSinks == HS!IInv /\ HS!Sink => HS!IInv'
<1>. SUFFICES ASSUME HS!IInv, HS!Sink PROVE HS!IInv'
  OBVIOUS
<1> DEFINE m == Largest(array, heap_size, node)
<1>1. /\ m # node /\ array' = Swapped(array, node, m) /\ node' = m
      /\ UNCHANGED <<input, phase, heap_size, root>>
  BY SameHelpers DEF HS!Sink
<1>2. heap_size # 0
  <2>. SUFFICES ASSUME heap_size = 0 PROVE FALSE
    OBVIOUS
  <2>1. ~(Left(node) < 0) /\ ~(Right(node) < 0)
    BY HeapSortFacts DEF Left, Right
  <2>. QED
    BY <1>1, <2>1 DEF Largest
<1>3. m \in 0..heap_size - 1 /\ HeapBut(array', heap_size, root, m)
  BY <1>1, <1>2, HeapSortFacts, HeapSinks
<1>. HIDE DEF m
<1>4. /\ node \in 0..Length - 1 /\ m \in 0..Length - 1 /\ m \in Nat
      /\ node < heap_size /\ m < heap_size /\ array \in [0..Length - 1 -> Element]
  BY <1>2, <1>3, HeapSortFacts DEF HS!IInv
<1>5. /\ array' \in [0..Length - 1 -> Element]
      /\ \A s \in 0..Length - 1 :
           array'[s] = IF s = node THEN array[m] ELSE IF s = m THEN array[node] ELSE array[s]
  BY <1>1, <1>4 DEF Swapped
<1>6. Rearranged(array', input, Length)
  BY <1>1, <1>4, HeapSortFacts, SwapRearranges, RearrangedFurther, SameHelpers DEF HS!IInv
<1>7. HS!OrderedBehind'
  <2>. SUFFICES ASSUME NEW l \in heap_size..Length - 1, NEW k \in 0..Length - 1, k < l
                PROVE  array'[k] <= array'[l]
    BY <1>1 DEF HS!OrderedBehind
  <2>1. /\ l \in 0..Length - 1 /\ l # node /\ l # m /\ node < l /\ m < l
    BY <1>4, HeapSortFacts
  <2>2. \A s \in 0..Length - 1 : s < l => array[s] <= array[l]
    BY DEF HS!IInv, HS!OrderedBehind
  <2>3. array'[l] = array[l]
    BY <1>5, <2>1
  <2>4. array'[k] \in {array[node], array[m], array[k]}
    BY <1>5
  <2>. QED
    BY <1>4, <2>1, <2>2, <2>3, <2>4
<1>8. HS!TypeOK'
  BY <1>1, <1>4, HeapSortFacts DEF HS!IInv, HS!TypeOK
<1>. QED
  BY <1>1, <1>2, <1>3, <1>4, <1>5, <1>6, <1>7, <1>8, SameHelpers DEF HS!IInv

\* max_heapify has come to an end: all from the root on is a heap.
LEMMA HeapSortSunk ==
  ASSUME HS!IInv, HS!Sunk
  PROVE  \A s \in 1..heap_size - 1 : Parent(s) >= root => array[Parent(s)] >= array[s]
<1>1. Largest(array, heap_size, node) = node
  BY SameHelpers DEF HS!Sunk
<1>2. CASE heap_size = 0
  BY <1>2
<1>3. CASE heap_size # 0
  BY <1>1, <1>3, HeapSortFacts, HeapSunk
<1>. QED
  BY <1>2, <1>3

LEMMA HeapSortBuilds == HS!IInv /\ HS!BuildNext => HS!IInv'
<1>. SUFFICES ASSUME HS!IInv, HS!BuildNext PROVE HS!IInv'
  OBVIOUS
<1>1. /\ HS!Sunk /\ phase = "build" /\ UNCHANGED <<input, array, heap_size>>
      /\ IF root > 0 THEN root' = root - 1 /\ node' = root' /\ phase' = phase
                     ELSE phase' = "sort" /\ root' = root /\ node' = node
  BY DEF HS!BuildNext
<1>2. \A s \in 1..heap_size - 1 : Parent(s) >= root => array[Parent(s)] >= array[s]
  BY <1>1, HeapSortSunk
<1>3. heap_size = Length /\ root <= Length /\ Length \in Nat /\ root \in Nat /\ node \in Nat
  BY <1>1, HeapSortFacts DEF HS!IInv, HS!TypeOK
<1>4. /\ array' \in [0..Length - 1 -> Element] /\ Rearranged(array', input', Length)
      /\ heap_size' = Length
  BY <1>1, <1>3, SameHelpers DEF HS!IInv
<1>5. HS!OrderedBehind'
  BY <1>1, <1>3 DEF HS!OrderedBehind
<1>6. CASE root > 0
  <2>1. root' = root - 1 /\ node' = root - 1 /\ phase' = "build" /\ root' \in Nat
    BY <1>1, <1>3, <1>6
  <2>2. ASSUME NEW s \in 1..Length - 1 PROVE Parent(s) \in Nat
    BY <1>3, ParentBelow
  <2>3. HeapBut(array', heap_size', root', node')
    <3>1. \A s \in 1..Length - 1 :
            Parent(s) >= root - 1 /\ Parent(s) # root - 1 => array[Parent(s)] >= array[s]
      BY <1>2, <1>3, <2>2
    <3>2. node' > 0 => ~(Parent(node') >= root')
      BY <2>1, ParentBelow
    <3>. QED
      BY <1>1, <1>3, <2>1, <3>1, <3>2 DEF HeapBut
  <2>4. HS!TypeOK'
    BY <1>3, <1>4, <2>1 DEF HS!TypeOK
  <2>5. IF heap_size' = 0 THEN Length = 0 ELSE node' < heap_size'
    BY <1>3, <1>4, <1>6, <2>1
  <2>6. phase' # "sort" /\ phase' # "done"
    BY <2>1
  <2>. QED
    BY <1>3, <1>4, <1>5, <2>1, <2>3, <2>4, <2>5, <2>6, SameHelpers DEF HS!IInv
<1>7. CASE ~(root > 0)
  <2>1. root' = 0 /\ root = 0 /\ node' = node /\ phase' = "sort"
    BY <1>1, <1>3, <1>7
  <2>2. HeapBut(array', heap_size', root', node')
    BY <1>1, <2>1, HeapSortFacts
  <2>3. HS!TypeOK'
    BY <1>1, <2>1 DEF HS!IInv, HS!TypeOK
  <2>4. IF heap_size' = 0 THEN Length = 0 ELSE node' < heap_size'
    BY <1>1, <2>1 DEF HS!IInv
  <2>5. phase' # "build" /\ phase' # "done"
    BY <2>1
  <2>. QED
    BY <1>3, <1>4, <1>5, <2>1, <2>2, <2>3, <2>4, <2>5, SameHelpers DEF HS!IInv
<1>. QED
  BY <1>6, <1>7

LEMMA HeapSortTakesOut == HS!IInv /\ HS!SortNext => HS!IInv'
<1>. SUFFICES ASSUME HS!IInv, HS!SortNext PROVE HS!IInv'
  OBVIOUS
<1>1. /\ HS!Sunk /\ phase = "sort" /\ UNCHANGED <<input, root>>
      /\ IF heap_size > 1
           THEN /\ array' = Swapped(array, 0, heap_size - 1)
                /\ heap_size' = heap_size - 1 /\ node' = 0 /\ phase' = phase
           ELSE phase' = "done" /\ UNCHANGED <<array, heap_size, node>>
  BY SameHelpers DEF HS!SortNext
<1>2. phase # "build" /\ root = 0 /\ root' = 0
  BY <1>1 DEF HS!IInv
<1>3. \A s \in 1..heap_size - 1 : Parent(s) \in Nat /\ Parent(s) < s
  BY ParentBelow
<1>4. \A s \in 1..heap_size - 1 : array[Parent(s)] >= array[s]
  BY <1>1, <1>2, <1>3, HeapSortSunk
<1>5. \A s \in 0..heap_size - 1 : array[s] <= array[0]
  BY <1>4, HeapSortFacts, RootIsLargest
<1>6. CASE heap_size > 1
  <2> DEFINE last == heap_size - 1
  <2>1. /\ array' = Swapped(array, 0, last) /\ heap_size' = last /\ node' = 0
        /\ phase' = "sort"
    BY <1>1, <1>6
  <2>2. /\ heap_size \in Nat /\ last \in Nat /\ last > 0 /\ heap_size = last + 1
        /\ last < Length /\ 0 \in 0..Length - 1 /\ last \in 0..Length - 1
        /\ Length \in Nat
    BY <1>6, HeapSortFacts
  <2>. HIDE DEF last
  <2>3. /\ array' \in [0..Length - 1 -> Element]
        /\ \A s \in 0..Length - 1 :
             array'[s] = IF s = 0 THEN array[last] ELSE IF s = last THEN array[0] ELSE array[s]
    <3>1. array \in [0..Length - 1 -> Element]
      BY DEF HS!IInv
    <3>. QED
      BY <2>1, <2>2, <3>1 DEF Swapped
  <2>4. Rearranged(array', input', Length)
    BY <1>1, <2>1, <2>2, SwapRearranges, RearrangedFurther, SameHelpers DEF HS!IInv
  <2>5. ASSUME NEW s \in 1..last - 1, Parent(s) # 0
        PROVE  array'[Parent(s)] >= array'[s]
    <3>1. s \in 1..heap_size - 1 /\ s \in 0..Length - 1 /\ s # 0 /\ s # last
      BY <2>2
    <3>2. Parent(s) \in 0..Length - 1 /\ Parent(s) # last
      BY <1>3, <2>2, <3>1
    <3>. QED
      BY <1>4, <2>3, <2>5, <3>1, <3>2
  <2>6. HeapBut(array', heap_size', root', node')
    BY <1>2, <2>1, <2>5 DEF HeapBut
  <2>7. HS!OrderedBehind'
    <3>. SUFFICES ASSUME NEW l \in last..Length - 1, NEW k \in 0..Length - 1, k < l
                  PROVE  array'[k] <= array'[l]
      BY <2>1 DEF HS!OrderedBehind
    <3>1. CASE l = last
      <4>1. k \in 0..heap_size - 1 /\ last \in 0..heap_size - 1 /\ l # 0
        BY <2>2, <3>1
      <4>2. array'[l] = array[0] /\ (array'[k] = array[k] \/ array'[k] = array[last])
        BY <2>2, <2>3, <3>1, <4>1
      <4>. QED
        BY <1>5, <4>1, <4>2
    <3>2. CASE l # last
      <4>1. l \in heap_size..Length - 1 /\ l \in 0..Length - 1 /\ l # 0 /\ last < l /\ 0 < l
        BY <2>2, <3>2
      <4>2. \A s \in 0..Length - 1 : s < l => array[s] <= array[l]
        BY <4>1 DEF HS!IInv, HS!OrderedBehind
      <4>3. array'[l] = array[l] /\ array'[k] \in {array[0], array[last], array[k]}
        BY <2>3, <3>2, <4>1
      <4>. QED
        BY <2>2, <4>1, <4>2, <4>3
    <3>. QED
      BY <3>1, <3>2
  <2>8. HS!TypeOK'
    BY <1>2, <2>1, <2>2 DEF HS!TypeOK
  <2>9. phase' # "build" /\ phase' # "done"
    BY <2>1
  <2>10. heap_size' # 0 /\ node' < heap_size'
    BY <2>1, <2>2
  <2>. QED
    BY <1>2, <2>3, <2>4, <2>6, <2>7, <2>8, <2>9, <2>10, SameHelpers DEF HS!IInv
<1>7. CASE ~(heap_size > 1)
  <2>1. phase' = "done" /\ UNCHANGED <<array, heap_size, node, input, root>>
    BY <1>1, <1>7
  <2>2. heap_size <= 1
    BY <1>7, HeapSortFacts
  <2>3. HS!TypeOK' /\ HS!OrderedBehind'
    BY <2>1 DEF HS!IInv, HS!TypeOK, HS!OrderedBehind
  <2>4. phase' # "build"
    BY <2>1
  <2>. QED
    BY <1>2, <2>1, <2>2, <2>3, <2>4, SameHelpers DEF HS!IInv
<1>. QED
  BY <1>6, <1>7

LEMMA HeapSortIInvSuffices == HS!IInv => HS!TypeOK /\ HS!Sorts
<1>. SUFFICES ASSUME HS!IInv, phase = "done" PROVE HS!InOrder(array, Length)
  BY DEF HS!IInv, HS!Sorts
<1>1. heap_size <= 1 /\ heap_size \in Nat /\ Length \in Nat
  BY HeapSortFacts DEF HS!IInv
<1>2. \A k, l \in 0..Length - 1 : k < l => l \in heap_size..Length - 1
  BY <1>1
<1>. QED
  BY <1>2 DEF HS!IInv, HS!OrderedBehind, HS!InOrder

\* While heap-sort runs, each step is one of it.
LEMMA HeapSortAlone ==
  [ProgramsNext]_vars =>
    /\ UNCHANGED program
    /\ program = "heap-sort" => HS!Next \/ UNCHANGED <<input, array, phase, heap_size, root, node>>
<1>1. ASSUME ProgramsNext
      PROVE  UNCHANGED program /\ (program = "heap-sort" => HS!Next)
  BY <1>1 DEF ProgramsNext, QueueStep, HeapSortStep, MergeSortStep, QuickSortStep,
              QsortStep, CutRodStep, UthashStep, ScsiStep, RetStep
<1>2. ASSUME UNCHANGED vars
      PROVE  UNCHANGED <<program, input, array, phase, heap_size, root, node>>
  BY <1>2 DEF vars, algorithms, arrays, queueVars
<1>. QED
  BY <1>1, <1>2

(* heap-sort.c sorts an array of any length of any ints, and keeps its     *)
(* variables within their ranges.                                          *)
THEOREM HeapSortSorts ==
  ProgramsSpec => [](program = "heap-sort" => HS!TypeOK /\ HS!Sorts)
<1> DEFINE Inv == program = "heap-sort" => HS!IInv
<1>1. ProgramsInit => Inv
  <2>1. ProgramsInit /\ program = "heap-sort" => HS!Init
    BY DEF ProgramsInit, RunsAlgorithm, RunsProbe, RunsQueue, RunsHeapSort, RunsMergeSort,
           RunsQuickSort, RunsQsort, RunsCutRod, RunsUthash
  <2>. QED
    BY <2>1, HeapSortInit
<1>2. Inv /\ [ProgramsNext]_vars => Inv'
  <2>. SUFFICES ASSUME program' = "heap-sort", Inv, [ProgramsNext]_vars PROVE HS!IInv'
    OBVIOUS
  <2>1. HS!IInv /\ (HS!Next \/ UNCHANGED <<input, array, phase, heap_size, root, node>>)
    BY HeapSortAlone
  <2>2. CASE HS!Next
    BY <2>1, <2>2, HeapSortSinks, HeapSortBuilds, HeapSortTakesOut DEF HS!Next
  <2>3. CASE UNCHANGED <<input, array, phase, heap_size, root, node>>
    BY <2>1, <2>3 DEF HS!IInv, HS!TypeOK, HS!OrderedBehind
  <2>. QED
    BY <2>1, <2>2, <2>3
<1>3. Inv => (program = "heap-sort" => HS!TypeOK /\ HS!Sorts)
  BY HeapSortIInvSuffices
<1>. QED
  BY <1>1, <1>2, <1>3, PTL DEF ProgramsSpec

(***************************************************************************)
(* quick-sort.c. QS!IInv is the inductive invariant: what is not in one of *)
(* the ranges still to be sorted is in order.                              *)
(***************************************************************************)

LEMMA QuickHelpers ==
  /\ \A a, x, y : QS!Swapped(a, x, y) = Swapped(a, x, y)
  /\ \A a, b, n : QS!Rearranged(a, b, n) <=> Rearranged(a, b, n)
<1>1. \A S : QS!Cardinality(S) = Cardinality(S)
  BY Zenon DEF QS!Cardinality, Cardinality
<1>2. \A a, x, y : QS!Swapped(a, x, y) = Swapped(a, x, y)
  BY DEF QS!Swapped, Swapped
<1>3. \A a, b, n : QS!Rearranged(a, b, n) <=> Rearranged(a, b, n)
  BY <1>1 DEF QS!Rearranged, Rearranged, QS!Count, Count
<1>. QED
  BY <1>2, <1>3

\* What the ranges are.
LEMMA QuickRanges ==
  ASSUME QS!RangesApart
  PROVE  /\ Length \in Nat /\ Len(todo) \in Nat /\ DOMAIN todo = 1..Len(todo)
         /\ \A p \in DOMAIN todo :
              /\ todo[p] = [begin |-> todo[p].begin, end |-> todo[p].end]
              /\ todo[p].begin \in 0..Length - 1 /\ todo[p].end \in 0..Length - 1
              /\ todo[p].begin \in Nat /\ todo[p].end \in Nat
              /\ todo[p].begin < todo[p].end
<1>1. Length \in Nat
  BY SortedThings
<1>2. /\ todo \in Seq([begin : 0..Length - 1, end : 0..Length - 1])
      /\ \A p \in DOMAIN todo : todo[p].begin < todo[p].end
  BY DEF QS!RangesApart
<1>3. \A p \in DOMAIN todo : todo[p] \in [begin : 0..Length - 1, end : 0..Length - 1]
  <2> DEFINE R == [begin : 0..Length - 1, end : 0..Length - 1]
  <2>1. todo \in Seq(R)
    BY <1>2
  <2>. HIDE DEF R
  <2>2. \A p \in DOMAIN todo : todo[p] \in R
    BY <2>1
  <2>. QED
    BY <2>2 DEF R
<1>. QED
  BY <1>1, <1>2, <1>3

\* Moving elements within a range leaves the others in order with them.
LEMMA MovingInRange ==
  ASSUME QS!RangesApart, QS!OrderedApart, NEW p \in DOMAIN todo, NEW b,
         \A s \in 0..Length - 1 :
           ~(todo[p].begin <= s /\ s <= todo[p].end) => b[s] = array[s],
         \A s \in todo[p].begin..todo[p].end :
           \E t \in todo[p].begin..todo[p].end : b[s] = array[t]
  PROVE  \A k, l \in 0..Length - 1 :
           k < l => b[k] <= b[l] \/ \E q \in DOMAIN todo : todo[q].begin <= k /\ l <= todo[q].end
<1>. SUFFICES ASSUME NEW k \in 0..Length - 1, NEW l \in 0..Length - 1, k < l,
                     \A q \in DOMAIN todo : ~(todo[q].begin <= k /\ l <= todo[q].end)
              PROVE  b[k] <= b[l]
  OBVIOUS
<1> DEFINE In(s) == todo[p].begin <= s /\ s <= todo[p].end
<1>1. /\ Length \in Nat /\ todo[p].begin \in Nat /\ todo[p].end \in Nat
      /\ todo[p].begin \in 0..Length - 1 /\ todo[p].end \in 0..Length - 1
  BY QuickRanges
<1>2. ASSUME NEW s \in 0..Length - 1, NEW t \in 0..Length - 1, s < t,
             \A q \in DOMAIN todo : ~(todo[q].begin <= s /\ t <= todo[q].end)
      PROVE  array[s] <= array[t]
  <2>1. \A q \in DOMAIN todo : ~({s, t} \subseteq QS!Span(todo[q]))
    BY <1>2 DEF QS!Span
  <2>. QED
    BY <1>2, <2>1 DEF QS!OrderedApart
<1>3. \A q \in DOMAIN todo : todo[q].begin \in Nat /\ todo[q].end \in Nat
  BY QuickRanges
<1>4. \A q \in DOMAIN todo :
        q # p => todo[p].end < todo[q].begin \/ todo[q].end < todo[p].begin
  BY DEF QS!RangesApart
<1>5. CASE In(k)
  <2>1. ~In(l) /\ todo[p].end < l
    BY <1>1, <1>5
  <2>2. PICK t \in todo[p].begin..todo[p].end : b[k] = array[t]
    BY <1>5
  <2>3. t \in 0..Length - 1 /\ t < l /\ t \in Nat
    BY <1>1, <2>1
  <2>4. \A q \in DOMAIN todo : ~(todo[q].begin <= t /\ l <= todo[q].end)
    BY <1>1, <1>3, <1>4, <1>5, <2>1, <2>3
  <2>. QED
    BY <1>2, <2>1, <2>2, <2>3, <2>4
<1>6. CASE ~In(k) /\ In(l)
  <2>1. k < todo[p].begin
    BY <1>1, <1>6
  <2>2. PICK t \in todo[p].begin..todo[p].end : b[l] = array[t]
    BY <1>6
  <2>3. t \in 0..Length - 1 /\ k < t /\ t \in Nat
    BY <1>1, <2>1
  <2>4. \A q \in DOMAIN todo : ~(todo[q].begin <= k /\ t <= todo[q].end)
    BY <1>1, <1>3, <1>4, <1>6, <2>1, <2>3
  <2>. QED
    BY <1>2, <1>6, <2>1, <2>2, <2>3, <2>4
<1>7. CASE ~In(k) /\ ~In(l)
  BY <1>2, <1>7
<1>. QED
  BY <1>5, <1>6, <1>7

LEMMA QuickInit == QS!Init => QS!IInv
<1>. SUFFICES ASSUME QS!Init PROVE QS!IInv
  OBVIOUS
<1>1. /\ array \in [0..Length - 1 -> Element] /\ array = input /\ cursor = <<>>
      /\ todo = IF 0 < Length - 1 THEN <<[begin |-> 0, end |-> Length - 1]>> ELSE <<>>
      /\ Length \in Nat /\ Element \subseteq Int
  BY SortedThings DEF QS!Init, QS!Sort
<1>2. Rearranged(array, input, Length)
  BY <1>1 DEF Rearranged
<1>3. QS!Parted
  BY <1>1 DEF QS!Parted
<1>4. CASE 0 < Length - 1
  <2>1. /\ DOMAIN todo = {1} /\ todo[1] = [begin |-> 0, end |-> Length - 1]
        /\ todo \in Seq([begin : 0..Length - 1, end : 0..Length - 1])
    BY <1>1, <1>4
  <2>2. QS!RangesApart
    BY <1>4, <2>1 DEF QS!RangesApart
  <2>3. \A k, l \in 0..Length - 1 : {k, l} \subseteq QS!Span(todo[1])
    BY <2>1 DEF QS!Span
  <2>4. QS!OrderedApart
    BY <2>1, <2>3 DEF QS!OrderedApart
  <2>. QED
    BY <1>1, <1>2, <1>3, <2>2, <2>4, QuickHelpers DEF QS!IInv
<1>5. CASE ~(0 < Length - 1)
  <2>1. todo = <<>> /\ DOMAIN todo = {}
    BY <1>1, <1>5
  <2>2. QS!RangesApart
    BY <2>1 DEF QS!RangesApart
  <2>3. \A k, l \in 0..Length - 1 : ~(k < l)
    BY <1>1, <1>5
  <2>4. QS!OrderedApart
    BY <2>3 DEF QS!OrderedApart
  <2>. QED
    BY <1>1, <1>2, <1>3, <2>2, <2>4, QuickHelpers DEF QS!IInv
<1>. QED
  BY <1>4, <1>5

\* The range being sorted.
LEMMA QuickHead ==
  ASSUME QS!IInv, todo # <<>>
  PROVE  /\ Head(todo) = todo[1] /\ 1 \in DOMAIN todo
         /\ Head(todo).begin \in 0..Length - 1 /\ Head(todo).end \in 0..Length - 1
         /\ Head(todo).begin \in Nat /\ Head(todo).end \in Nat
         /\ Head(todo).begin < Head(todo).end
         /\ Length \in Nat /\ array \in [0..Length - 1 -> Int]
<1>1. /\ array \in [0..Length - 1 -> Int] /\ Length \in Nat /\ QS!RangesApart
  BY SortedThings DEF QS!IInv
<1>2. todo \in Seq([begin : 0..Length - 1, end : 0..Length - 1]) /\ Len(todo) \in Nat
  BY <1>1, QuickRanges DEF QS!RangesApart
<1>3. Len(todo) # 0 /\ Head(todo) = todo[1]
  BY <1>2
<1>4. 1 \in DOMAIN todo
  BY <1>1, <1>2, <1>3, QuickRanges
<1>. QED
  BY <1>1, <1>3, <1>4, QuickRanges

LEMMA SwapInRange ==
  ASSUME QS!IInv, todo # <<>>, NEW x, NEW y,
         x \in Head(todo).begin..Head(todo).end, y \in Head(todo).begin..Head(todo).end
  PROVE  LET b == Swapped(array, x, y) IN
         /\ b \in [0..Length - 1 -> Element]
         /\ \A s \in 0..Length - 1 :
              b[s] = IF s = x THEN array[y] ELSE IF s = y THEN array[x] ELSE array[s]
         /\ Rearranged(b, input, Length)
         /\ \A k, l \in 0..Length - 1 :
              k < l => b[k] <= b[l] \/ \E q \in DOMAIN todo : todo[q].begin <= k /\ l <= todo[q].end
<1> DEFINE b == Swapped(array, x, y)
<1>1. /\ Length \in Nat /\ x \in 0..Length - 1 /\ y \in 0..Length - 1
      /\ array \in [0..Length - 1 -> Element] /\ Rearranged(array, input, Length)
  BY QuickHead, QuickHelpers DEF QS!IInv
<1>2. /\ b \in [0..Length - 1 -> Element]
      /\ \A s \in 0..Length - 1 :
           b[s] = IF s = x THEN array[y] ELSE IF s = y THEN array[x] ELSE array[s]
  BY <1>1 DEF Swapped
<1>3. Rearranged(b, input, Length)
  BY <1>1, SwapRearranges, RearrangedFurther
<1>. HIDE DEF b
<1>4. \A s \in 0..Length - 1 :
        ~(todo[1].begin <= s /\ s <= todo[1].end) => b[s] = array[s]
  <2>. SUFFICES ASSUME NEW s \in 0..Length - 1, ~(todo[1].begin <= s /\ s <= todo[1].end)
                PROVE  b[s] = array[s]
    OBVIOUS
  <2>1. /\ Head(todo) = todo[1] /\ Length \in Nat
        /\ Head(todo).begin \in Nat /\ Head(todo).end \in Nat
    BY QuickHead
  <2>2. s # x /\ s # y
    BY <2>1
  <2>. QED
    BY <1>2, <2>2
<1>5. \A s \in todo[1].begin..todo[1].end :
        \E t \in todo[1].begin..todo[1].end : b[s] = array[t]
  <2>. SUFFICES ASSUME NEW s \in todo[1].begin..todo[1].end
                PROVE  \E t \in todo[1].begin..todo[1].end : b[s] = array[t]
    OBVIOUS
  <2>1. s \in 0..Length - 1 /\ Head(todo) = todo[1]
    BY <1>1, QuickHead
  <2>. QED
    BY <1>2, <2>1
<1>6. \A k, l \in 0..Length - 1 :
        k < l => b[k] <= b[l] \/ \E q \in DOMAIN todo : todo[q].begin <= k /\ l <= todo[q].end
  <2>1. 1 \in DOMAIN todo /\ QS!RangesApart /\ QS!OrderedApart
    BY QuickHead DEF QS!IInv
  <2>. QED
    BY <1>4, <1>5, <2>1, MovingInRange
<1>. QED
  BY <1>2, <1>3, <1>6 DEF b

\* The invariant, from what a step of partition leaves.
LEMMA StillOrderedApart ==
  ASSUME QS!RangesApart, UNCHANGED todo,
         \A k, l \in 0..Length - 1 :
           k < l => array'[k] <= array'[l]
                    \/ \E q \in DOMAIN todo : todo[q].begin <= k /\ l <= todo[q].end
  PROVE  QS!OrderedApart' /\ QS!RangesApart'
<1>1. QS!RangesApart'
  BY DEF QS!RangesApart
<1>2. ASSUME NEW k \in 0..Length - 1, NEW l \in 0..Length - 1, k < l,
             NEW q \in DOMAIN todo, todo[q].begin <= k, l <= todo[q].end
      PROVE  {k, l} \subseteq QS!Span(todo[q])
  <2>1. todo[q].begin \in Nat /\ todo[q].end \in Nat /\ Length \in Nat
    BY QuickRanges
  <2>2. k \in todo[q].begin..todo[q].end /\ l \in todo[q].begin..todo[q].end
    BY <1>2, <2>1
  <2>. QED
    BY <2>2 DEF QS!Span
<1>3. QS!OrderedApart'
  BY <1>2 DEF QS!OrderedApart, QS!Span
<1>. QED
  BY <1>1, <1>3

LEMMA QuickPicks ==
  ASSUME QS!IInv, NEW rand_idx, QS!Pick(rand_idx)
  PROVE  QS!IInv'
<1>1. /\ todo # <<>> /\ rand_idx \in Head(todo).begin..Head(todo).end
      /\ array' = Swapped(array, rand_idx, Head(todo).end)
      /\ cursor' = [left |-> Head(todo).begin, right |-> Head(todo).begin]
      /\ UNCHANGED <<input, todo>>
  BY QuickHelpers DEF QS!Pick
<1>2. Head(todo).end \in Head(todo).begin..Head(todo).end
  BY <1>1, QuickHead
<1>3. /\ array' \in [0..Length - 1 -> Element] /\ Rearranged(array', input, Length)
      /\ QS!OrderedApart' /\ QS!RangesApart'
  BY <1>1, <1>2, SwapInRange, StillOrderedApart DEF QS!IInv
<1>4. QS!Parted'
  <2>1. /\ Head(todo).begin \in Head(todo).begin..cursor'.right
        /\ cursor'.right \in QS!Span(Head(todo))
        /\ cursor'.left = Head(todo).begin /\ cursor'.right = Head(todo).begin
    BY <1>1, QuickHead DEF QS!Span
  <2>2. \A s \in Head(todo).begin..Head(todo).begin - 1 : FALSE
    BY <1>1, QuickHead
  <2>. QED
    BY <1>1, <2>1, <2>2 DEF QS!Parted, QS!Span
<1>. QED
  BY <1>1, <1>3, <1>4, QuickHelpers DEF QS!IInv

\* What partition has passed.
LEMMA QuickParted ==
  ASSUME QS!IInv, cursor # <<>>
  PROVE  /\ todo # <<>>
         /\ cursor.left \in Nat /\ cursor.right \in Nat
         /\ Head(todo).begin <= cursor.left /\ cursor.left <= cursor.right
         /\ cursor.right <= Head(todo).end
         /\ \A s \in Head(todo).begin..cursor.left - 1 : array[s] <= array[Head(todo).end]
         /\ \A s \in cursor.left..cursor.right - 1 : array[s] > array[Head(todo).end]
<1>1. /\ todo # <<>>
      /\ cursor.left \in Head(todo).begin..cursor.right
      /\ cursor.right \in Head(todo).begin..Head(todo).end
      /\ \A s \in Head(todo).begin..cursor.left - 1 : array[s] <= array[Head(todo).end]
      /\ \A s \in cursor.left..cursor.right - 1 : array[s] > array[Head(todo).end]
  BY DEF QS!IInv, QS!Parted, QS!Span
<1>. QED
  BY <1>1, QuickHead

LEMMA QuickCompares == QS!IInv /\ QS!Compare => QS!IInv'
<1>. SUFFICES ASSUME QS!IInv, QS!Compare PROVE QS!IInv'
  OBVIOUS
<1> DEFINE left == cursor.left
           right == cursor.right
           first == Head(todo).begin
           last == Head(todo).end
<1>1. /\ cursor # <<>> /\ right < last /\ UNCHANGED <<input, todo>>
      /\ array[right] <= array[last] =>
           /\ array' = Swapped(array, left, right)
           /\ cursor' = [left |-> left + 1, right |-> right + 1]
      /\ ~(array[right] <= array[last]) =>
           /\ array' = array
           /\ cursor' = [left |-> left, right |-> right + 1]
  BY QuickHelpers DEF QS!Compare
<1>2. /\ todo # <<>> /\ left \in Nat /\ right \in Nat /\ first <= left /\ left <= right
      /\ \A s \in first..left - 1 : array[s] <= array[last]
      /\ \A s \in left..right - 1 : array[s] > array[last]
  BY <1>1, QuickParted
<1>3. /\ first \in Nat /\ last \in Nat /\ first < last /\ last < Length /\ Length \in Nat
      /\ array \in [0..Length - 1 -> Int] /\ last \in 0..Length - 1
  BY <1>2, QuickHead
<1>. HIDE DEF left, right, first, last
<1>4. /\ left \in first..last /\ right \in first..last /\ left \in 0..Length - 1
      /\ right \in 0..Length - 1 /\ left < last /\ right < last
  <2>1. right < last
    BY <1>1
  <2>2. left \in Nat /\ right \in Nat /\ first <= left /\ left <= right
    BY <1>2
  <2>3. first \in Nat /\ last \in Nat /\ last < Length /\ Length \in Nat
    BY <1>3
  <2>. QED
    BY <2>1, <2>2, <2>3
<1>5. ASSUME NEW c, cursor' = [left |-> c, right |-> right + 1], c \in first..right + 1,
             \A s \in first..c - 1 : array'[s] <= array'[last],
             \A s \in c..right : array'[s] > array'[last]
      PROVE  QS!Parted'
  <2>1. /\ cursor'.left = c /\ cursor'.right = right + 1
        /\ right + 1 \in first..last /\ (right + 1) - 1 = right
    BY <1>1, <1>2, <1>3, <1>5
  <2>. QED
    BY <1>1, <1>2, <1>5, <2>1 DEF QS!Parted, QS!Span, first, last
<1>6. CASE array[right] <= array[last]
  <2>1. /\ array' \in [0..Length - 1 -> Element] /\ Rearranged(array', input, Length)
        /\ QS!OrderedApart' /\ QS!RangesApart'
    BY <1>1, <1>2, <1>4, <1>6, SwapInRange, StillOrderedApart DEF QS!IInv, first, last
  <2>2. \A s \in 0..Length - 1 :
          array'[s] = IF s = left THEN array[right]
                      ELSE IF s = right THEN array[left] ELSE array[s]
    BY <1>1, <1>3, <1>4, <1>6 DEF Swapped
  <2>3. array'[last] = array[last]
    <3>1. last # left /\ last # right /\ last \in 0..Length - 1
      BY <1>2, <1>3, <1>4
    <3>. QED
      BY <2>2, <3>1
  <2>4. ASSUME NEW s \in first..left PROVE array'[s] <= array'[last]
    <3>1. s \in 0..Length - 1 /\ (s = left \/ s \in first..left - 1)
      BY <1>2, <1>3, <1>4
    <3>. QED
      BY <1>2, <1>3, <1>4, <1>6, <2>2, <2>3, <3>1
  <2>5. ASSUME NEW s \in left + 1..right PROVE array'[s] > array'[last]
    <3>1. /\ s \in 0..Length - 1 /\ s # left /\ left \in left..right - 1
          /\ (s = right \/ s \in left..right - 1)
      BY <1>2, <1>3, <1>4
    <3>. QED
      BY <1>2, <1>3, <1>4, <2>2, <2>3, <3>1
  <2>6. left + 1 \in first..right + 1 /\ (left + 1) - 1 = left
    BY <1>2, <1>3
  <2>7. QS!Parted'
    BY <1>1, <1>5, <1>6, <2>4, <2>5, <2>6
  <2>. QED
    BY <1>1, <2>1, <2>7, QuickHelpers DEF QS!IInv
<1>7. CASE ~(array[right] <= array[last])
  <2>1. array' = array /\ cursor' = [left |-> left, right |-> right + 1]
    BY <1>1, <1>7
  <2>2. QS!OrderedApart' /\ QS!RangesApart'
    BY <1>1, <2>1 DEF QS!IInv, QS!OrderedApart, QS!RangesApart, QS!Span
  <2>3. array[right] > array[last]
    BY <1>3, <1>4, <1>7
  <2>4. \A s \in left..right : array'[s] > array'[last]
    <3>1. \A s \in left..right : s = right \/ s \in left..right - 1
      BY <1>2
    <3>. QED
      BY <1>2, <2>1, <2>3, <3>1
  <2>5. left \in first..right + 1
    BY <1>2, <1>3
  <2>6. QS!Parted'
    BY <1>2, <1>5, <2>1, <2>4, <2>5
  <2>. QED
    BY <1>1, <2>1, <2>2, <2>6, QuickHelpers DEF QS!IInv
<1>. QED
  BY <1>6, <1>7

\* Smaller ranges take the place of the first one.
LEMMA RangesDivided ==
  ASSUME QS!IInv, todo # <<>>,
         NEW ranges \in Seq([begin : 0..Length - 1, end : 0..Length - 1]),
         \A p \in DOMAIN ranges :
           /\ ranges[p].begin < ranges[p].end
           /\ Head(todo).begin <= ranges[p].begin /\ ranges[p].end <= Head(todo).end,
         \A p, q \in DOMAIN ranges :
           p # q => ranges[p].end < ranges[q].begin \/ ranges[q].end < ranges[p].begin,
         todo' = ranges \o Tail(todo)
  PROVE  /\ QS!RangesApart'
         /\ \A p \in DOMAIN ranges : \E q \in DOMAIN todo' : todo'[q] = ranges[p]
         /\ \A p \in DOMAIN todo : p # 1 => \E q \in DOMAIN todo' : todo'[q] = todo[p]
<1> DEFINE R == [begin : 0..Length - 1, end : 0..Length - 1]
           n == Len(ranges)
           m == Len(todo)
<1>1. todo \in Seq(R) /\ ranges \in Seq(R) /\ QS!RangesApart
  BY DEF QS!IInv, QS!RangesApart
<1>2. todo' \in Seq(R)
  <2>. HIDE DEF R
  <2>. QED
    BY <1>1
<1>3. /\ n \in Nat /\ m \in Nat /\ m > 0
      /\ DOMAIN ranges = 1..n /\ DOMAIN todo = 1..m /\ DOMAIN todo' = 1..n + m - 1
      /\ \A p \in 1..n + m - 1 : todo'[p] = IF p <= n THEN ranges[p] ELSE todo[p - n + 1]
  <2>. HIDE DEF R
  <2>1. /\ n \in Nat /\ m \in Nat /\ m > 0 /\ DOMAIN ranges = 1..n /\ DOMAIN todo = 1..m
    BY <1>1
  <2>2. Tail(todo) \in Seq(R) /\ Len(Tail(todo)) = m - 1
        /\ \A p \in 1..m - 1 : Tail(todo)[p] = todo[p + 1]
    BY <1>1
  <2>3. DOMAIN todo' = 1..n + m - 1
    BY <1>1, <2>1, <2>2
  <2>4. ASSUME NEW p \in 1..n + m - 1
        PROVE  todo'[p] = IF p <= n THEN ranges[p] ELSE todo[p - n + 1]
    <3>1. CASE p <= n
      BY <1>1, <2>1, <2>2, <2>4, <3>1
    <3>2. CASE ~(p <= n)
      <4>1. p - n \in 1..m - 1
        BY <2>1, <2>4, <3>2
      <4>2. todo'[p] = Tail(todo)[p - n]
        BY <1>1, <2>1, <2>2, <2>4, <3>2, <4>1
      <4>. QED
        BY <2>1, <2>2, <3>2, <4>1, <4>2
    <3>. QED
      BY <3>1, <3>2
  <2>. QED
    BY <2>1, <2>3, <2>4
<1>4. Head(todo) = todo[1]
  BY QuickHead
<1>5. ASSUME NEW p \in 1..n + m - 1
      PROVE  \/ p \in 1..n /\ p \in DOMAIN ranges /\ todo'[p] = ranges[p]
             \/ p - n + 1 \in 2..m /\ p - n + 1 \in DOMAIN todo /\ todo'[p] = todo[p - n + 1]
  <2>. HIDE DEF R, n, m
  <2>. QED
    BY <1>3, <1>5
<1>6. /\ \A p \in DOMAIN todo : todo[p].begin < todo[p].end
      /\ \A p, q \in DOMAIN todo :
           p # q => todo[p].end < todo[q].begin \/ todo[q].end < todo[p].begin
  BY <1>1 DEF QS!RangesApart
<1>7. ASSUME NEW p \in 1..n + m - 1 PROVE todo'[p].begin < todo'[p].end
  BY <1>5, <1>6
<1>8. ASSUME NEW p \in DOMAIN ranges, NEW q \in DOMAIN todo, q # 1
      PROVE  ranges[p].end < todo[q].begin \/ todo[q].end < ranges[p].begin
  <2>0. 1 \in DOMAIN todo
    BY QuickHead
  <2>1. todo[q].end < todo[1].begin \/ todo[1].end < todo[q].begin
    BY ONLY <1>6, <1>8, <2>0
  <2>2. /\ ranges[p].begin \in 0..Length - 1 /\ ranges[p].end \in 0..Length - 1
    <3>1. ranges[p] \in R
      <4>. HIDE DEF R
      <4>. QED
        BY <1>1
    <3>. QED
      BY <3>1
  <2>3. /\ todo[q].begin \in Nat /\ todo[q].end \in Nat
        /\ todo[1].begin \in Nat /\ todo[1].end \in Nat /\ Length \in Nat
    <3>1. 1 \in DOMAIN todo
      BY QuickHead
    <3>. QED
      BY <1>1, <3>1, QuickRanges
  <2>4. todo[1].begin <= ranges[p].begin /\ ranges[p].end <= todo[1].end
    BY <1>4
  <2>5. ranges[p].begin \in Int /\ ranges[p].end \in Int
    BY <2>2
  <2> DEFINE rb == ranges[p].begin  re == ranges[p].end  qb == todo[q].begin
             qe == todo[q].end  hb == todo[1].begin  he == todo[1].end
  <2>6. /\ rb \in Int /\ re \in Int /\ qb \in Nat /\ qe \in Nat /\ hb \in Nat /\ he \in Nat
        /\ qe < hb \/ he < qb
        /\ hb <= rb /\ re <= he
    BY ONLY <2>1, <2>3, <2>4, <2>5
  <2>. HIDE DEF rb, re, qb, qe, hb, he
  <2>7. re < qb \/ qe < rb
    BY ONLY <2>6
  <2>. QED
    BY <2>7 DEF rb, re, qb, qe
<1>9. ASSUME NEW p \in 1..n + m - 1, NEW q \in 1..n + m - 1, p # q
      PROVE  todo'[p].end < todo'[q].begin \/ todo'[q].end < todo'[p].begin
  <2>. HIDE DEF R, n, m
  <2>1. n \in Nat /\ m \in Nat /\ DOMAIN ranges = 1..n /\ DOMAIN todo = 1..m
    BY <1>3
  <2>2. CASE p \in 1..n /\ q \in 1..n
    <3>1. todo'[p] = ranges[p] /\ todo'[q] = ranges[q]
      <4>1. p <= n /\ q <= n
        BY <2>1, <2>2
      <4>. QED
        BY <1>3, <1>9, <4>1
    <3>. QED
      BY <1>9, <2>1, <2>2, <3>1
  <2>3. CASE p \in 1..n /\ q \notin 1..n
    <3>1. /\ todo'[p] = ranges[p] /\ todo'[q] = todo[q - n + 1]
          /\ q - n + 1 \in DOMAIN todo /\ q - n + 1 # 1 /\ p \in DOMAIN ranges
      BY <1>3, <1>9, <2>3
    <3>. QED
      BY <1>8, <3>1
  <2>4. CASE p \notin 1..n /\ q \in 1..n
    <3>1. /\ todo'[q] = ranges[q] /\ todo'[p] = todo[p - n + 1]
          /\ p - n + 1 \in DOMAIN todo /\ p - n + 1 # 1 /\ q \in DOMAIN ranges
      BY <1>3, <1>9, <2>4
    <3>. QED
      BY <1>8, <3>1
  <2>5. CASE p \notin 1..n /\ q \notin 1..n
    <3>1. /\ todo'[p] = todo[p - n + 1] /\ todo'[q] = todo[q - n + 1]
          /\ p - n + 1 \in DOMAIN todo /\ q - n + 1 \in DOMAIN todo
          /\ p - n + 1 # q - n + 1
      BY <1>3, <1>9, <2>5
    <3>. QED
      BY <1>6, <3>1
  <2>. QED
    BY <2>2, <2>3, <2>4, <2>5
<1>10. QS!RangesApart'
  <2>1. todo' \in Seq([begin : 0..Length - 1, end : 0..Length - 1])
    BY <1>2
  <2>. HIDE DEF n, m
  <2>. QED
    BY <1>3, <1>7, <1>9, <2>1 DEF QS!RangesApart
<1>11. \A p \in DOMAIN ranges : p \in DOMAIN todo' /\ todo'[p] = ranges[p]
  <2>. HIDE DEF R, n, m
  <2>. QED
    BY <1>3
<1>12. \A p \in DOMAIN todo : p # 1 => p + n - 1 \in DOMAIN todo' /\ todo'[p + n - 1] = todo[p]
  <2>. HIDE DEF R, n, m
  <2>. SUFFICES ASSUME NEW p \in 1..m, p # 1
                PROVE  p + n - 1 \in DOMAIN todo' /\ todo'[p + n - 1] = todo[p]
    BY <1>3
  <2>0. n \in Nat /\ m \in Nat /\ p # 1 /\ p \in 1..m
    BY <1>3
  <2>1. p + n - 1 \in 1..n + m - 1 /\ ~(p + n - 1 <= n) /\ (p + n - 1) - n + 1 = p
    BY ONLY <2>0
  <2>. QED
    BY <1>3, <2>1
<1>. QED
  BY <1>10, <1>11, <1>12

\* The ranges of the two calls, and what is needed of them.
Halves(b, mid, e) == QS!Sort(b, mid) \o QS!Sort(mid + 1, e)

AreHalves(ranges, b, mid, e) ==
  /\ ranges \in Seq([begin : 0..Length - 1, end : 0..Length - 1])
  /\ \A p \in DOMAIN ranges :
       ranges[p].begin < ranges[p].end /\ b <= ranges[p].begin /\ ranges[p].end <= e
  /\ \A p, q \in DOMAIN ranges :
       p # q => ranges[p].end < ranges[q].begin \/ ranges[q].end < ranges[p].begin
  /\ b < mid => \E p \in DOMAIN ranges : ranges[p] = [begin |-> b, end |-> mid]
  /\ mid + 1 < e => \E p \in DOMAIN ranges : ranges[p] = [begin |-> mid + 1, end |-> e]

LEMMA TwoCalls ==
  ASSUME NEW b \in Nat, NEW mid \in Nat, NEW e \in Nat, b <= mid, mid <= e, e < Length
  PROVE  AreHalves(Halves(b, mid, e), b, mid, e)
<1> DEFINE R == [begin : 0..Length - 1, end : 0..Length - 1]
           x == [begin |-> b, end |-> mid]
           y == [begin |-> mid + 1, end |-> e]
           ranges == Halves(b, mid, e)
           Good ==
             /\ ranges \in Seq(R)
             /\ \A p \in DOMAIN ranges :
                  ranges[p].begin < ranges[p].end /\ b <= ranges[p].begin /\ ranges[p].end <= e
             /\ \A p, q \in DOMAIN ranges :
                  p # q => ranges[p].end < ranges[q].begin \/ ranges[q].end < ranges[p].begin
             /\ b < mid => \E p \in DOMAIN ranges : ranges[p] = x
             /\ mid + 1 < e => \E p \in DOMAIN ranges : ranges[p] = y
<1>1. Length \in Nat
  BY SortedThings
<1>2. x \in R /\ (mid + 1 < e => y \in R)
  BY <1>1
<1>3. x.begin = b /\ x.end = mid /\ y.begin = mid + 1 /\ y.end = e
  OBVIOUS
<1>4. ranges = (IF b < mid THEN <<x>> ELSE <<>>) \o (IF mid + 1 < e THEN <<y>> ELSE <<>>)
  BY DEF Halves, QS!Sort
<1>. HIDE DEF R, x, y, ranges
<1>5. ASSUME b < mid /\ mid + 1 < e PROVE Good
  <2>1. DOMAIN ranges = 1..2 /\ ranges[1] = x /\ ranges[2] = y /\ ranges \in Seq(R)
    BY <1>2, <1>4, <1>5
  <2>. QED
    BY <1>3, <1>5, <2>1
<1>6. ASSUME b < mid /\ ~(mid + 1 < e) PROVE Good
  <2>1. DOMAIN ranges = 1..1 /\ ranges[1] = x /\ ranges \in Seq(R)
    BY <1>2, <1>4, <1>6
  <2>. QED
    BY <1>3, <1>6, <2>1
<1>7. ASSUME ~(b < mid) /\ mid + 1 < e PROVE Good
  <2>1. DOMAIN ranges = 1..1 /\ ranges[1] = y /\ ranges \in Seq(R)
    BY <1>2, <1>4, <1>7
  <2>. QED
    BY <1>3, <1>7, <2>1
<1>8. ASSUME ~(b < mid) /\ ~(mid + 1 < e) PROVE Good
  <2>1. ranges = <<>> /\ ranges \in Seq(R) /\ DOMAIN ranges = {}
    BY <1>4, <1>8
  <2>. QED
    BY <1>8, <2>1
<1>9. Good
  BY <1>5, <1>6, <1>7, <1>8
<1>. QED
  BY <1>9 DEF AreHalves, R, x, y, ranges

LEMMA QuickDivides == QS!IInv /\ QS!Divide => QS!IInv'
<1>. SUFFICES ASSUME QS!IInv, QS!Divide PROVE QS!IInv'
  OBVIOUS
<1> DEFINE mid == cursor.left
           first == Head(todo).begin
           last == Head(todo).end
           ranges == Halves(first, mid, last)
<1>1. /\ cursor # <<>> /\ cursor.right = last /\ input' = input
      /\ array' = Swapped(array, last, mid)
      /\ todo' = QS!Sort(first, mid) \o QS!Sort(mid + 1, last) \o Tail(todo)
      /\ cursor' = <<>>
  BY QuickHelpers DEF QS!Divide
<1>2. /\ todo # <<>> /\ mid \in Nat /\ first <= mid /\ mid <= last
      /\ \A s \in first..mid - 1 : array[s] <= array[last]
      /\ \A s \in mid..last - 1 : array[s] > array[last]
  BY <1>1, QuickParted
<1>3. /\ first \in Nat /\ last \in Nat /\ last < Length /\ Length \in Nat
      /\ array \in [0..Length - 1 -> Int] /\ 1 \in DOMAIN todo
      /\ todo[1].begin = first /\ todo[1].end = last
  BY <1>2, QuickHead
<1>4. todo' = ranges \o Tail(todo)
  BY <1>1 DEF Halves
<1>5. /\ ranges \in Seq([begin : 0..Length - 1, end : 0..Length - 1])
      /\ \A p \in DOMAIN ranges :
           ranges[p].begin < ranges[p].end /\ first <= ranges[p].begin /\ ranges[p].end <= last
      /\ \A p, q \in DOMAIN ranges :
           p # q => ranges[p].end < ranges[q].begin \/ ranges[q].end < ranges[p].begin
      /\ first < mid => \E p \in DOMAIN ranges : ranges[p] = [begin |-> first, end |-> mid]
      /\ mid + 1 < last => \E p \in DOMAIN ranges : ranges[p] = [begin |-> mid + 1, end |-> last]
  <2>. HIDE DEF mid, first, last
  <2>1. AreHalves(ranges, first, mid, last)
    BY <1>2, <1>3, TwoCalls
  <2>. QED
    BY <2>1 DEF AreHalves
<1>6. /\ QS!RangesApart'
      /\ \A p \in DOMAIN ranges : \E q \in DOMAIN todo' : todo'[q] = ranges[p]
      /\ \A p \in DOMAIN todo : p # 1 => \E q \in DOMAIN todo' : todo'[q] = todo[p]
  <2>. HIDE DEF ranges
  <2>. QED
    BY <1>2, <1>4, <1>5, RangesDivided
<1>. HIDE DEF ranges
<1>7. mid \in first..last /\ last \in first..last /\ mid \in 0..Length - 1 /\ last \in 0..Length - 1
  <2>. HIDE DEF mid, first, last
  <2>. QED
    BY <1>2, <1>3
<1>8. /\ array' \in [0..Length - 1 -> Element] /\ Rearranged(array', input, Length)
      /\ \A s \in 0..Length - 1 :
           array'[s] = IF s = last THEN array[mid] ELSE IF s = mid THEN array[last] ELSE array[s]
      /\ \A k, l \in 0..Length - 1 :
           k < l => array'[k] <= array'[l]
                    \/ \E q \in DOMAIN todo : todo[q].begin <= k /\ l <= todo[q].end
  BY <1>1, <1>2, <1>7, SwapInRange
<1>. HIDE DEF mid, first, last
<1>9. ASSUME NEW k \in first..mid, NEW l \in mid + 1..last PROVE array'[k] <= array'[l]
  <2>1. k \in 0..Length - 1 /\ l \in 0..Length - 1 /\ l # mid /\ mid < last /\ k # last
    BY <1>2, <1>3, <1>7
  <2>2. array'[k] <= array[last]
    <3>1. k = mid \/ k \in first..mid - 1
      BY <1>2, <1>3
    <3>. QED
      BY <1>2, <1>3, <1>7, <1>8, <2>1, <3>1
  <2>3. array'[l] > array[last]
    <3>1. mid \in mid..last - 1 /\ (l = last \/ l \in mid..last - 1)
      BY <1>2, <1>3, <2>1
    <3>. QED
      BY <1>2, <1>8, <2>1, <3>1
  <2>4. array'[k] \in Int /\ array'[l] \in Int /\ array[last] \in Int
    BY <1>3, <1>7, <1>8, <2>1
  <2>. QED
    BY <2>2, <2>3, <2>4
<1>10. QS!OrderedApart'
  <2>. SUFFICES ASSUME NEW k \in 0..Length - 1, NEW l \in 0..Length - 1, k < l,
                       ~(array'[k] <= array'[l])
                PROVE  \E p \in DOMAIN todo' : {k, l} \subseteq todo'[p].begin..todo'[p].end
    BY DEF QS!OrderedApart, QS!Span
  <2>1. PICK q \in DOMAIN todo : todo[q].begin <= k /\ l <= todo[q].end
    BY <1>8
  <2>2. CASE q # 1
    <3>1. PICK p \in DOMAIN todo' : todo'[p] = todo[q]
      BY <1>6, <2>2
    <3>2. todo[q].begin \in Nat /\ todo[q].end \in Nat
      BY QuickRanges DEF QS!IInv
    <3>3. k \in todo[q].begin..todo[q].end /\ l \in todo[q].begin..todo[q].end
      BY <1>3, <2>1, <3>2
    <3>. QED
      BY <3>1, <3>3
  <2>3. CASE q = 1 /\ l <= mid
    <3>1. first <= k /\ first < mid
      BY <1>2, <1>3, <2>1, <2>3
    <3>2. PICK p \in DOMAIN todo' : todo'[p] = [begin |-> first, end |-> mid]
      BY <1>5, <1>6, <3>1
    <3>3. k \in first..mid /\ l \in first..mid
      BY <1>2, <1>3, <2>3, <3>1
    <3>. QED
      BY <3>2, <3>3
  <2>4. CASE q = 1 /\ k > mid
    <3>1. l <= last /\ mid + 1 < last
      BY <1>2, <1>3, <2>1, <2>4
    <3>2. PICK p \in DOMAIN todo' : todo'[p] = [begin |-> mid + 1, end |-> last]
      BY <1>5, <1>6, <3>1
    <3>3. k \in mid + 1..last /\ l \in mid + 1..last
      BY <1>2, <1>3, <2>4, <3>1
    <3>. QED
      BY <3>2, <3>3
  <2>5. CASE q = 1 /\ k <= mid /\ mid < l
    <3>1. k \in first..mid /\ l \in mid + 1..last
      BY <1>2, <1>3, <2>1, <2>5
    <3>. QED
      BY <1>9, <3>1
  <2>. QED
    BY <1>2, <2>2, <2>3, <2>4, <2>5
<1>11. QS!Parted'
  BY <1>1 DEF QS!Parted
<1>. QED
  BY <1>1, <1>6, <1>8, <1>10, <1>11, QuickHelpers DEF QS!IInv

LEMMA QuickIInvSuffices == QS!IInv => QS!TypeOK /\ QS!Sorts
<1>. SUFFICES ASSUME QS!IInv PROVE QS!TypeOK /\ QS!Sorts
  OBVIOUS
<1>1. ASSUME cursor # <<>>
      PROVE  /\ cursor.left \in Head(todo).begin..cursor.right
             /\ cursor.right \in Head(todo).begin..Head(todo).end
  BY <1>1 DEF QS!IInv, QS!Parted, QS!Span
<1>2. todo = <<>> => QS!InOrder(array, Length)
  <2>1. todo = <<>> => DOMAIN todo = {}
    OBVIOUS
  <2>. QED
    BY <2>1 DEF QS!IInv, QS!OrderedApart, QS!InOrder
<1>. QED
  BY <1>1, <1>2 DEF QS!IInv, QS!TypeOK, QS!Sorts

\* While quick-sort runs, each step is one of it.
LEMMA QuickSortAlone ==
  [ProgramsNext]_vars =>
    /\ UNCHANGED program
    /\ program = "quick-sort" => QS!Next \/ UNCHANGED <<input, array, todo, cursor>>
<1>1. ASSUME ProgramsNext
      PROVE  UNCHANGED program /\ (program = "quick-sort" => QS!Next)
  BY <1>1 DEF ProgramsNext, QueueStep, HeapSortStep, MergeSortStep, QuickSortStep,
              QsortStep, CutRodStep, UthashStep, ScsiStep, RetStep
<1>2. ASSUME UNCHANGED vars
      PROVE  UNCHANGED <<program, input, array, todo, cursor>>
  BY <1>2 DEF vars, algorithms, arrays
<1>. QED
  BY <1>1, <1>2

(* quick-sort.c sorts an array of any length of any ints, whatever rand()  *)
(* gives, and partition stays within the range it was called for.          *)
THEOREM QuickSortSorts ==
  ProgramsSpec => [](program = "quick-sort" => QS!TypeOK /\ QS!Sorts)
<1> DEFINE Inv == program = "quick-sort" => QS!IInv
<1>1. ProgramsInit => Inv
  <2>1. ProgramsInit /\ program = "quick-sort" => QS!Init
    BY DEF ProgramsInit, RunsAlgorithm, RunsProbe, RunsQueue, RunsHeapSort, RunsMergeSort,
           RunsQuickSort, RunsQsort, RunsCutRod, RunsUthash
  <2>. QED
    BY <2>1, QuickInit
<1>2. Inv /\ [ProgramsNext]_vars => Inv'
  <2>. SUFFICES ASSUME program' = "quick-sort", Inv, [ProgramsNext]_vars PROVE QS!IInv'
    OBVIOUS
  <2>1. QS!IInv /\ (QS!Next \/ UNCHANGED <<input, array, todo, cursor>>)
    BY QuickSortAlone
  <2>2. CASE QS!Next
    BY <2>1, <2>2, QuickPicks, QuickCompares, QuickDivides DEF QS!Next
  <2>3. CASE UNCHANGED <<input, array, todo, cursor>>
    BY <2>1, <2>3 DEF QS!IInv, QS!RangesApart, QS!OrderedApart, QS!Parted
  <2>. QED
    BY <2>1, <2>2, <2>3
<1>3. Inv => (program = "quick-sort" => QS!TypeOK /\ QS!Sorts)
  BY QuickIInvSuffices
<1>. QED
  BY <1>1, <1>2, <1>3, PTL DEF ProgramsSpec

(***************************************************************************)
(* merge-sort.c. MS!IInv is the inductive invariant. MS!Whole is the array *)
(* with what merge has still to take put back, behind what it has taken:   *)
(* a step leaves it alone, or takes the next of r_array to the front of    *)
(* what is left of l_array.                                                *)
(***************************************************************************)

LEMMA MergeHelpers == \A a, b, n : MS!Rearranged(a, b, n) <=> Rearranged(a, b, n)
<1>1. \A S : MS!Cardinality(S) = Cardinality(S)
  BY Zenon DEF MS!Cardinality, Cardinality
<1>. QED
  BY <1>1 DEF MS!Rearranged, Rearranged, MS!Count, Count

LEMMA MergeConstants ==
  /\ Length \in Nat /\ Element \subseteq Int
  /\ MS!INT_MAX \in Element /\ MS!INT_MAX \in Int
  /\ \A e \in Element : e \in Int /\ e <= MS!INT_MAX
BY ProgramsAssumption DEF ProgramsAssumption, MS!MergeSortAssumption

LEMMA MergeRanges ==
  ASSUME MS!Nested
  PROVE  /\ Length \in Nat /\ Len(todo) \in Nat /\ DOMAIN todo = 1..Len(todo)
         /\ \A p \in DOMAIN todo :
              /\ todo[p].op \in {"sort", "merge"}
              /\ todo[p].start \in 0..Length - 1 /\ todo[p].end \in 0..Length - 1
              /\ todo[p].start \in Nat /\ todo[p].end \in Nat
              /\ todo[p].start < todo[p].end
              /\ MS!Mid(todo[p]) \in Nat
              /\ todo[p].start <= MS!Mid(todo[p]) /\ MS!Mid(todo[p]) < todo[p].end
<1> DEFINE R == [op : {"sort", "merge"}, start : 0..Length - 1, end : 0..Length - 1]
<1>1. Length \in Nat
  BY MergeConstants
<1>2. todo \in Seq(R) /\ \A p \in DOMAIN todo : todo[p].start < todo[p].end
  BY DEF MS!Nested
<1>. HIDE DEF R
<1>3. /\ Len(todo) \in Nat /\ DOMAIN todo = 1..Len(todo)
      /\ \A p \in DOMAIN todo : todo[p] \in R
  BY <1>2
<1>4. ASSUME NEW p \in DOMAIN todo
      PROVE  /\ todo[p].op \in {"sort", "merge"}
             /\ todo[p].start \in 0..Length - 1 /\ todo[p].end \in 0..Length - 1
             /\ todo[p].start \in Nat /\ todo[p].end \in Nat
             /\ todo[p].start < todo[p].end
  BY <1>1, <1>2, <1>3 DEF R
<1>5. ASSUME NEW a \in Nat, NEW b \in Nat, a < b
      PROVE  (a + b) \div 2 \in Nat /\ a <= (a + b) \div 2 /\ (a + b) \div 2 < b
  BY <1>5
<1>. QED
  BY <1>1, <1>3, <1>4, <1>5 DEF MS!Mid

\* The call that is next.
LEMMA MergeHead ==
  ASSUME MS!Nested, todo # <<>>
  PROVE  /\ Head(todo) = todo[1] /\ 1 \in DOMAIN todo
         /\ Head(todo).start \in 0..Length - 1 /\ Head(todo).end \in 0..Length - 1
         /\ Head(todo).start \in Nat /\ Head(todo).end \in Nat
         /\ MS!Mid(Head(todo)) \in Nat
         /\ Head(todo).start <= MS!Mid(Head(todo)) /\ MS!Mid(Head(todo)) < Head(todo).end
<1>1. todo \in Seq([op : {"sort", "merge"}, start : 0..Length - 1, end : 0..Length - 1])
  BY DEF MS!Nested
<1>2. Len(todo) # 0 /\ Head(todo) = todo[1]
  BY <1>1
<1>3. 1 \in DOMAIN todo
  BY <1>2, MergeRanges
<1>. QED
  BY <1>2, <1>3, MergeRanges

\* A merge under way.
LEMMA Merging ==
  ASSUME MS!IInv, copies # <<>>
  PROVE  LET first == Head(todo).start
             last == Head(todo).end
             mid == MS!Mid(Head(todo))
         IN
         /\ todo # <<>> /\ Head(todo).op = "merge"
         /\ copies.left \in [0..mid - first + 1 -> Element]
         /\ copies.left[mid - first + 1] = MS!INT_MAX
         /\ copies.right \in [0..last - mid -> Element]
         /\ copies.right[last - mid] = MS!INT_MAX
         /\ next = [i |-> next.i, j |-> next.j, k |-> next.k]
         /\ next.k \in first..last + 1 /\ next.j \in 0..last - mid
         /\ next.i = next.k - first - next.j
         /\ next.k \in Nat /\ next.j \in Nat /\ next.i \in Nat
         /\ first \in Nat /\ last \in Nat /\ mid \in Nat /\ first <= mid /\ mid < last
         /\ last \in 0..Length - 1 /\ Length \in Nat
<1> DEFINE first == Head(todo).start
           last == Head(todo).end
           mid == MS!Mid(Head(todo))
<1>1. /\ MS!Call("merge")
      /\ copies.left \in [0..mid - first + 1 -> Element]
      /\ copies.left[mid - first + 1] = MS!INT_MAX
      /\ copies.right \in [0..last - mid -> Element]
      /\ copies.right[last - mid] = MS!INT_MAX
      /\ next \in [i : Nat, j : 0..last - mid, k : first..last + 1]
      /\ next.i = next.k - first - next.j
  BY DEF MS!IInv, MS!Copied
<1>2. todo # <<>> /\ Head(todo).op = "merge"
  BY <1>1 DEF MS!Call
<1>3. /\ first \in Nat /\ last \in Nat /\ mid \in Nat /\ first <= mid /\ mid < last
      /\ last \in 0..Length - 1 /\ Length \in Nat
  BY <1>2, MergeHead, MergeConstants DEF MS!IInv
<1>4. /\ next = [i |-> next.i, j |-> next.j, k |-> next.k]
      /\ next.i \in Nat /\ next.k \in first..last + 1 /\ next.j \in 0..last - mid
  <2>1. next \in [i : Nat, j : 0..last - mid, k : first..last + 1]
    BY <1>1
  <2>. HIDE DEF first, last, mid
  <2>. QED
    BY <2>1
<1>5. next.k \in Nat /\ next.j \in Nat
  <2>. HIDE DEF first, last, mid
  <2>. QED
    BY <1>3, <1>4
<1>. QED
  BY <1>1, <1>2, <1>3, <1>4, <1>5

\* What is in the array with what is still to be merged.
LEMMA WholeArray ==
  ASSUME MS!IInv, copies # <<>>
  PROVE  LET first == Head(todo).start
             last == Head(todo).end
             mid == MS!Mid(Head(todo))
             middle == mid + 1 + next.j
         IN
         \A s \in 0..Length - 1 :
           MS!Whole[s] = IF s \in next.k..middle - 1 THEN copies.left[s - first - next.j]
                         ELSE IF s \in middle..last THEN copies.right[s - mid - 1]
                         ELSE array[s]
BY DEF MS!Whole

LEMMA WholeType == MS!IInv => MS!Whole \in [0..Length - 1 -> Element]
<1>. SUFFICES ASSUME MS!IInv PROVE MS!Whole \in [0..Length - 1 -> Element]
  OBVIOUS
<1>1. CASE copies = <<>>
  BY <1>1 DEF MS!IInv, MS!Whole
<1>2. CASE copies # <<>>
  <2> DEFINE first == Head(todo).start
             last == Head(todo).end
             mid == MS!Mid(Head(todo))
             middle == mid + 1 + next.j
             V(s) == IF s \in next.k..middle - 1 THEN copies.left[s - first - next.j]
                     ELSE IF s \in middle..last THEN copies.right[s - mid - 1]
                     ELSE array[s]
  <2>1. /\ copies.left \in [0..mid - first + 1 -> Element]
        /\ copies.right \in [0..last - mid -> Element]
        /\ next.k \in Nat /\ next.j \in Nat /\ next.i \in Nat
        /\ next.i = next.k - first - next.j
        /\ first \in Nat /\ last \in Nat /\ mid \in Nat
    BY <1>2, Merging
  <2>2. array \in [0..Length - 1 -> Element]
    BY DEF MS!IInv
  <2>3. MS!Whole = [s \in 0..Length - 1 |-> V(s)]
    BY <1>2 DEF MS!Whole
  <2>4. ASSUME NEW s \in 0..Length - 1 PROVE V(s) \in Element
    <3>. HIDE DEF first, last, mid
    <3>1. /\ s \in Int /\ next.k \in Nat /\ next.j \in Nat /\ next.i \in Nat
          /\ next.i = next.k - first - next.j
          /\ first \in Nat /\ last \in Nat /\ mid \in Nat
      BY <2>1, MergeConstants
    <3>2. s \in next.k..middle - 1 => s - first - next.j \in 0..mid - first + 1
      BY ONLY <3>1
    <3>3. s \in middle..last => s - mid - 1 \in 0..last - mid
      BY ONLY <3>1
    <3>. QED
      BY <2>1, <2>2, <3>2, <3>3
  <2>. HIDE DEF V
  <2>. QED
    BY <2>3, <2>4
<1>. QED
  BY <1>1, <1>2

\* A set of fewer than two has not two.
LEMMA FewerThanTwo ==
  ASSUME MS!FewInfinities
  PROVE  \A s, t \in 0..Length - 1 :
           input[s] = MS!INT_MAX /\ input[t] = MS!INT_MAX => s = t
<1> DEFINE S == {s \in 0..Length - 1 : input[s] = MS!INT_MAX}
<1>1. Cardinality(S) < 2
  <2>1. MS!Cardinality(S) = Cardinality(S)
    BY Zenon DEF MS!Cardinality, Cardinality
  <2>. QED
    BY <2>1 DEF MS!FewInfinities
<1>2. IsFiniteSet(S)
  <2>1. IsFiniteSet(0..Length - 1)
    BY MergeConstants, FS_Interval
  <2>2. S \subseteq 0..Length - 1
    OBVIOUS
  <2>. HIDE DEF S
  <2>. QED
    BY <2>1, <2>2, FS_Subset
<1>3. ASSUME NEW s \in 0..Length - 1, NEW t \in 0..Length - 1, input[s] = MS!INT_MAX, input[t] = MS!INT_MAX, s # t PROVE FALSE
  <2>1. s \in S /\ t \in S
    BY <1>3
  <2>. HIDE DEF S
  <2>2. {s} \subseteq S /\ {s} \cup {t} \subseteq S /\ t \notin {s}
    BY <1>3, <2>1
  <2>3. IsFiniteSet({s}) /\ Cardinality({s}) = 1
    BY FS_Singleton
  <2>4. Cardinality({s} \cup {t}) = Cardinality({s}) + 1
    BY <2>2, <2>3, FS_AddElement
  <2>5. Cardinality({s} \cup {t}) <= Cardinality(S)
    BY <1>2, <2>2, FS_Subset
  <2>6. Cardinality(S) \in Nat
    BY <1>2, FS_CardinalityType
  <2>. QED
    BY <1>1, <2>3, <2>4, <2>5, <2>6
<1>. QED
  BY <1>3

LEMMA MergeInit == MS!Init => MS!IInv
<1>. SUFFICES ASSUME MS!Init PROVE MS!IInv
  OBVIOUS
<1> DEFINE x == [op |-> "sort", start |-> 0, end |-> Length - 1]
           R == [op : {"sort", "merge"}, start : 0..Length - 1, end : 0..Length - 1]
<1>1. /\ array \in [0..Length - 1 -> Element] /\ array = input /\ copies = <<>>
      /\ todo = IF 0 < Length - 1 THEN <<x>> ELSE <<>>
      /\ Length \in Nat
  BY MergeConstants DEF MS!Init, MS!Sort, MS!Off
<1>2. MS!Whole = array
  BY <1>1 DEF MS!Whole
<1>3. Rearranged(MS!Whole, input, Length)
  BY <1>1, <1>2 DEF Rearranged
<1>4. MS!Copied /\ MS!MergedSoFar
  BY <1>1 DEF MS!Copied, MS!MergedSoFar
<1>5. MS!FewInfinities => MS!OneInfinity
  BY <1>1, <1>2, FewerThanTwo DEF MS!OneInfinity
<1>6. MS!Nested /\ MS!OrderedSoFar
  <2>1. CASE 0 < Length - 1
    <3>1. x \in R /\ x.op = "sort" /\ x.start = 0 /\ x.end = Length - 1
      BY <1>1, <2>1
    <3>. HIDE DEF x, R
    <3>2. todo \in Seq(R) /\ Len(todo) = 1 /\ DOMAIN todo = {1} /\ todo[1] = x
      BY <1>1, <2>1, <3>1
    <3>3. MS!Nested
      BY <2>1, <3>1, <3>2 DEF MS!Nested, R
    <3>4. "sort" # "merge"
      OBVIOUS
    <3>5. MS!OrderedSoFar
      <4>. SUFFICES ASSUME NEW p \in 1..2, NEW k \in 0..Length - 1, NEW l \in 0..Length - 1,
                           p \in DOMAIN todo => todo[p].op = "merge"
                    PROVE  \E q \in 1..p - 1 : MS!Covers(todo[q], k, l)
        BY <3>2 DEF MS!OrderedSoFar
      <4>1. p # 1
        BY <3>1, <3>2, <3>4
      <4>2. p = 2 /\ 1 \in 1..p - 1
        BY <4>1
      <4>3. MS!Covers(todo[1], k, l)
        BY <1>1, <3>1, <3>2 DEF MS!Covers
      <4>. QED
        BY <4>2, <4>3
    <3>. QED
      BY <3>3, <3>5
  <2>2. CASE ~(0 < Length - 1)
    <3>1. todo = <<>> /\ DOMAIN todo = {} /\ todo \in Seq(R)
      BY <1>1, <2>2
    <3>2. MS!Nested
      BY <3>1 DEF MS!Nested
    <3>3. \A k, l \in 0..Length - 1 : ~(k < l)
      BY <1>1, <2>2
    <3>4. MS!OrderedSoFar
      BY <3>3 DEF MS!OrderedSoFar
    <3>. QED
      BY <3>2, <3>4
  <2>. QED
    BY <2>1, <2>2
<1>. QED
  BY <1>1, <1>3, <1>4, <1>5, <1>6, MergeHelpers DEF MS!IInv

LEMMA MergeCopies == MS!IInv /\ MS!Copy => MS!IInv'
<1>. SUFFICES ASSUME MS!IInv, MS!Copy PROVE MS!IInv'
  OBVIOUS
<1> DEFINE first == Head(todo).start
           last == Head(todo).end
           mid == MS!Mid(Head(todo))
           llen == mid - first + 1
           rlen == last - mid
           left == [s \in 0..llen |-> IF s = llen THEN MS!INT_MAX ELSE array[first + s]]
           right == [s \in 0..rlen |-> IF s = rlen THEN MS!INT_MAX ELSE array[mid + s + 1]]
<1>1. /\ MS!Call("merge") /\ copies = <<>> /\ UNCHANGED <<input, array, todo>>
      /\ copies' = [left |-> left, right |-> right]
      /\ next' = [i |-> 0, j |-> 0, k |-> first]
  BY DEF MS!Copy
<1>2. todo # <<>> /\ Head(todo).op = "merge"
  BY <1>1 DEF MS!Call
<1>3. /\ first \in Nat /\ last \in Nat /\ mid \in Nat /\ first <= mid /\ mid < last
      /\ first \in 0..Length - 1 /\ last \in 0..Length - 1 /\ Length \in Nat
      /\ Head(todo) = todo[1] /\ 1 \in DOMAIN todo
  BY <1>2, MergeHead, MergeConstants DEF MS!IInv
<1>4. /\ array \in [0..Length - 1 -> Element] /\ MS!INT_MAX \in Element
  BY MergeConstants DEF MS!IInv
<1>5. MS!Nested'
  BY <1>1 DEF MS!IInv, MS!Nested
<1>6. copies' # <<>> /\ copies'.left = left /\ copies'.right = right
  <2>. HIDE DEF left, right
  <2>1. DOMAIN copies' = {"left", "right"} /\ DOMAIN <<>> = {}
    BY <1>1
  <2>. QED
    BY <1>1, <2>1
<1>7. /\ llen \in Nat /\ rlen \in Nat /\ left \in [0..llen -> Element] /\ left[llen] = MS!INT_MAX
      /\ right \in [0..rlen -> Element] /\ right[rlen] = MS!INT_MAX
      /\ \A s \in first..mid : left[s - first] = array[s]
      /\ \A s \in mid + 1..last : right[s - mid - 1] = array[s]
  <2>. HIDE DEF first, last, mid
  <2>1. llen \in Nat /\ rlen \in Nat
    BY <1>3
  <2>2. /\ \A s \in 0..llen : s # llen => first + s \in 0..Length - 1
        /\ \A s \in 0..rlen : s # rlen => mid + s + 1 \in 0..Length - 1
    BY <1>3
  <2>3. /\ \A s \in first..mid : s - first \in 0..llen /\ s - first # llen
        /\ \A s \in mid + 1..last : s - mid - 1 \in 0..rlen /\ s - mid - 1 # rlen
        /\ \A s \in first..mid : first + (s - first) = s
        /\ \A s \in mid + 1..last : mid + (s - mid - 1) + 1 = s
    BY <1>3
  <2>. HIDE DEF llen, rlen
  <2>4. \A s \in first..mid : left[s - first] = array[s]
    BY <2>1, <2>3
  <2>5. \A s \in mid + 1..last : right[s - mid - 1] = array[s]
    BY <2>1, <2>3
  <2>6. left \in [0..llen -> Element] /\ right \in [0..rlen -> Element]
    BY <1>4, <2>1, <2>2
  <2>. QED
    BY <2>1, <2>4, <2>5, <2>6
<1>. HIDE DEF left, right
<1>8. next'.i = 0 /\ next'.j = 0 /\ next'.k = first
  BY <1>1
<1>9. MS!Copied'
  <2>1. 0 \in 0..rlen /\ first \in first..last + 1 /\ 0 = first - first - 0
    <3>. HIDE DEF first, last
    <3>. QED
      BY <1>3, <1>7
  <2>. QED
    BY <1>1, <1>2, <1>6, <1>7, <1>8, <2>1 DEF MS!Copied, MS!Call
<1>10. MS!Whole' = array
  <2>1. /\ MS!Whole' = [s \in 0..Length - 1 |->
             IF s \in first..(mid + 1 + 0) - 1 THEN left[s - first - 0]
             ELSE IF s \in mid + 1 + 0..last THEN right[s - mid - 1]
             ELSE array[s]]
    BY <1>1, <1>6, <1>8 DEF MS!Whole
  <2>2. \A s \in 0..Length - 1 : MS!Whole'[s] = array[s]
    <3>. HIDE DEF first, last, mid
    <3>1. mid + 1 + 0 = mid + 1 /\ (mid + 1) - 1 = mid /\ \A s \in Int : s - first - 0 = s - first
      BY <1>3
    <3>. QED
      BY <1>3, <1>7, <2>1, <3>1
  <2>. QED
    BY <1>4, <2>1, <2>2
<1>11. MS!Whole = array
  BY <1>1 DEF MS!Whole
<1>12. ASSUME MS!OrderedSoFar PROVE MS!OrderedSoFar' /\ MS!MergedSoFar'
  <2>1. MS!OrderedSoFar'
    BY <1>1, <1>10, <1>11, <1>12 DEF MS!OrderedSoFar
  <2>2. ASSUME NEW s \in first..last, NEW t \in first..last, s < t,
               ~(s < mid + 1 /\ mid + 1 <= t)
        PROVE  array[s] <= array[t]
    <3>1. s \in 0..Length - 1 /\ t \in 0..Length - 1
      <4>. HIDE DEF first, last, mid
      <4>. QED
        BY <1>3
    <3>2. MS!InOneHalf(todo[1], s, t)
      <4>1. Head(todo) = todo[1]
        BY <1>3
      <4>2. first <= s /\ t <= last /\ (t <= mid \/ mid < s)
        <5>. HIDE DEF first, last, mid
        <5>. QED
          BY <1>3, <2>2
      <4>. QED
        BY <4>1, <4>2 DEF MS!InOneHalf, MS!Covers
    <3>3. 1 \in 1..Len(todo) + 1 /\ ~(\E q \in 1..1 - 1 : MS!Covers(todo[q], s, t))
      BY <1>3, MergeRanges DEF MS!IInv
    <3>. QED
      BY <1>1, <1>2, <1>3, <1>11, <1>12, <2>2, <3>1, <3>2, <3>3 DEF MS!OrderedSoFar
  <2>3. MS!MergedSoFar'
    <3>1. \A s \in first..first - 1 : FALSE
      BY <1>3
    <3>2. first <= mid + 1 + 0 /\ mid + 1 + 0 = mid + 1
      BY <1>3
    <3>3. \A s, t \in first..last : s < t => array[s] <= array[t] \/ (first <= s /\ s < mid + 1 /\ mid + 1 <= t)
      <4>. HIDE DEF first, last, mid
      <4>. QED
        BY <1>3, <2>2
    <3>. QED
      BY <1>1, <1>8, <1>10, <3>1, <3>2, <3>3 DEF MS!MergedSoFar
  <2>. QED
    BY <2>1, <2>3
<1>13. ASSUME MS!OneInfinity PROVE MS!OneInfinity'
  BY <1>10, <1>11, <1>13 DEF MS!OneInfinity
<1>. QED
  BY <1>1, <1>4, <1>5, <1>9, <1>10, <1>11, <1>12, <1>13, MergeHelpers
     DEF MS!IInv, MS!FewInfinities

\* Moving elements within the range of the first call leaves the others in
\* order with them.
LEMMA MergeMoves ==
  ASSUME MS!Nested, MS!OrderedSoFar, todo # <<>>, UNCHANGED todo, copies' # <<>>,
         \A s \in 0..Length - 1 :
           ~(todo[1].start <= s /\ s <= todo[1].end) => MS!Whole'[s] = MS!Whole[s],
         \A s \in todo[1].start..todo[1].end :
           \E t \in todo[1].start..todo[1].end : MS!Whole'[s] = MS!Whole[t]
  PROVE  MS!OrderedSoFar'
<1> DEFINE first == todo[1].start
           last == todo[1].end
           Of(p, k, l) == p \in DOMAIN todo => todo[p].op = "merge" /\ MS!InOneHalf(todo[p], k, l)
<1>1. /\ Length \in Nat /\ first \in Nat /\ last \in Nat /\ last < Length /\ first < last
      /\ Len(todo) \in Nat /\ DOMAIN todo = 1..Len(todo) /\ 1 \in DOMAIN todo
  BY MergeHead, MergeRanges, MergeConstants
<1>2. \A q \in DOMAIN todo :
        todo[q].start \in Nat /\ todo[q].end \in Nat /\ MS!Mid(todo[q]) \in Nat
  BY MergeRanges
<1>3. ASSUME NEW q \in DOMAIN todo, q # 1
      PROVE  /\ todo[q].op = "sort" => todo[1].end < todo[q].start \/ todo[q].end < todo[1].start
             /\ todo[q].op # "sort" =>
                  /\ todo[q].start <= first /\ last <= todo[q].end
                  /\ last <= MS!Mid(todo[q]) \/ MS!Mid(todo[q]) < first
  <2>1. 1 < q
    BY <1>1, <1>3
  <2>. QED
    BY <1>1, <2>1 DEF MS!Nested, MS!InOneHalf, MS!Covers
<1>4. ASSUME NEW p \in 2..Len(todo) + 1, NEW k \in 0..Length - 1, NEW l \in 0..Length - 1,
             k < l, Of(p, k, l)
      PROVE  MS!Whole[k] <= MS!Whole[l] \/ \E q \in 1..p - 1 : MS!Covers(todo[q], k, l)
  <2>1. p \in 1..Len(todo) + 1 /\ p # 1
    BY <1>1
  <2>. QED
    BY <1>4, <2>1 DEF MS!OrderedSoFar
<1>. SUFFICES ASSUME NEW p \in 2..Len(todo) + 1, NEW k \in 0..Length - 1,
                     NEW l \in 0..Length - 1, k < l, Of(p, k, l)
              PROVE  MS!Whole'[k] <= MS!Whole'[l] \/ \E q \in 1..p - 1 : MS!Covers(todo[q], k, l)
  <2>1. \A p \in 1..Len(todo) + 1 : p # 1 => p \in 2..Len(todo) + 1
    BY <1>1
  <2>2. ASSUME NEW p \in 1..Len(todo) + 1, p # 1, NEW k \in 0..Length - 1,
               NEW l \in 0..Length - 1, k < l, Of(p, k, l)
        PROVE  MS!Whole'[k] <= MS!Whole'[l] \/ \E q \in 1..p - 1 : MS!Covers(todo[q], k, l)
    BY <2>1, <2>2
  <2>3. todo' = todo /\ copies' # <<>>
    OBVIOUS
  <2>4. \A p \in 1..Len(todo') + 1 : (p = 1 => copies' = <<>>) =>
          \A k, l \in 0..Length - 1 :
            k < l /\ (p \in DOMAIN todo' => todo'[p].op = "merge" /\ MS!InOneHalf(todo'[p], k, l))
            => MS!Whole'[k] <= MS!Whole'[l] \/ \E q \in 1..p - 1 : MS!Covers(todo'[q], k, l)
    BY <2>2, <2>3
  <2>. QED
    BY <2>4 DEF MS!OrderedSoFar, MS!InOneHalf, MS!Covers, MS!Mid
<1>5. 1 \in 1..p - 1 /\ \A q \in 1..p - 1 : q \in DOMAIN todo
  BY <1>1
<1>6. p \in DOMAIN todo =>
        /\ todo[p].start <= first /\ last <= todo[p].end
        /\ last <= MS!Mid(todo[p]) \/ MS!Mid(todo[p]) < first
        /\ todo[p].start <= k /\ l <= todo[p].end
        /\ l <= MS!Mid(todo[p]) \/ MS!Mid(todo[p]) < k
  <2>. SUFFICES ASSUME p \in DOMAIN todo
                PROVE  /\ todo[p].start <= first /\ last <= todo[p].end
                       /\ last <= MS!Mid(todo[p]) \/ MS!Mid(todo[p]) < first
                       /\ todo[p].start <= k /\ l <= todo[p].end
                       /\ l <= MS!Mid(todo[p]) \/ MS!Mid(todo[p]) < k
    OBVIOUS
  <2>1. todo[p].op = "merge" /\ MS!InOneHalf(todo[p], k, l)
    OBVIOUS
  <2>2. todo[p].op # "sort" /\ p # 1
    BY <1>1, <2>1
  <2>. QED
    BY <1>3, <2>1, <2>2 DEF MS!InOneHalf, MS!Covers
<1>. HIDE DEF first, last
<1>7. ASSUME NEW s \in 0..Length - 1, NEW t \in 0..Length - 1, s < t,
             p \in DOMAIN todo =>
               todo[p].start <= s /\ t <= todo[p].end /\ (t <= MS!Mid(todo[p]) \/ MS!Mid(todo[p]) < s)
      PROVE  MS!Whole[s] <= MS!Whole[t]
             \/ \E q \in 1..p - 1 : todo[q].start <= s /\ t <= todo[q].end
  <2>1. Of(p, s, t)
    BY <1>7 DEF MS!InOneHalf, MS!Covers
  <2>. QED
    BY <1>4, <1>7, <2>1 DEF MS!Covers
<1>8. CASE first <= k /\ k <= last /\ first <= l /\ l <= last
  BY <1>5, <1>8 DEF MS!Covers, first, last
<1>9. CASE first <= k /\ k <= last /\ ~(first <= l /\ l <= last)
  <2>1. last < l
    BY <1>1, <1>9
  <2>2. PICK t \in first..last : MS!Whole'[k] = MS!Whole[t]
    <3>1. k \in first..last
      BY <1>1, <1>9
    <3>. QED
      BY <3>1 DEF first, last
  <2>3. MS!Whole'[l] = MS!Whole[l]
    BY <1>9 DEF first, last
  <2>4. t \in 0..Length - 1 /\ t < l /\ t \in Nat /\ first <= t /\ t <= last
    BY <1>1, <2>1
  <2>5. p \in DOMAIN todo =>
          todo[p].start <= t /\ l <= todo[p].end /\ (l <= MS!Mid(todo[p]) \/ MS!Mid(todo[p]) < t)
    <3>. SUFFICES ASSUME p \in DOMAIN todo
                  PROVE  /\ todo[p].start <= t /\ l <= todo[p].end
                         /\ l <= MS!Mid(todo[p]) \/ MS!Mid(todo[p]) < t
      OBVIOUS
    <3>1. todo[p].start \in Nat /\ MS!Mid(todo[p]) \in Nat
      BY <1>2
    <3>. QED
      BY <1>1, <1>6, <1>9, <2>4, <3>1
  <2>6. ASSUME NEW q \in 1..p - 1, todo[q].start <= t, l <= todo[q].end
        PROVE  todo[q].start <= k
    <3>1. q \in DOMAIN todo /\ todo[q].start \in Nat /\ todo[q].end \in Nat
      BY <1>2, <1>5
    <3>2. q # 1
      BY <1>1, <2>1, <2>6, <3>1 DEF first, last
    <3>3. todo[q].op # "sort"
      <4>. SUFFICES ASSUME todo[q].op = "sort" PROVE FALSE
        OBVIOUS
      <4>1. last < todo[q].start \/ todo[q].end < first
        BY <1>3, <3>1, <3>2 DEF first, last
      <4>. QED
        BY <1>1, <2>4, <2>6, <3>1, <4>1
    <3>4. todo[q].start <= first
      BY <1>3, <3>1, <3>2, <3>3 DEF first
    <3>. QED
      BY <1>1, <1>9, <3>1, <3>4
  <2>. QED
    BY <1>7, <2>2, <2>3, <2>4, <2>5, <2>6 DEF MS!Covers
<1>10. CASE ~(first <= k /\ k <= last) /\ first <= l /\ l <= last
  <2>1. k < first
    BY <1>1, <1>10
  <2>2. PICK t \in first..last : MS!Whole'[l] = MS!Whole[t]
    <3>1. l \in first..last
      BY <1>1, <1>10
    <3>. QED
      BY <3>1 DEF first, last
  <2>3. MS!Whole'[k] = MS!Whole[k]
    BY <1>10 DEF first, last
  <2>4. t \in 0..Length - 1 /\ k < t /\ t \in Nat /\ first <= t /\ t <= last
    BY <1>1, <2>1
  <2>5. p \in DOMAIN todo =>
          todo[p].start <= k /\ t <= todo[p].end /\ (t <= MS!Mid(todo[p]) \/ MS!Mid(todo[p]) < k)
    <3>. SUFFICES ASSUME p \in DOMAIN todo
                  PROVE  /\ todo[p].start <= k /\ t <= todo[p].end
                         /\ t <= MS!Mid(todo[p]) \/ MS!Mid(todo[p]) < k
      OBVIOUS
    <3>1. todo[p].end \in Nat /\ MS!Mid(todo[p]) \in Nat
      BY <1>2
    <3>. QED
      BY <1>1, <1>6, <1>10, <2>4, <3>1
  <2>6. ASSUME NEW q \in 1..p - 1, todo[q].start <= k, t <= todo[q].end
        PROVE  l <= todo[q].end
    <3>1. q \in DOMAIN todo /\ todo[q].start \in Nat /\ todo[q].end \in Nat
      BY <1>2, <1>5
    <3>2. q # 1
      BY <1>1, <2>1, <2>6, <3>1 DEF first, last
    <3>3. todo[q].op # "sort"
      <4>. SUFFICES ASSUME todo[q].op = "sort" PROVE FALSE
        OBVIOUS
      <4>1. last < todo[q].start \/ todo[q].end < first
        BY <1>3, <3>1, <3>2 DEF first, last
      <4>. QED
        BY <1>1, <2>1, <2>4, <2>6, <3>1, <4>1
    <3>4. last <= todo[q].end
      BY <1>3, <3>1, <3>2, <3>3 DEF last
    <3>. QED
      BY <1>1, <1>10, <3>1, <3>4
  <2>. QED
    BY <1>7, <2>2, <2>3, <2>4, <2>5, <2>6 DEF MS!Covers
<1>11. CASE ~(first <= k /\ k <= last) /\ ~(first <= l /\ l <= last)
  <2>1. MS!Whole'[k] = MS!Whole[k] /\ MS!Whole'[l] = MS!Whole[l]
    BY <1>11 DEF first, last
  <2>. QED
    BY <1>4, <2>1
<1>. QED
  BY <1>8, <1>9, <1>10, <1>11

\* What a round of merge compares, and what the array becomes.
LEMMA MergeCompares ==
  ASSUME MS!IInv, MS!Take
  PROVE  /\ copies # <<>> /\ next.k <= Head(todo).end /\ UNCHANGED <<input, todo, copies>>
         /\ \E l, r \in Element :
              /\ next.i \in 0..MS!Mid(Head(todo)) - Head(todo).start + 1 => l = copies.left[next.i]
              /\ r = copies.right[next.j]
              /\ \/ /\ l <= r
                    /\ array' = [array EXCEPT ![next.k] = l]
                    /\ next'.i = next.i + 1 /\ next'.j = next.j /\ next'.k = next.k + 1
                 \/ /\ ~(l <= r)
                    /\ array' = [array EXCEPT ![next.k] = r]
                    /\ next'.i = next.i /\ next'.j = next.j + 1 /\ next'.k = next.k + 1
         /\ next' \in [i : Nat, j : Nat, k : Nat]
<1>1. copies # <<>> /\ next.k <= Head(todo).end /\ UNCHANGED <<input, todo, copies>>
  BY DEF MS!Take
<1>2. /\ copies.left \in [0..MS!Mid(Head(todo)) - Head(todo).start + 1 -> Element]
      /\ copies.right \in [0..Head(todo).end - MS!Mid(Head(todo)) -> Element]
      /\ next = [i |-> next.i, j |-> next.j, k |-> next.k]
      /\ next.j \in 0..Head(todo).end - MS!Mid(Head(todo))
  BY <1>1, Merging
<1>3. PICK l \in MS!Read(copies.left, next.i), r \in MS!Read(copies.right, next.j) :
        IF l <= r
          THEN /\ array' = [array EXCEPT ![next.k] = l]
               /\ next' = [next EXCEPT !.i = @ + 1, !.k = @ + 1]
          ELSE /\ array' = [array EXCEPT ![next.k] = r]
               /\ next' = [next EXCEPT !.j = @ + 1, !.k = @ + 1]
  BY DEF MS!Take
<1>4. /\ l \in Element
      /\ next.i \in 0..MS!Mid(Head(todo)) - Head(todo).start + 1 => l = copies.left[next.i]
  BY <1>2 DEF MS!Read
<1>5. r \in Element /\ r = copies.right[next.j]
  BY <1>2 DEF MS!Read
<1>6. next \in [i : Nat, j : Nat, k : Nat]
  <2>1. next.i \in Nat /\ next.j \in Nat /\ next.k \in Nat
    BY <1>1, Merging
  <2>. QED
    BY <1>2, <2>1
<1>7. /\ next.i + 1 \in Nat /\ next.j + 1 \in Nat /\ next.k + 1 \in Nat
  BY <1>6
<1>8. CASE l <= r
  <2>1. /\ array' = [array EXCEPT ![next.k] = l]
        /\ next' = [next EXCEPT !.i = next.i + 1, !.k = next.k + 1]
    BY <1>3, <1>8
  <2>2. /\ next'.i = next.i + 1 /\ next'.j = next.j /\ next'.k = next.k + 1
        /\ next' \in [i : Nat, j : Nat, k : Nat]
    BY ONLY <1>6, <1>7, <2>1
  <2>. QED
    BY <1>1, <1>4, <1>5, <1>8, <2>1, <2>2
<1>9. CASE ~(l <= r)
  <2>1. /\ array' = [array EXCEPT ![next.k] = r]
        /\ next' = [next EXCEPT !.j = next.j + 1, !.k = next.k + 1]
    BY <1>3, <1>9
  <2>2. /\ next'.i = next.i /\ next'.j = next.j + 1 /\ next'.k = next.k + 1
        /\ next' \in [i : Nat, j : Nat, k : Nat]
    BY ONLY <1>6, <1>7, <2>1
  <2>. QED
    BY <1>1, <1>4, <1>5, <1>9, <2>1, <2>2
<1>. QED
  BY <1>8, <1>9

\* The next of l_array: it was already there, if the infinity behind it was
\* taken only for the last of r_array.
LEMMA MergeTakesLeft ==
  ASSUME MS!IInv, copies # <<>>, next.k <= Head(todo).end, UNCHANGED <<input, todo, copies>>,
         NEW l \in Element, NEW r \in Element,
         next.i \in 0..MS!Mid(Head(todo)) - Head(todo).start + 1 => l = copies.left[next.i],
         r = copies.right[next.j], l <= r,
         array' = [array EXCEPT ![next.k] = l],
         next' \in [i : Nat, j : Nat, k : Nat],
         next'.i = next.i + 1, next'.j = next.j, next'.k = next.k + 1
  PROVE  MS!IInv'
<1> DEFINE first == Head(todo).start
           last == Head(todo).end
           mid == MS!Mid(Head(todo))
           k == next.k
           j == next.j
           middle == mid + 1 + j
           V == MS!Whole
           W == MS!Whole'
<1>1. /\ todo # <<>> /\ Head(todo).op = "merge"
      /\ copies.left \in [0..mid - first + 1 -> Element]
      /\ copies.left[mid - first + 1] = MS!INT_MAX
      /\ copies.right \in [0..last - mid -> Element]
      /\ copies.right[last - mid] = MS!INT_MAX
  BY Merging
<1>2. /\ k \in first..last + 1 /\ j \in 0..last - mid /\ next.i = k - first - j
      /\ k \in Nat /\ j \in Nat /\ next.i \in Nat
      /\ first \in Nat /\ last \in Nat /\ mid \in Nat /\ first <= mid /\ mid < last
      /\ last \in 0..Length - 1 /\ Length \in Nat /\ k <= last
  BY Merging
<1>3. next'.i = next.i + 1 /\ next'.j = j /\ next'.k = k + 1
  OBVIOUS
<1>4. /\ array \in [0..Length - 1 -> Element]
      /\ array' \in [0..Length - 1 -> Element]
      /\ \A s \in 0..Length - 1 : array'[s] = IF s = k THEN l ELSE array[s]
  BY DEF MS!IInv
<1>5. MS!Nested'
  BY DEF MS!IInv, MS!Nested
<1>6. MS!Copied'
  <2>1. /\ next' \in [i : Nat, j : 0..last - mid, k : first..last + 1]
        /\ next'.i = next'.k - first - next'.j
    <3>. HIDE DEF first, last, mid
    <3>1. /\ next.i + 1 \in Nat /\ k + 1 \in first..last + 1
          /\ next.i + 1 = (k + 1) - first - j
      BY ONLY <1>2
    <3>. QED
      BY <1>2, <1>3, <3>1
  <2>. QED
    BY <1>1, <2>1 DEF MS!Copied, MS!Call
<1>7. \A s \in 0..Length - 1 :
        V[s] = IF s \in k..middle - 1 THEN copies.left[s - first - j]
               ELSE IF s \in middle..last THEN copies.right[s - mid - 1]
               ELSE array[s]
  BY WholeArray
<1>8. \A s \in 0..Length - 1 :
        W[s] = IF s \in k + 1..middle - 1 THEN copies.left[s - first - j]
               ELSE IF s \in middle..last THEN copies.right[s - mid - 1]
               ELSE array'[s]
  BY <1>3 DEF MS!Whole
<1>9. V \in [0..Length - 1 -> Element]
  BY WholeType
<1>10. ASSUME MS!FewInfinities, MS!MergedSoFar, MS!OrderedSoFar, MS!OneInfinity,
              MS!Rearranged(MS!Whole, input, Length)
       PROVE  /\ MS!MergedSoFar' /\ MS!OrderedSoFar' /\ MS!OneInfinity'
              /\ MS!Rearranged(MS!Whole', input, Length)
  <2>1. /\ k <= middle
        /\ \A s \in first..k - 1 : array[s] = V[s]
        /\ \A s, t \in first..last :
             s < t => V[s] <= V[t] \/ (k <= s /\ s < middle /\ middle <= t)
    BY <1>2, <1>10 DEF MS!MergedSoFar
  <2>2. W = [s \in 0..Length - 1 |-> W[s]]
    BY DEF MS!Whole
  <2>0. middle \in Nat /\ middle = mid + 1 + j /\ k = next.k /\ j = next.j /\ k <= middle
    BY ONLY <1>2, <2>1
  <2>. HIDE DEF first, last, mid, k, j, middle, V, W
  <2>3. l = IF k = middle THEN MS!INT_MAX ELSE copies.left[k - first - j]
    <3>1. /\ next.i = k - first - j /\ next.i \in 0..mid - first + 1
          /\ (k = middle => next.i = mid - first + 1)
      BY ONLY <1>2, <2>0, <2>1
    <3>. QED
      BY <1>1, <3>1 DEF mid, first
  <2>4. k \in 0..Length - 1 /\ k \in first..last
    BY ONLY <1>2, <2>0
  <2>5. k # middle => V[k] = l
    <3>1. k # middle => k \in k..middle - 1
      BY ONLY <1>2, <2>0, <2>1
    <3>. QED
      BY <1>7, <2>3, <2>4, <3>1
  <2>6. \A s \in 0..Length - 1 : W[s] = V[s]
    <3>. SUFFICES ASSUME NEW s \in 0..Length - 1 PROVE W[s] = V[s]
      OBVIOUS
    <3>1. CASE s = k
      <4>1. CASE k = middle
        <5>1. s \notin k + 1..middle - 1 /\ s \notin k..middle - 1 /\ s \in middle..last
          BY ONLY <1>2, <2>0, <3>1, <4>1
        <5>. QED
          BY <1>7, <1>8, <5>1
      <4>2. CASE k # middle
        <5>1. s \notin k + 1..middle - 1 /\ s \notin middle..last
          BY ONLY <1>2, <2>0, <3>1, <4>2
        <5>. QED
          BY <1>4, <1>8, <2>4, <2>5, <3>1, <4>2, <5>1
      <4>. QED
        BY <4>1, <4>2
    <3>2. CASE s # k
      <4>1. s \in k + 1..middle - 1 <=> s \in k..middle - 1
        BY ONLY <1>2, <2>0, <3>2
      <4>. QED
        BY <1>4, <1>7, <1>8, <3>2, <4>1
    <3>. QED
      BY <3>1, <3>2
  <2>7. W = V
    BY <1>9, <2>2, <2>6
  <2>8. middle <= last => V[middle] = r
    <3>1. middle <= last => /\ middle \in 0..Length - 1 /\ middle \notin k..middle - 1
                            /\ middle \in middle..last /\ middle - mid - 1 = j
      BY ONLY <1>2, <2>0
    <3>. QED
      BY <1>7, <3>1 DEF j
  <2>9. k = middle => k = last /\ r = MS!INT_MAX /\ V[k] = l
    <3>0. SUFFICES ASSUME k = middle PROVE k = last /\ r = MS!INT_MAX /\ V[k] = l
      OBVIOUS
    <3>1. l = MS!INT_MAX /\ r = MS!INT_MAX
      <4>1. l = MS!INT_MAX
        BY <2>3, <3>0
      <4>2. r \in Int /\ r <= MS!INT_MAX /\ MS!INT_MAX \in Int /\ l <= r
        BY MergeConstants
      <4>. QED
        BY ONLY <4>1, <4>2
    <3>2. V[k] = MS!INT_MAX
      BY <1>2, <2>8, <3>0, <3>1
    <3>3. ASSUME k # last PROVE FALSE
      <4>1. /\ k + 1 \in first..last /\ k + 1 \in 0..Length - 1 /\ k < k + 1
            /\ ~(k < middle) /\ k # k + 1
        BY ONLY <1>2, <2>0, <3>0, <3>3
      <4>2. V[k] <= V[k + 1]
        BY <2>1, <2>4, <4>1
      <4>3. V[k + 1] = MS!INT_MAX
        <5>1. V[k + 1] \in Element
          BY <1>9, <4>1
        <5>2. V[k + 1] \in Int /\ V[k + 1] <= MS!INT_MAX /\ MS!INT_MAX \in Int
          BY <5>1, MergeConstants
        <5>. QED
          BY ONLY <3>2, <4>2, <5>2
      <4>. QED
        BY <1>10, <2>4, <3>2, <4>1, <4>3 DEF MS!OneInfinity, V
    <3>. QED
      BY <1>2, <2>8, <3>0, <3>1, <3>2, <3>3
  <2>10. MS!MergedSoFar'
    <3>0. k = middle => k = last
      BY <2>9
    <3>1. k + 1 <= middle \/ k + 1 > last
      BY ONLY <1>2, <2>0, <3>0
    <3>2. ASSUME NEW s \in first..(k + 1) - 1 PROVE array'[s] = W[s]
      <4>1. s \in 0..Length - 1 /\ (s = k \/ s \in first..k - 1)
        BY ONLY <1>2, <2>0
      <4>2. s # k => s \in first..k - 1 /\ ~(s = k)
        BY <4>1
      <4>. QED
        BY <1>4, <2>1, <2>5, <2>6, <2>9, <4>1, <4>2
    <3>3. ASSUME NEW s \in first..last, NEW t \in first..last, s < t
          PROVE  W[s] <= W[t] \/ (k + 1 <= s /\ s < middle /\ middle <= t)
      <4>1. CASE V[s] <= V[t]
        BY <2>7, <4>1
      <4>2. CASE s # k /\ k <= s /\ s < middle /\ middle <= t
        BY ONLY <1>2, <2>0, <4>2, s \in first..last
      <4>3. CASE s = k /\ k < middle /\ middle <= t
        <5>1. middle <= last /\ middle \in first..last /\ V[middle] = r /\ V[k] = l
          BY ONLY <1>2, <2>0, <2>5, <2>8, <4>3
        <5>2. t = middle \/ V[middle] <= V[t]
          <6>1. t # middle => middle < t /\ ~(middle < middle)
            BY ONLY <1>2, <2>0, <4>3
          <6>. QED
            BY <2>1, <5>1, <6>1
        <5>3. t \in 0..Length - 1 /\ V[t] \in Int /\ l \in Int /\ r \in Int
          <6>1. t \in 0..Length - 1
            BY <1>2, <2>0
          <6>. QED
            BY <1>9, <6>1, MergeConstants
        <5>4. V[k] <= V[t]
          BY <5>1, <5>2, <5>3
        <5>. QED
          BY <2>7, <4>3, <5>4
      <4>. QED
        BY <2>1, <3>3, <4>1, <4>2, <4>3
    <3>. QED
      BY <1>3, <3>1, <3>2, <3>3 DEF MS!MergedSoFar, first, last, mid, middle, W, k, j
  <2>11. MS!OrderedSoFar'
    <3>1. MS!Whole' = MS!Whole
      BY <2>7 DEF V, W
    <3>. QED
      BY <1>10, <3>1 DEF MS!OrderedSoFar
  <2>12. MS!OneInfinity'
    BY <1>10, <2>7 DEF MS!OneInfinity, V, W
  <2>. QED
    BY <1>10, <2>7, <2>10, <2>11, <2>12 DEF V, W
<1>11. MS!FewInfinities' <=> MS!FewInfinities
  BY DEF MS!FewInfinities
<1>. QED
  BY <1>4, <1>5, <1>6, <1>10, <1>11, MergeHelpers DEF MS!IInv

\* The next of r_array: it comes to the front of what is left of l_array.
LEMMA MergeTakesRight ==
  ASSUME MS!IInv, copies # <<>>, next.k <= Head(todo).end, UNCHANGED <<input, todo, copies>>,
         NEW l \in Element, NEW r \in Element,
         next.i \in 0..MS!Mid(Head(todo)) - Head(todo).start + 1 => l = copies.left[next.i],
         r = copies.right[next.j], ~(l <= r),
         array' = [array EXCEPT ![next.k] = r],
         next' \in [i : Nat, j : Nat, k : Nat],
         next'.i = next.i, next'.j = next.j + 1, next'.k = next.k + 1
  PROVE  MS!IInv'
<1> DEFINE first == Head(todo).start
           last == Head(todo).end
           mid == MS!Mid(Head(todo))
           k == next.k
           j == next.j
           middle == mid + 1 + j
           V == MS!Whole
           W == MS!Whole'
<1>1. /\ todo # <<>> /\ Head(todo).op = "merge"
      /\ copies.left \in [0..mid - first + 1 -> Element]
      /\ copies.left[mid - first + 1] = MS!INT_MAX
      /\ copies.right \in [0..last - mid -> Element]
      /\ copies.right[last - mid] = MS!INT_MAX
  BY Merging
<1>2. /\ k \in first..last + 1 /\ j \in 0..last - mid /\ next.i = k - first - j
      /\ k \in Nat /\ j \in Nat /\ next.i \in Nat
      /\ first \in Nat /\ last \in Nat /\ mid \in Nat /\ first <= mid /\ mid < last
      /\ last \in 0..Length - 1 /\ Length \in Nat /\ k <= last
  BY Merging
<1>3. next'.i = next.i /\ next'.j = j + 1 /\ next'.k = k + 1
  OBVIOUS
<1>4. /\ array \in [0..Length - 1 -> Element]
      /\ array' \in [0..Length - 1 -> Element]
      /\ \A s \in 0..Length - 1 : array'[s] = IF s = k THEN r ELSE array[s]
  BY DEF MS!IInv
<1>5. MS!Nested'
  BY DEF MS!IInv, MS!Nested
<1>6. j < last - mid /\ middle <= last
  <2>1. l \in Int /\ r \in Int /\ l <= MS!INT_MAX /\ MS!INT_MAX \in Int /\ ~(l <= r)
    BY MergeConstants
  <2>2. r # MS!INT_MAX
    BY ONLY <2>1
  <2>3. j # last - mid
    BY <1>1, <2>2
  <2>. HIDE DEF first, last, mid
  <2>. QED
    BY ONLY <1>2, <2>3
<1>7. MS!Copied'
  <2>1. /\ next' \in [i : Nat, j : 0..last - mid, k : first..last + 1]
        /\ next'.i = next'.k - first - next'.j
    <3>. HIDE DEF first, last, mid
    <3>1. /\ j + 1 \in 0..last - mid /\ k + 1 \in first..last + 1
          /\ next.i = (k + 1) - first - (j + 1)
      BY ONLY <1>2, <1>6
    <3>. QED
      BY <1>2, <1>3, <3>1
  <2>. QED
    BY <1>1, <2>1 DEF MS!Copied, MS!Call
<1>8. \A s \in 0..Length - 1 :
        V[s] = IF s \in k..middle - 1 THEN copies.left[s - first - j]
               ELSE IF s \in middle..last THEN copies.right[s - mid - 1]
               ELSE array[s]
  BY WholeArray
<1>9. \A s \in 0..Length - 1 :
        W[s] = IF s \in k + 1..(mid + 1 + (j + 1)) - 1 THEN copies.left[s - first - (j + 1)]
               ELSE IF s \in mid + 1 + (j + 1)..last THEN copies.right[s - mid - 1]
               ELSE array'[s]
  BY <1>3 DEF MS!Whole
<1>10. V \in [0..Length - 1 -> Element]
  BY WholeType
<1>11. ASSUME MS!FewInfinities, MS!MergedSoFar, MS!OrderedSoFar, MS!OneInfinity,
              MS!Rearranged(MS!Whole, input, Length)
       PROVE  /\ MS!MergedSoFar' /\ MS!OrderedSoFar' /\ MS!OneInfinity'
              /\ MS!Rearranged(MS!Whole', input, Length)
  <2> DEFINE P(s) == IF s = k THEN middle ELSE IF s \in k + 1..middle THEN s - 1 ELSE s
             Q(s) == IF s \in k..middle - 1 THEN s + 1 ELSE IF s = middle THEN k ELSE s
  <2>1. /\ k <= middle
        /\ \A s \in first..k - 1 : array[s] = V[s]
        /\ \A s, t \in first..last :
             s < t => V[s] <= V[t] \/ (k <= s /\ s < middle /\ middle <= t)
    BY <1>2, <1>11 DEF MS!MergedSoFar
  <2>2. W = [s \in 0..Length - 1 |-> W[s]]
    BY DEF MS!Whole
  <2>3. middle \in Nat /\ middle = mid + 1 + j /\ k = next.k /\ j = next.j /\ k <= middle
    <3>1. middle = mid + 1 + j /\ k = next.k /\ j = next.j
      OBVIOUS
    <3>. HIDE DEF first, last, mid, k, j, middle, V, W
    <3>2. middle \in Nat
      BY ONLY <1>2, <3>1
    <3>. QED
      BY <2>1, <3>1, <3>2
  <2>. HIDE DEF first, last, mid, k, j, middle, V, W
  <2>4. \A s \in 0..Length - 1 :
          W[s] = IF s \in k + 1..middle THEN copies.left[s - first - (j + 1)]
                 ELSE IF s \in middle + 1..last THEN copies.right[s - mid - 1]
                 ELSE array'[s]
    <3>1. mid + 1 + (j + 1) = middle + 1 /\ (mid + 1 + (j + 1)) - 1 = middle
      BY ONLY <1>2, <2>3
    <3>. QED
      BY <1>9, <3>1
  <2>5. \A s \in 0..Length - 1 : s \in Int /\ P(s) \in 0..Length - 1 /\ Q(s) \in 0..Length - 1
    BY ONLY <1>2, <1>6, <2>3
  <2>6. ASSUME NEW s \in 0..Length - 1 PROVE P(Q(s)) = s /\ Q(P(s)) = s
    <3>1. P(Q(s)) = s
      <4>1. CASE s \in k..middle - 1
        <5>1. Q(s) = s + 1
          BY ONLY <4>1
        <5>2. s + 1 # k /\ s + 1 \in k + 1..middle /\ (s + 1) - 1 = s
          BY ONLY <1>2, <2>3, <4>1
        <5>. QED
          BY ONLY <5>1, <5>2
      <4>2. CASE s = middle
        <5>1. Q(s) = k
          BY ONLY <2>3, <1>2, <4>2
        <5>. QED
          BY ONLY <5>1, <4>2
      <4>3. CASE s \notin k..middle - 1 /\ s # middle
        <5>1. Q(s) = s
          BY ONLY <4>3
        <5>2. s # k /\ s \notin k + 1..middle
          BY ONLY <1>2, <2>3, <4>3
        <5>. QED
          BY ONLY <5>1, <5>2
      <4>. QED
        BY ONLY <4>1, <4>2, <4>3
    <3>2. Q(P(s)) = s
      <4>1. CASE s \in k + 1..middle
        <5>1. s # k /\ s - 1 \in k..middle - 1 /\ (s - 1) + 1 = s
          BY ONLY <1>2, <2>3, <4>1
        <5>2. P(s) = s - 1
          BY ONLY <4>1, <5>1
        <5>. QED
          BY ONLY <5>1, <5>2
      <4>2. CASE s = k
        <5>1. P(s) = middle
          BY ONLY <4>2
        <5>2. middle \notin k..middle - 1
          BY ONLY <1>2, <2>3
        <5>. QED
          BY ONLY <5>1, <5>2, <4>2
      <4>3. CASE s \notin k + 1..middle /\ s # k
        <5>1. P(s) = s
          BY ONLY <4>3
        <5>2. s \notin k..middle - 1 /\ s # middle
          BY ONLY <1>2, <2>3, <4>3
        <5>. QED
          BY ONLY <5>1, <5>2
      <4>. QED
        BY ONLY <4>1, <4>2, <4>3
    <3>. QED
      BY <3>1, <3>2
  <2>7. k < middle => V[k] = l
    <3>. SUFFICES ASSUME k < middle PROVE V[k] = l
      OBVIOUS
    <3>1. /\ next.i = k - first - j /\ next.i \in 0..mid - first + 1
          /\ k \in k..middle - 1 /\ k \in 0..Length - 1
      <4>1. k < middle
        OBVIOUS
      <4>. QED
        BY ONLY <1>2, <2>3, <4>1
    <3>. QED
      BY <1>8, <3>1 DEF mid, first
  <2>8. V[middle] = r
    <3>1. /\ middle \in 0..Length - 1 /\ middle \notin k..middle - 1
          /\ middle \in middle..last /\ middle - mid - 1 = j
      BY ONLY <1>2, <1>6, <2>3
    <3>. QED
      BY <1>8, <3>1 DEF j
  <2>9. ASSUME NEW s \in 0..Length - 1 PROVE W[s] = V[P(s)]
    <3>1. CASE s = k
      <4>1. s \notin k + 1..middle /\ s \notin middle + 1..last
        BY ONLY <1>2, <1>6, <2>3, <3>1
      <4>. QED
        BY <1>4, <2>4, <2>8, <3>1, <4>1
    <3>2. CASE s \in k + 1..middle
      <4>1. /\ s - 1 \in k..middle - 1 /\ s - 1 \in 0..Length - 1 /\ s # k
            /\ (s - 1) - first - j = s - first - (j + 1)
        BY ONLY <1>2, <1>6, <2>3, <3>2
      <4>. QED
        BY <1>8, <2>4, <3>2, <4>1
    <3>3. CASE s # k /\ s \notin k + 1..middle /\ s \in middle + 1..last
      <4>1. s \notin k..middle - 1 /\ s \in middle..last
        BY ONLY <1>2, <1>6, <2>3, <3>3
      <4>. QED
        BY <1>8, <2>4, <3>3, <4>1
    <3>4. CASE s # k /\ s \notin k + 1..middle /\ s \notin middle + 1..last
      <4>1. s \notin k..middle - 1 /\ s \notin middle..last
        BY ONLY <1>2, <1>6, <2>3, <3>4
      <4>. QED
        BY <1>4, <1>8, <2>4, <3>4, <4>1
    <3>. QED
      BY <3>1, <3>2, <3>3, <3>4
  <2>10. MS!MergedSoFar'
    <3>1. k + 1 <= middle + 1
      BY ONLY <1>2, <2>3
    <3>2. ASSUME NEW s \in first..(k + 1) - 1 PROVE array'[s] = W[s]
      <4>1. s \in 0..Length - 1 /\ s \notin k + 1..middle /\ s \notin middle + 1..last
        BY ONLY <1>2, <2>3
      <4>. QED
        BY <2>4, <4>1
    <3>3. \A s \in first..last : s \in 0..Length - 1 /\ V[s] \in Int
      <4>1. \A s \in first..last : s \in 0..Length - 1
        BY ONLY <1>2
      <4>. QED
        BY <1>10, <4>1, MergeConstants
    <3>4. \A s \in first..last : P(s) \in first..last
      BY ONLY <1>2, <1>6, <2>3
    <3>5. ASSUME NEW s \in first..last, NEW t \in first..last, s < t,
                 ~(k + 1 <= s /\ s < middle + 1 /\ middle + 1 <= t)
          PROVE  V[P(s)] <= V[P(t)]
      <4>1. CASE s # k
        <5>1. P(s) < P(t) /\ ~(k <= P(s) /\ P(s) < middle /\ middle <= P(t))
          <6>1. CASE s < k /\ t = k
            <7>1. P(s) = s /\ P(t) = middle
              BY ONLY <1>2, <2>3, <6>1
            <7>. QED
              BY ONLY <1>2, <2>3, <6>1, <7>1
          <6>2. CASE s < k /\ t \in k + 1..middle
            <7>1. P(s) = s /\ P(t) = t - 1
              BY ONLY <1>2, <2>3, <6>2
            <7>. QED
              BY ONLY <1>2, <2>3, <6>2, <7>1
          <6>3. CASE s < k /\ t # k /\ t \notin k + 1..middle
            <7>1. P(s) = s /\ P(t) = t
              BY ONLY <1>2, <2>3, <6>3
            <7>. QED
              BY ONLY <1>2, <2>3, <3>5, <6>3, <7>1
          <6>4. CASE s \in k + 1..middle /\ t \in k + 1..middle
            <7>1. P(s) = s - 1 /\ P(t) = t - 1
              BY ONLY <1>2, <2>3, <6>4
            <7>. QED
              BY ONLY <1>2, <2>3, <3>5, <6>4, <7>1
          <6>5. CASE s > middle
            <7>1. P(s) = s /\ P(t) = t
              BY ONLY <1>2, <2>3, <3>5, <6>5
            <7>. QED
              BY ONLY <1>2, <2>3, <3>5, <6>5, <7>1
          <6>6. \/ s < k /\ t = k
                \/ s < k /\ t \in k + 1..middle
                \/ s < k /\ t # k /\ t \notin k + 1..middle
                \/ s \in k + 1..middle /\ t \in k + 1..middle
                \/ s > middle
            BY ONLY <1>2, <2>3, <3>5, <4>1
          <6>. QED
            BY ONLY <6>1, <6>2, <6>3, <6>4, <6>5, <6>6
        <5>. QED
          BY <2>1, <3>4, <5>1
      <4>2. CASE s = k /\ t \in k + 1..middle
        <5>1. /\ P(s) = middle /\ P(t) = t - 1 /\ t - 1 \in first..last /\ k < middle
              /\ k \in first..last /\ middle \in first..last
              /\ (t - 1 = k \/ (k < t - 1 /\ ~(middle <= t - 1)))
          <6>1. t # k /\ k < middle
            BY ONLY <1>2, <2>3, <4>2
          <6>2. P(s) = middle /\ P(t) = t - 1
            BY ONLY <4>2, <6>1
          <6>. QED
            BY ONLY <1>2, <1>6, <2>3, <4>2, <6>1, <6>2
        <5>2. V[k] <= V[t - 1]
          BY <2>1, <3>3, <5>1
        <5>3. r < l /\ l \in Int /\ r \in Int
          <6>1. l \in Int /\ r \in Int /\ ~(l <= r)
            BY MergeConstants
          <6>. QED
            BY ONLY <6>1
        <5>4. V[k] = l /\ V[middle] = r /\ V[t - 1] \in Int
          BY <2>7, <2>8, <3>3, <5>1
        <5>5. V[middle] <= V[t - 1]
          BY ONLY <5>2, <5>3, <5>4
        <5>. QED
          BY <5>1, <5>5
      <4>3. CASE s = k /\ t \notin k + 1..middle
        <5>1. /\ P(s) = middle /\ P(t) = t /\ middle < t /\ ~(middle < middle)
              /\ middle \in first..last
          BY ONLY <1>2, <1>6, <2>3, <3>5, <4>3
        <5>2. V[middle] <= V[t]
          BY <2>1, <5>1
        <5>. QED
          BY <5>1, <5>2
      <4>. QED
        BY <4>1, <4>2, <4>3
    <3>6. \A s, t \in first..last :
            s < t => W[s] <= W[t] \/ (k + 1 <= s /\ s < middle + 1 /\ middle + 1 <= t)
      <4>. HIDE DEF P
      <4>. QED
        BY <2>9, <3>3, <3>5
    <3>7. mid + 1 + (j + 1) = middle + 1
      BY ONLY <1>2, <2>3
    <3>8. /\ k + 1 <= mid + 1 + (j + 1)
          /\ \A s, t \in first..last :
               s < t => W[s] <= W[t]
                        \/ (k + 1 <= s /\ s < mid + 1 + (j + 1) /\ mid + 1 + (j + 1) <= t)
      BY <3>1, <3>6, <3>7
    <3>. QED
      BY <1>3, <3>2, <3>8 DEF MS!MergedSoFar, first, last, mid, W, k, j
  <2>11. MS!OrderedSoFar'
    <3>1. todo[1].start = first /\ todo[1].end = last /\ copies' # <<>> /\ todo' = todo
      BY <1>1, MergeHead DEF MS!IInv, first, last
    <3>2. ASSUME NEW s \in 0..Length - 1, ~(first <= s /\ s <= last) PROVE W[s] = V[s]
      <4>1. P(s) = s
        BY ONLY <1>2, <1>6, <2>3, <3>2
      <4>. QED
        BY <2>9, <4>1
    <3>3. ASSUME NEW s \in first..last PROVE \E t \in first..last : W[s] = V[t]
      <4>1. s \in 0..Length - 1 /\ P(s) \in first..last
        BY ONLY <1>2, <1>6, <2>3
      <4>. QED
        BY <2>9, <4>1
    <3>4. MS!Nested /\ todo # <<>>
      BY <1>1 DEF MS!IInv
    <3>. QED
      BY <1>11, <3>1, <3>2, <3>3, <3>4, MergeMoves DEF V, W
  <2>12. MS!OneInfinity'
    <3>. SUFFICES ASSUME NEW s \in 0..Length - 1, NEW t \in 0..Length - 1,
                         W[s] = MS!INT_MAX, W[t] = MS!INT_MAX
                  PROVE  s = t
      BY DEF MS!OneInfinity, W
    <3>. HIDE DEF P, Q
    <3>1. P(s) = P(t)
      BY <1>11, <2>5, <2>9 DEF MS!OneInfinity, V
    <3>. QED
      BY <2>6, <3>1
  <2>13. Rearranged(W, V, Length)
    <3> DEFINE p == [s \in 0..Length - 1 |-> P(s)]
               q == [s \in 0..Length - 1 |-> Q(s)]
    <3>. HIDE DEF P, Q
    <3>1. p \in [0..Length - 1 -> 0..Length - 1] /\ q \in [0..Length - 1 -> 0..Length - 1]
      BY <2>5
    <3>2. \A s \in 0..Length - 1 : p[q[s]] = s /\ q[p[s]] = s /\ W[s] = V[p[s]]
      BY <2>5, <2>6, <2>9
    <3>. HIDE DEF p, q
    <3>. QED
      BY <1>2, <3>1, <3>2, RearrangedBy
  <2>14. MS!Rearranged(W, input, Length)
    BY <1>11, <2>13, MergeHelpers, RearrangedFurther DEF V
  <2>. QED
    BY <2>10, <2>11, <2>12, <2>14 DEF W
<1>12. MS!FewInfinities' <=> MS!FewInfinities
  BY DEF MS!FewInfinities
<1>. QED
  BY <1>4, <1>5, <1>7, <1>11, <1>12, MergeHelpers DEF MS!IInv

LEMMA MergeTakes == MS!IInv /\ MS!Take => MS!IInv'
<1>. SUFFICES ASSUME MS!IInv, MS!Take PROVE MS!IInv'
  OBVIOUS
<1>1. /\ copies # <<>> /\ next.k <= Head(todo).end /\ UNCHANGED <<input, todo, copies>>
      /\ next' \in [i : Nat, j : Nat, k : Nat]
  BY MergeCompares
<1>2. PICK l \in Element, r \in Element :
        /\ next.i \in 0..MS!Mid(Head(todo)) - Head(todo).start + 1 => l = copies.left[next.i]
        /\ r = copies.right[next.j]
        /\ \/ /\ l <= r
              /\ array' = [array EXCEPT ![next.k] = l]
              /\ next'.i = next.i + 1 /\ next'.j = next.j /\ next'.k = next.k + 1
           \/ /\ ~(l <= r)
              /\ array' = [array EXCEPT ![next.k] = r]
              /\ next'.i = next.i /\ next'.j = next.j + 1 /\ next'.k = next.k + 1
  BY MergeCompares
<1>3. CASE l <= r
  BY <1>1, <1>2, <1>3, MergeTakesLeft
<1>4. CASE ~(l <= r)
  BY <1>1, <1>2, <1>4, MergeTakesRight
<1>. QED
  BY <1>3, <1>4

\* The calls that replace the next one lie where it lay.
LEMMA CallsReplaced ==
  ASSUME MS!Nested, todo # <<>>,
         NEW frames,
         frames \in Seq([op : {"sort", "merge"}, start : 0..Length - 1, end : 0..Length - 1]),
         \A p \in DOMAIN frames :
           /\ frames[p].start < frames[p].end
           /\ todo[1].start <= frames[p].start /\ frames[p].end <= todo[1].end,
         \A p, q \in DOMAIN frames :
           q < p => IF frames[p].op = "sort"
                      THEN frames[q].end < frames[p].start \/ frames[p].end < frames[q].start
                      ELSE MS!InOneHalf(frames[p], frames[q].start, frames[q].end),
         todo' = frames \o Tail(todo)
  PROVE  /\ MS!Nested'
         /\ Len(frames) \in Nat /\ Len(todo) \in Nat /\ Len(todo) > 0
         /\ DOMAIN frames = 1..Len(frames) /\ DOMAIN todo = 1..Len(todo)
         /\ Len(todo') = Len(frames) + Len(todo) - 1
         /\ DOMAIN todo' = 1..Len(frames) + Len(todo) - 1
         /\ \A p \in 1..Len(frames) + Len(todo) - 1 :
              todo'[p] = IF p <= Len(frames) THEN frames[p] ELSE todo[p - Len(frames) + 1]
<1> DEFINE R == [op : {"sort", "merge"}, start : 0..Length - 1, end : 0..Length - 1]
           n == Len(frames)
           m == Len(todo)
<1>1. todo \in Seq(R) /\ frames \in Seq(R)
  BY DEF MS!Nested
<1>2. todo' \in Seq(R)
  <2>. HIDE DEF R
  <2>. QED
    BY <1>1
<1>3. /\ n \in Nat /\ m \in Nat /\ m > 0
      /\ DOMAIN frames = 1..n /\ DOMAIN todo = 1..m
      /\ DOMAIN todo' = 1..n + m - 1 /\ Len(todo') = n + m - 1
      /\ \A p \in 1..n + m - 1 : todo'[p] = IF p <= n THEN frames[p] ELSE todo[p - n + 1]
  <2>. HIDE DEF R
  <2>1. /\ n \in Nat /\ m \in Nat /\ m > 0 /\ DOMAIN frames = 1..n /\ DOMAIN todo = 1..m
    BY <1>1
  <2>2. Tail(todo) \in Seq(R) /\ Len(Tail(todo)) = m - 1
        /\ \A p \in 1..m - 1 : Tail(todo)[p] = todo[p + 1]
    BY <1>1
  <2>3. DOMAIN todo' = 1..n + m - 1 /\ Len(todo') = n + m - 1
    BY <1>1, <2>1, <2>2
  <2>4. ASSUME NEW p \in 1..n + m - 1
        PROVE  todo'[p] = IF p <= n THEN frames[p] ELSE todo[p - n + 1]
    <3>1. CASE p <= n
      BY <1>1, <2>1, <2>2, <2>4, <3>1
    <3>2. CASE ~(p <= n)
      <4>1. p - n \in 1..m - 1
        BY <2>1, <2>4, <3>2
      <4>2. todo'[p] = Tail(todo)[p - n]
        BY <1>1, <2>1, <2>2, <2>4, <3>2, <4>1
      <4>. QED
        BY <2>1, <2>2, <3>2, <4>1, <4>2
    <3>. QED
      BY <3>1, <3>2
  <2>. QED
    BY <2>1, <2>3, <2>4
<1>4. ASSUME NEW p \in 1..n + m - 1
      PROVE  \/ p \in 1..n /\ p \in DOMAIN frames /\ todo'[p] = frames[p]
             \/ ~(p <= n) /\ p - n + 1 \in 2..m /\ p - n + 1 \in DOMAIN todo
                /\ todo'[p] = todo[p - n + 1]
  <2>. HIDE DEF R, n, m
  <2>. QED
    BY <1>3, <1>4
<1>5. /\ \A p \in DOMAIN todo : todo[p].start < todo[p].end
      /\ \A p, q \in DOMAIN todo :
           q < p => IF todo[p].op = "sort"
                      THEN todo[q].end < todo[p].start \/ todo[p].end < todo[q].start
                      ELSE MS!InOneHalf(todo[p], todo[q].start, todo[q].end)
  BY DEF MS!Nested
<1>6. \A p \in 1..n + m - 1 : todo'[p].start < todo'[p].end
  BY <1>4, <1>5
<1>7. ASSUME NEW p \in DOMAIN todo, NEW q \in DOMAIN frames, p # 1
      PROVE  IF todo[p].op = "sort"
               THEN frames[q].end < todo[p].start \/ todo[p].end < frames[q].start
               ELSE MS!InOneHalf(todo[p], frames[q].start, frames[q].end)
  <2>1. 1 \in DOMAIN todo /\ 1 < p
    BY <1>3, <1>7
  <2>2. IF todo[p].op = "sort"
          THEN todo[1].end < todo[p].start \/ todo[p].end < todo[1].start
          ELSE MS!InOneHalf(todo[p], todo[1].start, todo[1].end)
    BY <1>5, <2>1
  <2>3. /\ todo[p].start \in Int /\ todo[p].end \in Int /\ MS!Mid(todo[p]) \in Int
        /\ todo[1].start \in Int /\ todo[1].end \in Int
    <3>1. /\ todo[p].start \in Nat /\ todo[p].end \in Nat /\ MS!Mid(todo[p]) \in Nat
          /\ todo[1].start \in Nat /\ todo[1].end \in Nat
      BY <2>1, MergeRanges
    <3>. QED
      BY ONLY <3>1
  <2>4. frames[q].start \in Int /\ frames[q].end \in Int
    <3>1. frames[q] \in R
      <4>. HIDE DEF R
      <4>. QED
        BY <1>1
    <3>. QED
      BY <3>1
  <2>5. todo[1].start <= frames[q].start /\ frames[q].end <= todo[1].end
    OBVIOUS
  <2>6. CASE todo[p].op = "sort"
    <3>1. todo[1].end < todo[p].start \/ todo[p].end < todo[1].start
      BY <2>2, <2>6
    <3>2. frames[q].end < todo[p].start \/ todo[p].end < frames[q].start
      BY ONLY <2>3, <2>4, <2>5, <3>1
    <3>. QED
      BY <2>6, <3>2
  <2>7. CASE todo[p].op # "sort"
    <3>1. /\ todo[p].start <= todo[1].start /\ todo[1].end <= todo[p].end
          /\ todo[1].end <= MS!Mid(todo[p]) \/ MS!Mid(todo[p]) < todo[1].start
      BY <2>2, <2>7 DEF MS!InOneHalf, MS!Covers
    <3>2. /\ todo[p].start <= frames[q].start /\ frames[q].end <= todo[p].end
          /\ frames[q].end <= MS!Mid(todo[p]) \/ MS!Mid(todo[p]) < frames[q].start
      BY ONLY <2>3, <2>4, <2>5, <3>1
    <3>. QED
      BY <2>7, <3>2 DEF MS!InOneHalf, MS!Covers
  <2>. QED
    BY <2>6, <2>7
<1>8. ASSUME NEW p \in 1..n + m - 1, NEW q \in 1..n + m - 1, q < p
      PROVE  IF todo'[p].op = "sort"
               THEN todo'[q].end < todo'[p].start \/ todo'[p].end < todo'[q].start
               ELSE MS!InOneHalf(todo'[p], todo'[q].start, todo'[q].end)
  <2>. HIDE DEF R, n, m
  <2>1. n \in Nat /\ m \in Nat
    BY <1>3
  <2>2. CASE p <= n
    <3>1. q <= n
      BY <1>8, <2>1, <2>2
    <3>2. /\ p \in DOMAIN frames /\ todo'[p] = frames[p]
          /\ q \in DOMAIN frames /\ todo'[q] = frames[q]
      BY <1>4, <2>2, <3>1
    <3>. QED
      BY <1>8, <3>2
  <2>3. CASE ~(p <= n) /\ q <= n
    <3>1. /\ p - n + 1 \in DOMAIN todo /\ todo'[p] = todo[p - n + 1] /\ p - n + 1 # 1
          /\ q \in DOMAIN frames /\ todo'[q] = frames[q]
      <4>1. /\ ~(p <= n) /\ p - n + 1 \in 2..m /\ p - n + 1 \in DOMAIN todo
            /\ todo'[p] = todo[p - n + 1]
        <5>1. p \notin 1..n
          BY <2>1, <2>3
        <5>. QED
          BY <1>4, <5>1
      <4>2. p - n + 1 # 1
        BY ONLY <2>1, <4>1
      <4>3. q \in DOMAIN frames /\ todo'[q] = frames[q]
        BY <1>4, <2>3
      <4>. QED
        BY <4>1, <4>2, <4>3
    <3>. QED
      BY <1>7, <3>1
  <2>4. CASE ~(p <= n) /\ ~(q <= n)
    <3>1. /\ p - n + 1 \in DOMAIN todo /\ todo'[p] = todo[p - n + 1]
          /\ q - n + 1 \in DOMAIN todo /\ todo'[q] = todo[q - n + 1]
      <4>1. p \notin 1..n /\ q \notin 1..n
        BY <2>1, <2>4
      <4>. QED
        BY <1>4, <4>1
    <3>2. q - n + 1 < p - n + 1
      BY <1>8, <2>1
    <3>. QED
      BY <1>5, <3>1, <3>2
  <2>. QED
    BY <2>2, <2>3, <2>4
<1>9. MS!Nested'
  <2>1. todo' \in Seq([op : {"sort", "merge"}, start : 0..Length - 1, end : 0..Length - 1])
    BY <1>2
  <2>2. /\ \A p \in DOMAIN todo' : todo'[p].start < todo'[p].end
        /\ \A p, q \in DOMAIN todo' :
             q < p => IF todo'[p].op = "sort"
                        THEN todo'[q].end < todo'[p].start \/ todo'[p].end < todo'[q].start
                        ELSE MS!InOneHalf(todo'[p], todo'[q].start, todo'[q].end)
    <3>. HIDE DEF R, n, m
    <3>. QED
      BY <1>3, <1>6, <1>8
  <2>. QED
    BY <2>1, <2>2 DEF MS!Nested, MS!InOneHalf, MS!Covers, MS!Mid
<1>. QED
  BY <1>3, <1>9

\* What was in order but for the next call is but for those that replace it.
LEMMA CallsOrdered ==
  ASSUME MS!OrderedSoFar, NEW n \in Nat, NEW m \in Nat, m > 0,
         NEW frames, todo # <<>>, copies' = <<>>, MS!Whole' = MS!Whole,
         DOMAIN todo = 1..m, Len(todo) = m,
         DOMAIN todo' = 1..n + m - 1, Len(todo') = n + m - 1,
         \A p \in 1..n + m - 1 : todo'[p] = IF p <= n THEN frames[p] ELSE todo[p - n + 1],
         \A k, l \in 0..Length - 1 :
           k < l /\ MS!Covers(todo[1], k, l)
           => MS!Whole[k] <= MS!Whole[l] \/ \E q \in 1..n : MS!Covers(frames[q], k, l),
         \A p \in 1..n : frames[p].op = "merge" =>
           \A k, l \in 0..Length - 1 :
             k < l /\ MS!InOneHalf(frames[p], k, l)
             => \E q \in 1..p - 1 : MS!Covers(frames[q], k, l)
  PROVE  MS!OrderedSoFar'
<1>1. ASSUME NEW p \in 1..(n + m - 1) + 1, NEW k \in 0..Length - 1, NEW l \in 0..Length - 1,
             k < l, p \in 1..n + m - 1 => todo'[p].op = "merge" /\ MS!InOneHalf(todo'[p], k, l)
      PROVE  MS!Whole[k] <= MS!Whole[l] \/ \E q \in 1..p - 1 : MS!Covers(todo'[q], k, l)
  <2>1. CASE p <= n
    <3>1. p \in 1..n /\ p \in 1..n + m - 1
      BY ONLY <2>1, m > 0
    <3>2. todo'[p] = frames[p]
      BY <2>1, <3>1
    <3>3. PICK q \in 1..p - 1 : MS!Covers(frames[q], k, l)
      BY <1>1, <3>1, <3>2
    <3>4. q <= n /\ q \in 1..n + m - 1
      BY ONLY <3>1
    <3>5. todo'[q] = frames[q]
      BY <3>4
    <3>. QED
      BY <3>3, <3>5
  <2>2. CASE ~(p <= n)
    <3> DEFINE o == p - n + 1
    <3>1. /\ o \in 1..m + 1 /\ o # 1 /\ (o \in 1..m => p \in 1..n + m - 1)
          /\ 1 \in 1..o - 1
      BY ONLY <2>2, m > 0
    <3>2. o \in 1..m => todo[o].op = "merge" /\ MS!InOneHalf(todo[o], k, l)
      BY <1>1, <2>2, <3>1
    <3>3. MS!Whole[k] <= MS!Whole[l] \/ \E q \in 1..o - 1 : MS!Covers(todo[q], k, l)
      <4>. HIDE DEF o
      <4>. QED
        BY <1>1, <3>1, <3>2 DEF MS!OrderedSoFar
    <3>4. ASSUME NEW q \in 1..o - 1, MS!Covers(todo[q], k, l)
          PROVE  MS!Whole[k] <= MS!Whole[l] \/ \E x \in 1..p - 1 : MS!Covers(todo'[x], k, l)
      <4>1. CASE q = 1
        <5>1. CASE \E x \in 1..n : MS!Covers(frames[x], k, l)
          <6>1. PICK x \in 1..n : MS!Covers(frames[x], k, l)
            BY <5>1
          <6>2. x <= n /\ x \in 1..n + m - 1 /\ x \in 1..p - 1
            BY ONLY <2>2, m > 0
          <6>3. todo'[x] = frames[x]
            BY <6>2
          <6>. QED
            BY <6>1, <6>2, <6>3
        <5>. QED
          BY <1>1, <3>4, <4>1, <5>1
      <4>2. CASE q # 1
        <5>1. /\ ~(q + n - 1 <= n) /\ q + n - 1 \in 1..n + m - 1
              /\ q + n - 1 \in 1..p - 1 /\ (q + n - 1) - n + 1 = q
          BY ONLY <2>2, <4>2, m > 0
        <5>2. todo'[q + n - 1] = todo[q]
          BY <5>1
        <5>. QED
          BY <3>4, <5>1, <5>2
      <4>. QED
        BY <4>1, <4>2
    <3>. QED
      BY <3>3, <3>4
  <2>. QED
    BY <2>1, <2>2
<1>2. \A p \in 1..Len(todo') + 1 : (p = 1 => copies' = <<>>) =>
        \A k, l \in 0..Length - 1 :
          k < l /\ (p \in DOMAIN todo' => todo'[p].op = "merge" /\ MS!InOneHalf(todo'[p], k, l))
          => MS!Whole'[k] <= MS!Whole'[l] \/ \E q \in 1..p - 1 : MS!Covers(todo'[q], k, l)
  BY <1>1
<1>. QED
  BY <1>2 DEF MS!OrderedSoFar, MS!InOneHalf, MS!Covers, MS!Mid

\* The end of merge: what it merged is in order.
LEMMA MergeMerged == MS!IInv /\ MS!Merged => MS!IInv'
<1>. SUFFICES ASSUME MS!IInv, MS!Merged PROVE MS!IInv'
  OBVIOUS
<1> DEFINE first == Head(todo).start
           last == Head(todo).end
           mid == MS!Mid(Head(todo))
           n == next.k
           j == next.j
           none == <<>>
           R == [op : {"sort", "merge"}, start : 0..Length - 1, end : 0..Length - 1]
<1>1. /\ copies # <<>> /\ next.k > last /\ todo' = Tail(todo)
      /\ copies' = <<>> /\ next' = <<>> /\ UNCHANGED <<input, array>>
  BY DEF MS!Merged
<1>2. /\ n \in first..last + 1 /\ n \in Nat /\ j \in Nat /\ j \in 0..last - mid /\ n > last
      /\ first \in Nat /\ last \in Nat /\ mid \in Nat /\ first <= mid /\ mid < last
      /\ last \in 0..Length - 1 /\ Length \in Nat /\ todo # <<>>
  BY <1>1, Merging
<1>3. MS!Nested /\ array \in [0..Length - 1 -> Element]
  BY DEF MS!IInv
<1>4. Head(todo) = todo[1] /\ todo \in Seq(R)
  BY <1>2, <1>3, MergeHead DEF MS!Nested
<1>5. todo' = none \o Tail(todo) /\ none \in Seq(R) /\ Len(none) = 0 /\ DOMAIN none = {}
  <2>. HIDE DEF R
  <2>. QED
    BY <1>1, <1>2, <1>4
<1>. HIDE DEF none
<1>6. /\ MS!Nested'
      /\ Len(todo) \in Nat /\ Len(todo) > 0 /\ DOMAIN todo = 1..Len(todo)
      /\ Len(todo') = 0 + Len(todo) - 1
      /\ DOMAIN todo' = 1..0 + Len(todo) - 1
      /\ \A p \in 1..0 + Len(todo) - 1 :
           todo'[p] = IF p <= 0 THEN none[p] ELSE todo[p - 0 + 1]
  <2>1. /\ \A p \in DOMAIN none :
             /\ none[p].start < none[p].end
             /\ todo[1].start <= none[p].start /\ none[p].end <= todo[1].end
        /\ \A p, q \in DOMAIN none :
             q < p => IF none[p].op = "sort"
                        THEN none[q].end < none[p].start \/ none[p].end < none[q].start
                        ELSE MS!InOneHalf(none[p], none[q].start, none[q].end)
    BY <1>5
  <2>2. none \in Seq([op : {"sort", "merge"}, start : 0..Length - 1, end : 0..Length - 1])
    BY <1>5
  <2>3. /\ MS!Nested'
        /\ Len(todo) \in Nat /\ Len(todo) > 0 /\ DOMAIN todo = 1..Len(todo)
        /\ Len(todo') = Len(none) + Len(todo) - 1
        /\ DOMAIN todo' = 1..Len(none) + Len(todo) - 1
        /\ \A p \in 1..Len(none) + Len(todo) - 1 :
             todo'[p] = IF p <= Len(none) THEN none[p] ELSE todo[p - Len(none) + 1]
    <3>. HIDE DEF R
    <3>. QED
      BY <1>2, <1>3, <1>5, <2>1, <2>2, CallsReplaced
  <2>. QED
    BY <1>5, <2>3
<1>7. MS!Copied'
  BY <1>1 DEF MS!Copied
<1>8. ASSUME MS!FewInfinities, MS!MergedSoFar, MS!OrderedSoFar, MS!OneInfinity,
             MS!Rearranged(MS!Whole, input, Length)
      PROVE  /\ MS!MergedSoFar' /\ MS!OrderedSoFar' /\ MS!OneInfinity'
             /\ MS!Rearranged(MS!Whole', input, Length)
  <2>1. /\ \A s \in first..n - 1 : array[s] = MS!Whole[s]
        /\ \A s, t \in first..last :
             s < t => MS!Whole[s] <= MS!Whole[t]
                      \/ (n <= s /\ s < mid + 1 + j /\ mid + 1 + j <= t)
    BY <1>1, <1>8 DEF MS!MergedSoFar
  <2>2. MS!Whole' = array
    BY <1>1 DEF MS!Whole
  <2>3. \A s \in 0..Length - 1 :
          MS!Whole[s] = IF s \in n..(mid + 1 + j) - 1 THEN copies.left[s - first - j]
                        ELSE IF s \in mid + 1 + j..last THEN copies.right[s - mid - 1]
                        ELSE array[s]
    BY <1>1, WholeArray
  <2>. HIDE DEF first, last, mid, n, j, R
  <2>4. ASSUME NEW s \in 0..Length - 1 PROVE MS!Whole[s] = array[s]
    <3>1. CASE s \in first..last
      <4>1. s \in first..n - 1
        BY ONLY <1>2, <3>1
      <4>. QED
        BY <2>1, <4>1
    <3>2. CASE s \notin first..last
      <4>1. s \notin n..(mid + 1 + j) - 1 /\ s \notin mid + 1 + j..last
        BY ONLY <1>2, <3>2
      <4>. QED
        BY <2>3, <4>1
    <3>. QED
      BY <3>1, <3>2
  <2>5. MS!Whole' = MS!Whole
    <3> DEFINE W == MS!Whole
    <3>1. W \in [0..Length - 1 -> Element] /\ \A s \in 0..Length - 1 : W[s] = array[s]
      BY <2>4, WholeType
    <3>2. W = array
      <4>. HIDE DEF W
      <4>. QED
        <5>1. W = [s \in 0..Length - 1 |-> W[s]] /\ array = [s \in 0..Length - 1 |-> array[s]]
          BY <1>3, <3>1
        <5>2. [s \in 0..Length - 1 |-> W[s]] = [s \in 0..Length - 1 |-> array[s]]
          BY <3>1
        <5>. QED
          BY ONLY <5>1, <5>2
    <3>. QED
      BY <2>2, <3>2
  <2>6. \A k, l \in 0..Length - 1 :
          k < l /\ MS!Covers(todo[1], k, l)
          => MS!Whole[k] <= MS!Whole[l] \/ \E q \in 1..0 : MS!Covers(none[q], k, l)
    <3>. SUFFICES ASSUME NEW k \in 0..Length - 1, NEW l \in 0..Length - 1, k < l,
                         MS!Covers(todo[1], k, l)
                  PROVE  MS!Whole[k] <= MS!Whole[l]
      OBVIOUS
    <3>1. first <= k /\ l <= last
      BY <1>4 DEF MS!Covers, first, last
    <3>2. k < l
      OBVIOUS
    <3>3. k \in first..last /\ l \in first..last /\ ~(n <= k)
      BY ONLY <1>2, <3>1, <3>2
    <3>. QED
      BY <2>1, <3>2, <3>3
  <2>7. MS!OrderedSoFar'
    <3>1. \A p \in 1..0 : none[p].op = "merge" =>
            \A k, l \in 0..Length - 1 :
              k < l /\ MS!InOneHalf(none[p], k, l)
              => \E q \in 1..p - 1 : MS!Covers(none[q], k, l)
      OBVIOUS
    <3> DEFINE o == 0
               m == Len(todo)
    <3>2. o \in Nat /\ m \in Nat /\ m > 0 /\ todo # <<>> /\ copies' = <<>>
      BY <1>1, <1>2, <1>6
    <3>3. /\ DOMAIN todo = 1..m /\ Len(todo) = m
          /\ DOMAIN todo' = 1..o + m - 1 /\ Len(todo') = o + m - 1
          /\ \A p \in 1..o + m - 1 : todo'[p] = IF p <= o THEN none[p] ELSE todo[p - o + 1]
      BY <1>6
    <3>4. \A k, l \in 0..Length - 1 :
            k < l /\ MS!Covers(todo[1], k, l)
            => MS!Whole[k] <= MS!Whole[l] \/ \E q \in 1..o : MS!Covers(none[q], k, l)
      BY <2>6
    <3>5. \A p \in 1..o : none[p].op = "merge" =>
            \A k, l \in 0..Length - 1 :
              k < l /\ MS!InOneHalf(none[p], k, l)
              => \E q \in 1..p - 1 : MS!Covers(none[q], k, l)
      BY <3>1
    <3>. HIDE DEF o, m
    <3>. QED
      BY <1>8, <2>5, <3>2, <3>3, <3>4, <3>5, CallsOrdered
  <2>8. MS!OneInfinity'
    BY <1>8, <2>5 DEF MS!OneInfinity
  <2>9. MS!MergedSoFar'
    BY <1>1 DEF MS!MergedSoFar
  <2>. QED
    BY <1>8, <2>5, <2>7, <2>8, <2>9
<1>9. MS!FewInfinities' <=> MS!FewInfinities
  BY <1>1 DEF MS!FewInfinities
<1>10. MS!Rearranged(MS!Whole', input', Length) <=> MS!Rearranged(MS!Whole', input, Length)
  BY <1>1
<1>. QED
  BY <1>1, <1>3, <1>6, <1>7, <1>8, <1>9, <1>10, MergeHelpers DEF MS!IInv

\* The two calls of merge_sort, and its call of merge behind them.
Parts(a, mid, e) ==
  MS!Sort(a, mid) \o MS!Sort(mid + 1, e) \o <<[op |-> "merge", start |-> a, end |-> e]>>

ArePartsOf(frames, a, e) ==
  /\ frames \in Seq([op : {"sort", "merge"}, start : 0..Length - 1, end : 0..Length - 1])
  /\ \A p \in DOMAIN frames :
       frames[p].start < frames[p].end /\ a <= frames[p].start /\ frames[p].end <= e
  /\ \A p, q \in DOMAIN frames :
       q < p => IF frames[p].op = "sort"
                  THEN frames[q].end < frames[p].start \/ frames[p].end < frames[q].start
                  ELSE MS!InOneHalf(frames[p], frames[q].start, frames[q].end)
  /\ \A p \in DOMAIN frames : frames[p].op = "merge" =>
       \A k, l \in 0..Length - 1 :
         k < l /\ MS!InOneHalf(frames[p], k, l) => \E q \in 1..p - 1 : MS!Covers(frames[q], k, l)
  /\ \A k, l \in 0..Length - 1 :
       a <= k /\ l <= e => \E q \in DOMAIN frames : MS!Covers(frames[q], k, l)

LEMMA ThreeCalls ==
  ASSUME NEW a \in Nat, NEW e \in Nat, a < e, e < Length
  PROVE  ArePartsOf(Parts(a, (a + e) \div 2, e), a, e)
<1> DEFINE R == [op : {"sort", "merge"}, start : 0..Length - 1, end : 0..Length - 1]
           mid == (a + e) \div 2
           x == [op |-> "sort", start |-> a, end |-> mid]
           y == [op |-> "sort", start |-> mid + 1, end |-> e]
           z == [op |-> "merge", start |-> a, end |-> e]
           frames == Parts(a, mid, e)
           Good ==
             /\ frames \in Seq(R)
             /\ \A p \in DOMAIN frames :
                  frames[p].start < frames[p].end /\ a <= frames[p].start /\ frames[p].end <= e
             /\ \A p, q \in DOMAIN frames :
                  q < p => IF frames[p].op = "sort"
                             THEN frames[q].end < frames[p].start \/ frames[p].end < frames[q].start
                             ELSE MS!InOneHalf(frames[p], frames[q].start, frames[q].end)
             /\ \A p \in DOMAIN frames : frames[p].op = "merge" =>
                  \A k, l \in 0..Length - 1 :
                    k < l /\ MS!InOneHalf(frames[p], k, l)
                    => \E q \in 1..p - 1 : MS!Covers(frames[q], k, l)
             /\ \A k, l \in 0..Length - 1 :
                  a <= k /\ l <= e => \E q \in DOMAIN frames : MS!Covers(frames[q], k, l)
<1>1. Length \in Nat
  BY MergeConstants
<1>2. mid \in Nat /\ a <= mid /\ mid < e
  OBVIOUS
<1>3. x \in R /\ z \in R /\ (mid + 1 < e => y \in R)
  <2>. HIDE DEF mid
  <2>1. /\ a \in 0..Length - 1 /\ mid \in 0..Length - 1 /\ e \in 0..Length - 1
        /\ mid + 1 \in 0..Length - 1
    BY <1>1, <1>2
  <2>. QED
    BY <2>1
<1>4. /\ x.op = "sort" /\ x.start = a /\ x.end = mid
      /\ y.op = "sort" /\ y.start = mid + 1 /\ y.end = e
      /\ z.op = "merge" /\ z.start = a /\ z.end = e
      /\ "sort" # "merge"
  OBVIOUS
<1>5. MS!Mid(z) = mid
  BY DEF MS!Mid
<1>6. frames = (IF a < mid THEN <<x>> ELSE <<>>) \o (IF mid + 1 < e THEN <<y>> ELSE <<>>) \o <<z>>
  BY DEF Parts, MS!Sort
<1>. HIDE DEF R, x, y, z, mid, frames
<1>7. /\ MS!InOneHalf(z, x.start, x.end)
      /\ MS!InOneHalf(z, y.start, y.end)
      /\ x.end < y.start
  BY <1>2, <1>4, <1>5 DEF MS!InOneHalf, MS!Covers
<1>8. ASSUME NEW k \in 0..Length - 1, NEW l \in 0..Length - 1, k < l, MS!InOneHalf(z, k, l)
      PROVE  (a < mid /\ MS!Covers(x, k, l)) \/ (mid + 1 < e /\ MS!Covers(y, k, l))
  BY <1>2, <1>4, <1>5, <1>8 DEF MS!InOneHalf, MS!Covers
<1>9. ASSUME NEW k \in 0..Length - 1, NEW l \in 0..Length - 1, a <= k, l <= e
      PROVE  MS!Covers(z, k, l)
  BY <1>4, <1>9 DEF MS!Covers
<1>10. a < e /\ a <= mid + 1 /\ mid <= e
  BY <1>2
<1>11. ASSUME a < mid /\ mid + 1 < e PROVE Good
  <2>1. /\ DOMAIN frames = 1..3 /\ frames[1] = x /\ frames[2] = y /\ frames[3] = z
        /\ frames \in Seq(R)
    <3> DEFINE two == <<x>> \o <<y>>
               one == <<z>>
    <3>1. frames = two \o one
      BY <1>6, <1>11
    <3>2. x \in R /\ y \in R /\ z \in R
      BY <1>3, <1>11
    <3>3. two \in Seq(R) /\ Len(two) = 2 /\ two[1] = x /\ two[2] = y
      BY ONLY <3>2
    <3>4. one \in Seq(R) /\ Len(one) = 1 /\ one[1] = z
      BY ONLY <3>2
    <3>. HIDE DEF two, one
    <3>5. /\ frames \in Seq(R) /\ Len(frames) = 3
          /\ \A p \in 1..3 : frames[p] = IF p <= 2 THEN two[p] ELSE one[p - 2]
      <4>1. /\ two \o one \in Seq(R) /\ Len(two \o one) = Len(two) + Len(one)
            /\ \A p \in 1..Len(two) + Len(one) :
                 (two \o one)[p] = IF p <= Len(two) THEN two[p] ELSE one[p - Len(two)]
        BY <3>3, <3>4, ConcatProperties, Zenon
      <4>. QED
        BY <3>1, <3>3, <3>4, <4>1
    <3>6. DOMAIN frames = 1..3
      BY ONLY <3>5
    <3>7. frames[1] = x /\ frames[2] = y /\ frames[3] = z
      BY ONLY <3>3, <3>4, <3>5
    <3>. QED
      BY ONLY <3>5, <3>6, <3>7
  <2>2. 1 \in 1..3 - 1 /\ 2 \in 1..3 - 1
    OBVIOUS
  <2>3. \A p \in 1..3 : p = 1 \/ p = 2 \/ p = 3
    OBVIOUS
  <2>4. \A p \in DOMAIN frames :
          frames[p].start < frames[p].end /\ a <= frames[p].start /\ frames[p].end <= e
    BY <1>2, <1>4, <1>10, <1>11, <2>1, <2>3
  <2>5. \A p, q \in DOMAIN frames :
          q < p => IF frames[p].op = "sort"
                     THEN frames[q].end < frames[p].start \/ frames[p].end < frames[q].start
                     ELSE MS!InOneHalf(frames[p], frames[q].start, frames[q].end)
    BY <1>4, <1>7, <2>1, <2>3
  <2>6. \A p \in DOMAIN frames : frames[p].op = "merge" =>
          \A k, l \in 0..Length - 1 :
            k < l /\ MS!InOneHalf(frames[p], k, l)
            => \E q \in 1..p - 1 : MS!Covers(frames[q], k, l)
    BY <1>4, <1>8, <2>1, <2>2, <2>3
  <2>7. \A k, l \in 0..Length - 1 :
          a <= k /\ l <= e => \E q \in DOMAIN frames : MS!Covers(frames[q], k, l)
    BY <1>9, <2>1
  <2>. QED
    BY <2>1, <2>4, <2>5, <2>6, <2>7
<1>12. ASSUME a < mid /\ ~(mid + 1 < e) PROVE Good
  <2>1. /\ DOMAIN frames = 1..2 /\ frames[1] = x /\ frames[2] = z /\ frames \in Seq(R)
    BY <1>3, <1>6, <1>12
  <2>2. 1 \in 1..2 - 1 /\ \A p \in 1..2 : p = 1 \/ p = 2
    OBVIOUS
  <2>3. \A p \in DOMAIN frames :
          frames[p].start < frames[p].end /\ a <= frames[p].start /\ frames[p].end <= e
    BY <1>2, <1>4, <1>10, <1>12, <2>1, <2>2
  <2>4. \A p, q \in DOMAIN frames :
          q < p => IF frames[p].op = "sort"
                     THEN frames[q].end < frames[p].start \/ frames[p].end < frames[q].start
                     ELSE MS!InOneHalf(frames[p], frames[q].start, frames[q].end)
    BY <1>4, <1>7, <2>1, <2>2
  <2>5. \A p \in DOMAIN frames : frames[p].op = "merge" =>
          \A k, l \in 0..Length - 1 :
            k < l /\ MS!InOneHalf(frames[p], k, l)
            => \E q \in 1..p - 1 : MS!Covers(frames[q], k, l)
    BY <1>4, <1>8, <1>12, <2>1, <2>2
  <2>6. \A k, l \in 0..Length - 1 :
          a <= k /\ l <= e => \E q \in DOMAIN frames : MS!Covers(frames[q], k, l)
    BY <1>9, <2>1
  <2>. QED
    BY <2>1, <2>3, <2>4, <2>5, <2>6
<1>13. ASSUME ~(a < mid) /\ mid + 1 < e PROVE Good
  <2>1. /\ DOMAIN frames = 1..2 /\ frames[1] = y /\ frames[2] = z /\ frames \in Seq(R)
    BY <1>3, <1>6, <1>13
  <2>2. 1 \in 1..2 - 1 /\ \A p \in 1..2 : p = 1 \/ p = 2
    OBVIOUS
  <2>3. \A p \in DOMAIN frames :
          frames[p].start < frames[p].end /\ a <= frames[p].start /\ frames[p].end <= e
    BY <1>2, <1>4, <1>10, <1>13, <2>1, <2>2
  <2>4. \A p, q \in DOMAIN frames :
          q < p => IF frames[p].op = "sort"
                     THEN frames[q].end < frames[p].start \/ frames[p].end < frames[q].start
                     ELSE MS!InOneHalf(frames[p], frames[q].start, frames[q].end)
    BY <1>4, <1>7, <2>1, <2>2
  <2>5. \A p \in DOMAIN frames : frames[p].op = "merge" =>
          \A k, l \in 0..Length - 1 :
            k < l /\ MS!InOneHalf(frames[p], k, l)
            => \E q \in 1..p - 1 : MS!Covers(frames[q], k, l)
    BY <1>4, <1>8, <1>13, <2>1, <2>2
  <2>6. \A k, l \in 0..Length - 1 :
          a <= k /\ l <= e => \E q \in DOMAIN frames : MS!Covers(frames[q], k, l)
    BY <1>9, <2>1
  <2>. QED
    BY <2>1, <2>3, <2>4, <2>5, <2>6
<1>14. ASSUME ~(a < mid) /\ ~(mid + 1 < e) PROVE Good
  <2>1. DOMAIN frames = 1..1 /\ frames[1] = z /\ frames \in Seq(R)
    BY <1>3, <1>6, <1>14
  <2>. QED
    BY <1>4, <1>8, <1>9, <1>10, <1>14, <2>1
<1>15. Good
  BY <1>11, <1>12, <1>13, <1>14
<1>. QED
  BY <1>15 DEF ArePartsOf, R, frames, mid

LEMMA MergeSplits == MS!IInv /\ MS!Split => MS!IInv'
<1>. SUFFICES ASSUME MS!IInv, MS!Split PROVE MS!IInv'
  OBVIOUS
<1> DEFINE a == Head(todo).start
           e == Head(todo).end
           mid == (a + e) \div 2
           frames == Parts(a, mid, e)
           R == [op : {"sort", "merge"}, start : 0..Length - 1, end : 0..Length - 1]
<1>1. /\ todo # <<>> /\ UNCHANGED <<input, array, copies, next>>
      /\ todo' = MS!Sort(a, MS!Mid(Head(todo))) \o MS!Sort(MS!Mid(Head(todo)) + 1, e)
                   \o <<[Head(todo) EXCEPT !.op = "merge"]>> \o Tail(todo)
      /\ Head(todo).op = "sort"
  BY DEF MS!Split, MS!Call
<1>2. copies = <<>>
  BY <1>1 DEF MS!IInv, MS!Copied, MS!Call
<1>3. MS!Nested /\ array \in [0..Length - 1 -> Element]
  BY DEF MS!IInv
<1>4. /\ Head(todo) = todo[1] /\ 1 \in DOMAIN todo /\ todo \in Seq(R)
      /\ a \in Nat /\ e \in Nat /\ e \in 0..Length - 1 /\ Length \in Nat
  BY <1>1, <1>3, MergeHead, MergeConstants DEF MS!Nested
<1>5. a < e /\ e < Length
  <2>1. a < e
    BY <1>3, <1>4 DEF MS!Nested
  <2>. QED
    BY <1>4, <2>1
<1>6. todo' = frames \o Tail(todo)
  <2>1. Head(todo) \in R
    <3>. HIDE DEF R
    <3>. QED
      BY <1>1, <1>4
  <2>2. [Head(todo) EXCEPT !.op = "merge"] = [op |-> "merge", start |-> a, end |-> e]
    BY <2>1
  <2>3. MS!Mid(Head(todo)) = mid
    BY DEF MS!Mid
  <2>4. todo' = MS!Sort(a, mid) \o MS!Sort(mid + 1, e)
                  \o <<[op |-> "merge", start |-> a, end |-> e]>> \o Tail(todo)
    <3>. HIDE DEF a, e, mid
    <3>. QED
      BY <1>1, <2>2, <2>3
  <2>. HIDE DEF a, e, mid
  <2>. QED
    BY ONLY <2>4 DEF Parts, frames
<1>7. ArePartsOf(frames, a, e)
  <2>. HIDE DEF a, e
  <2>. QED
    BY <1>4, <1>5, ThreeCalls
<1>. HIDE DEF frames, mid
<1>8. /\ frames \in Seq([op : {"sort", "merge"}, start : 0..Length - 1, end : 0..Length - 1])
      /\ \A p \in DOMAIN frames :
           /\ frames[p].start < frames[p].end
           /\ todo[1].start <= frames[p].start /\ frames[p].end <= todo[1].end
      /\ \A p, q \in DOMAIN frames :
           q < p => IF frames[p].op = "sort"
                      THEN frames[q].end < frames[p].start \/ frames[p].end < frames[q].start
                      ELSE MS!InOneHalf(frames[p], frames[q].start, frames[q].end)
  BY <1>4, <1>7 DEF ArePartsOf
<1>9. /\ MS!Nested'
      /\ Len(frames) \in Nat /\ Len(todo) \in Nat /\ Len(todo) > 0
      /\ DOMAIN frames = 1..Len(frames) /\ DOMAIN todo = 1..Len(todo)
      /\ Len(todo') = Len(frames) + Len(todo) - 1
      /\ DOMAIN todo' = 1..Len(frames) + Len(todo) - 1
      /\ \A p \in 1..Len(frames) + Len(todo) - 1 :
           todo'[p] = IF p <= Len(frames) THEN frames[p] ELSE todo[p - Len(frames) + 1]
  BY <1>1, <1>3, <1>6, <1>8, CallsReplaced
<1>10. /\ \A k, l \in 0..Length - 1 :
            k < l /\ MS!Covers(todo[1], k, l)
            => MS!Whole[k] <= MS!Whole[l] \/ \E q \in 1..Len(frames) : MS!Covers(frames[q], k, l)
       /\ \A p \in 1..Len(frames) : frames[p].op = "merge" =>
            \A k, l \in 0..Length - 1 :
              k < l /\ MS!InOneHalf(frames[p], k, l)
              => \E q \in 1..p - 1 : MS!Covers(frames[q], k, l)
  <2>1. \A k, l \in 0..Length - 1 : MS!Covers(todo[1], k, l) => a <= k /\ l <= e
    BY <1>4 DEF MS!Covers
  <2>. QED
    BY <1>7, <1>9, <2>1 DEF ArePartsOf
<1>11. copies' = <<>> /\ MS!Whole' = array /\ MS!Whole = array
  BY <1>1, <1>2 DEF MS!Whole
<1>12. MS!OrderedSoFar => MS!OrderedSoFar'
  <2> DEFINE n == Len(frames)
             m == Len(todo)
  <2>1. n \in Nat /\ m \in Nat /\ m > 0 /\ todo # <<>>
    BY <1>1, <1>9
  <2>2. /\ DOMAIN todo = 1..m /\ Len(todo) = m
        /\ DOMAIN todo' = 1..n + m - 1 /\ Len(todo') = n + m - 1
        /\ \A p \in 1..n + m - 1 : todo'[p] = IF p <= n THEN frames[p] ELSE todo[p - n + 1]
    BY <1>9
  <2>3. /\ \A k, l \in 0..Length - 1 :
             k < l /\ MS!Covers(todo[1], k, l)
             => MS!Whole[k] <= MS!Whole[l] \/ \E q \in 1..n : MS!Covers(frames[q], k, l)
        /\ \A p \in 1..n : frames[p].op = "merge" =>
             \A k, l \in 0..Length - 1 :
               k < l /\ MS!InOneHalf(frames[p], k, l)
               => \E q \in 1..p - 1 : MS!Covers(frames[q], k, l)
    BY <1>10
  <2>4. copies' = <<>> /\ MS!Whole' = MS!Whole
    BY <1>11
  <2>. HIDE DEF n, m
  <2>. QED
    BY <2>1, <2>2, <2>3, <2>4, CallsOrdered
<1>13. MS!Copied' /\ MS!MergedSoFar'
  BY <1>11 DEF MS!Copied, MS!MergedSoFar
<1>14. MS!OneInfinity => MS!OneInfinity'
  BY <1>11 DEF MS!OneInfinity
<1>15. MS!FewInfinities' <=> MS!FewInfinities
  BY <1>1 DEF MS!FewInfinities
<1>16. MS!Rearranged(MS!Whole, input, Length) => MS!Rearranged(MS!Whole', input', Length)
  BY <1>1, <1>11
<1>17. array' \in [0..Length - 1 -> Element]
  BY <1>1, <1>3
<1>18. MS!Rearranged(MS!Whole, input, Length)' <=> MS!Rearranged(MS!Whole', input', Length)
  BY MergeHelpers DEF Rearranged, Count, MS!Rearranged, MS!Count
<1>. QED
  BY <1>9, <1>12, <1>13, <1>14, <1>15, <1>16, <1>17, <1>18 DEF MS!IInv

LEMMA MergeIInvSuffices == MS!IInv => MS!TypeOK /\ MS!Sorts
<1>. SUFFICES ASSUME MS!IInv PROVE MS!TypeOK /\ MS!Sorts
  OBVIOUS
<1>1. ASSUME copies # <<>> PROVE next.i \in 0..Length /\ next.j \in DOMAIN copies.right
  <2> DEFINE first == Head(todo).start
             last == Head(todo).end
             mid == MS!Mid(Head(todo))
             k == next.k
             j == next.j
  <2>1. /\ k \in first..last + 1 /\ j \in 0..last - mid /\ next.i = k - first - j
        /\ first \in Nat /\ last \in Nat /\ mid \in Nat /\ first <= mid /\ mid < last
        /\ last \in 0..Length - 1 /\ Length \in Nat /\ next.i \in Nat
        /\ copies.right \in [0..last - mid -> Element]
    BY <1>1, Merging
  <2>2. /\ k \in first..last + 1 /\ j \in 0..last - mid /\ next.i = k - first - j
        /\ first \in Nat /\ last \in 0..Length - 1 /\ Length \in Nat /\ next.i \in Nat
    BY <2>1
  <2>. HIDE DEF first, last, mid, k, j
  <2>3. next.i <= Length
    BY ONLY <2>2
  <2>4. next.i \in 0..Length
    BY <2>2, <2>3
  <2>. QED
    BY <2>1, <2>4 DEF j
<1>2. ASSUME todo = <<>>, MS!FewInfinities
      PROVE  MS!InOrder(array, Length) /\ MS!Rearranged(array, input, Length)
  <2>1. copies = <<>>
    BY <1>2 DEF MS!IInv, MS!Copied, MS!Call
  <2>2. MS!Whole = array
    BY <2>1 DEF MS!Whole
  <2>3. Len(todo) = 0 /\ DOMAIN todo = {}
    BY <1>2
  <2>4. ASSUME NEW k \in 0..Length - 1, NEW l \in 0..Length - 1, k < l
        PROVE  array[k] <= array[l]
    <3>1. 1 \in 1..Len(todo) + 1 /\ 1 \notin DOMAIN todo /\ 1..1 - 1 = {}
      BY <2>3
    <3>. QED
      BY <1>2, <2>1, <2>2, <2>4, <3>1 DEF MS!IInv, MS!OrderedSoFar
  <2>. QED
    BY <1>2, <2>2, <2>4 DEF MS!IInv, MS!InOrder
<1>. QED
  BY <1>1, <1>2 DEF MS!IInv, MS!TypeOK, MS!Sorts

LEMMA MergeStays ==
  ASSUME MS!IInv, UNCHANGED <<input, array, todo, copies, next>>
  PROVE  MS!IInv'
<1>1. MS!Whole' = MS!Whole
  BY DEF MS!Whole
<1>2. MS!Nested'
  BY DEF MS!IInv, MS!Nested
<1>3. MS!Copied'
  BY DEF MS!IInv, MS!Copied, MS!Call
<1>4. MS!FewInfinities' <=> MS!FewInfinities
  BY DEF MS!FewInfinities
<1>5. MS!MergedSoFar => MS!MergedSoFar'
  BY <1>1 DEF MS!MergedSoFar
<1>6. MS!OrderedSoFar => MS!OrderedSoFar'
  BY <1>1 DEF MS!OrderedSoFar
<1>7. MS!OneInfinity => MS!OneInfinity'
  BY <1>1 DEF MS!OneInfinity
<1>8. MS!Rearranged(MS!Whole, input, Length) => MS!Rearranged(MS!Whole', input', Length)
  BY <1>1
<1>. QED
  BY <1>2, <1>3, <1>4, <1>5, <1>6, <1>7, <1>8, MergeHelpers DEF MS!IInv

\* While merge-sort runs, each step is one of it.
LEMMA MergeSortAlone ==
  [ProgramsNext]_vars =>
    /\ UNCHANGED program
    /\ program = "merge-sort" => MS!Next \/ UNCHANGED <<input, array, todo, copies, next>>
<1>1. ASSUME ProgramsNext
      PROVE  UNCHANGED program /\ (program = "merge-sort" => MS!Next)
  BY <1>1 DEF ProgramsNext, QueueStep, HeapSortStep, MergeSortStep, QuickSortStep,
              QsortStep, CutRodStep, UthashStep, ScsiStep, RetStep
<1>2. ASSUME UNCHANGED vars
      PROVE  UNCHANGED <<program, input, array, todo, copies, next>>
  BY <1>2 DEF vars, algorithms, arrays, merging
<1>. QED
  BY <1>1, <1>2

(* merge-sort.c sorts an array of any length in which INT_MAX, which is    *)
(* the sentinel of merge too, occurs once at most, and never reads behind  *)
(* the sentinel of r_array whatever the array holds.                       *)
THEOREM MergeSortSorts ==
  ProgramsSpec => [](program = "merge-sort" => MS!TypeOK /\ MS!Sorts)
<1> DEFINE Inv == program = "merge-sort" => MS!IInv
<1>1. ProgramsInit => Inv
  <2>1. ProgramsInit /\ program = "merge-sort" => MS!Init
    BY DEF ProgramsInit, RunsAlgorithm, RunsProbe, RunsQueue, RunsHeapSort, RunsMergeSort,
           RunsQuickSort, RunsQsort, RunsCutRod, RunsUthash
  <2>. QED
    BY <2>1, MergeInit
<1>2. Inv /\ [ProgramsNext]_vars => Inv'
  <2>. SUFFICES ASSUME program' = "merge-sort", Inv, [ProgramsNext]_vars PROVE MS!IInv'
    OBVIOUS
  <2>1. MS!IInv /\ (MS!Next \/ UNCHANGED <<input, array, todo, copies, next>>)
    BY MergeSortAlone
  <2>2. CASE MS!Next
    BY <2>1, <2>2, MergeSplits, MergeCopies, MergeTakes, MergeMerged DEF MS!Next
  <2>3. CASE UNCHANGED <<input, array, todo, copies, next>>
    BY <2>1, <2>3, MergeStays
  <2>. QED
    BY <2>1, <2>2, <2>3
<1>3. Inv => (program = "merge-sort" => MS!TypeOK /\ MS!Sorts)
  BY MergeIInvSuffices
<1>. QED
  BY <1>1, <1>2, <1>3, PTL DEF ProgramsSpec

(***************************************************************************)
(* clib-qsort.c. The comparison subtracts: while no difference overflows   *)
(* it is the order of the integers, or its reverse.                        *)
(***************************************************************************)

LEMMA QsortHelpers == \A a, b, n : CQ!Rearranged(a, b, n) <=> Rearranged(a, b, n)
<1>1. \A S : CQ!Cardinality(S) = Cardinality(S)
  BY Zenon DEF CQ!Cardinality, Cardinality
<1>. QED
  BY <1>1 DEF CQ!Rearranged, Rearranged, CQ!Count, Count

LEMMA QsortConstants == QsortLength \in Nat /\ Half \in Nat /\ Half > 0
BY ProgramsAssumption DEF ProgramsAssumption, CQ!QsortAssumption

\* A rearrangement holds nothing else.
LEMMA RearrangedHolds ==
  ASSUME NEW n, NEW a, NEW b, Rearranged(a, b, n)
  PROVE  \A s \in 0..n - 1 : \E t \in 0..n - 1 : a[s] = b[t]
<1>1. DOMAIN Count(a, n) = DOMAIN Count(b, n)
  BY DEF Rearranged
<1>. QED
  BY <1>1 DEF Count

\* A difference that does not overflow is what the comparison returns.
LEMMA WrapsNothing ==
  ASSUME NEW x \in Int, -Half <= x, x < Half
  PROVE  CQ!Wrap(x) = x
<1>1. Half \in Nat /\ Half > 0
  BY QsortConstants
<1>2. x + Half \in Nat /\ x + Half < 2 * Half /\ 2 * Half \in Nat /\ 2 * Half > 0
  BY <1>1
<1>3. \A y \in Nat, n \in Nat : n > 0 /\ y < n => y % n = y
  OBVIOUS
<1>4. (x + Half) % (2 * Half) = x + Half
  BY <1>2, <1>3
<1>. QED
  BY <1>1, <1>4 DEF CQ!Wrap

\* A rearrangement of the array that qsort may make, whatever it compares.
LEMMA QsortRearranges ==
  ASSUME array \in [0..QsortLength - 1 -> -Half..Half - 1],
         NEW p \in CQ!Bijection(0..QsortLength - 1, 0..QsortLength - 1),
         array' = [s \in 0..QsortLength - 1 |-> array[p[s]]]
  PROVE  /\ array' \in [0..QsortLength - 1 -> -Half..Half - 1]
         /\ Rearranged(array', array, QsortLength)
         /\ \A s \in 0..QsortLength - 1 : \E t \in 0..QsortLength - 1 : array'[s] = array[t]
<1> DEFINE n == QsortLength
           S == 0..n - 1
<1>3. /\ p \in [S -> S]
      /\ \A s, t \in S : p[s] = p[t] => s = t
      /\ \A t \in S : \E s \in S : p[s] = t
  BY DEF CQ!Bijection, CQ!Injection, CQ!Surjection, CQ!IsInjective
<1> DEFINE q == [t \in S |-> CHOOSE s \in S : p[s] = t]
<1>4. \A t \in S : q[t] \in S /\ p[q[t]] = t
  BY <1>3
<1>5. q \in [S -> S]
  BY <1>4
<1>. HIDE DEF q
<1>6. \A t \in S : q[p[t]] = t
  BY <1>3, <1>4
<1>7. Rearranged(array', array, n)
  <2>1. \A k \in 0..n - 1 : array'[k] = array[p[k]]
    OBVIOUS
  <2>2. n \in Nat
    BY QsortConstants
  <2>3. /\ p \in [0..n - 1 -> 0..n - 1] /\ q \in [0..n - 1 -> 0..n - 1]
        /\ \A k \in 0..n - 1 : p[q[k]] = k /\ q[p[k]] = k
    BY <1>3, <1>4, <1>5, <1>6
  <2>. HIDE DEF n
  <2>. QED
    BY <2>1, <2>2, <2>3, RearrangedBy
<1>8. array' \in [S -> -Half..Half - 1]
  BY <1>3
<1>9. \A s \in S : \E t \in S : array'[s] = array[t]
  BY <1>3
<1>. QED
  BY <1>7, <1>8, <1>9

\* Two elements of the array that are near each other in the input.
LEMMA QsortNear ==
  ASSUME CQ!IInv, CQ!Near, NEW s \in 0..QsortLength - 1, NEW t \in 0..QsortLength - 1
  PROVE  /\ array[s] \in Int /\ array[t] \in Int
         /\ array[s] \in -Half..Half - 1 /\ array[t] \in -Half..Half - 1
         /\ CQ!Wrap(array[s] - array[t]) = array[s] - array[t]
         /\ CQ!Wrap(array[t] - array[s]) = array[t] - array[s]
<1>1. /\ input \in [0..QsortLength - 1 -> -Half..Half - 1]
      /\ array \in [0..QsortLength - 1 -> -Half..Half - 1]
      /\ Rearranged(array, input, QsortLength)
      /\ Half \in Nat
  BY QsortHelpers, QsortConstants DEF CQ!IInv, CQ!TypeOK
<1>0. \A u \in 0..QsortLength - 1 : \E v \in 0..QsortLength - 1 : array[u] = input[v]
  <2>1. Rearranged(array, input, QsortLength)
    BY <1>1
  <2>. QED
    BY ONLY <2>1, RearrangedHolds
<1>2. PICK x \in 0..QsortLength - 1 : array[s] = input[x]
  BY <1>0
<1>3. PICK y \in 0..QsortLength - 1 : array[t] = input[y]
  BY <1>0
<1>4. array[s] - array[t] < Half /\ array[t] - array[s] < Half
  BY <1>2, <1>3 DEF CQ!Near
<1>5. array[s] \in -Half..Half - 1 /\ array[t] \in -Half..Half - 1
  BY <1>1
<1>6. /\ array[s] \in Int /\ array[t] \in Int
      /\ array[s] - array[t] \in Int /\ array[t] - array[s] \in Int
      /\ -Half <= array[s] - array[t] /\ -Half <= array[t] - array[s]
  <2>1. Half \in Nat
    BY <1>1
  <2>. QED
    BY ONLY <1>4, <1>5, <2>1
<1>. QED
  BY <1>4, <1>5, <1>6, WrapsNothing

LEMMA QsortInit == CQ!Init => CQ!IInv
<1>. SUFFICES ASSUME CQ!Init PROVE CQ!IInv
  OBVIOUS
<1>1. Rearranged(array, input, QsortLength)
  BY DEF CQ!Init, Rearranged
<1>2. phase = "ascend" /\ "ascend" # "descend" /\ "ascend" # "done"
  BY DEF CQ!Init
<1>3. CQ!Sorts
  BY <1>1, <1>2, QsortHelpers DEF CQ!Sorts
<1>. QED
  BY <1>1, <1>2, <1>3, QsortHelpers DEF CQ!Init, CQ!IInv, CQ!TypeOK

LEMMA QsortAscends ==
  ASSUME CQ!IInv, array' \in CQ!qsort("ascend_cmp")
  PROVE  /\ array' \in [0..QsortLength - 1 -> -Half..Half - 1]
         /\ Rearranged(array', array, QsortLength)
         /\ CQ!Near => \A s, t \in 0..QsortLength - 1 : s < t => array'[s] <= array'[t]
<1> DEFINE S == 0..QsortLength - 1
           cmp(a, b) == CQ!Call("ascend_cmp", a, b)
           Moved == {[s \in S |-> array[f[s]]] : f \in CQ!Bijection(S, S)}
           Order == \A s, t, u \in S :
                      /\ cmp(array[s], array[t]) <= 0 \/ cmp(array[t], array[s]) <= 0
                      /\ cmp(array[s], array[t]) <= 0 /\ cmp(array[t], array[u]) <= 0
                           => cmp(array[s], array[u]) <= 0
           Ordered(a) == \A s, t \in S : s < t => cmp(a[s], a[t]) <= 0
<1>1. array' \in Moved /\ (CQ!IsOrder("ascend_cmp", {array[s] : s \in S}) => Ordered(array'))
  <2> DEFINE IsSorted(a) == CQ!IsOrder("ascend_cmp", {array[s] : s \in S}) => Ordered(a)
  <2>1. array' \in {a \in Moved : IsSorted(a)}
    BY Zenon DEF CQ!qsort
  <2>. HIDE DEF Moved, IsSorted
  <2>2. array' \in Moved /\ IsSorted(array')
    BY <2>1
  <2>. QED
    BY <2>2 DEF IsSorted
<1>2. Order => CQ!IsOrder("ascend_cmp", {array[s] : s \in S})
  BY DEF CQ!IsOrder
<1>3. PICK p \in CQ!Bijection(S, S) : array' = [s \in S |-> array[p[s]]]
  <2>. HIDE DEF Ordered
  <2>1. array' \in Moved
    BY <1>1
  <2>. QED
    BY ONLY <2>1
<1>. HIDE DEF Moved, Order, Ordered, cmp
<1>4. /\ array' \in [0..QsortLength - 1 -> -Half..Half - 1]
      /\ Rearranged(array', array, QsortLength)
      /\ \A s \in S : \E t \in S : array'[s] = array[t]
  BY <1>3, QsortRearranges DEF CQ!IInv, CQ!TypeOK
<1>5. ASSUME CQ!Near, NEW s \in S, NEW t \in S
      PROVE  /\ cmp(array[s], array[t]) = array[s] - array[t]
             /\ array[s] \in Int /\ array[t] \in Int
  <2>1. /\ CQ!Wrap(array[s] - array[t]) = array[s] - array[t]
        /\ array[s] \in Int /\ array[t] \in Int
    BY <1>5, QsortNear
  <2>. QED
    BY ONLY <2>1 DEF cmp, CQ!Call, CQ!ascend_cmp
<1>6. ASSUME CQ!Near PROVE Order
  <2>. SUFFICES ASSUME NEW s \in S, NEW t \in S, NEW u \in S
                PROVE  /\ cmp(array[s], array[t]) <= 0 \/ cmp(array[t], array[s]) <= 0
                       /\ cmp(array[s], array[t]) <= 0 /\ cmp(array[t], array[u]) <= 0
                            => cmp(array[s], array[u]) <= 0
    BY DEF Order
  <2>1. /\ cmp(array[s], array[t]) = array[s] - array[t]
        /\ cmp(array[t], array[s]) = array[t] - array[s]
        /\ cmp(array[t], array[u]) = array[t] - array[u]
        /\ cmp(array[s], array[u]) = array[s] - array[u]
        /\ array[s] \in Int /\ array[t] \in Int /\ array[u] \in Int
    BY <1>5, <1>6
  <2>. QED
    BY ONLY <2>1
<1>7. ASSUME CQ!Near, NEW s \in S, NEW t \in S, s < t PROVE array'[s] <= array'[t]
  <2>1. PICK u \in S : array'[s] = array[u]
    BY <1>4
  <2>2. PICK v \in S : array'[t] = array[v]
    BY <1>4
  <2>3. /\ cmp(array[u], array[v]) = array[u] - array[v]
        /\ array[u] \in Int /\ array[v] \in Int
    BY <1>5, <1>7
  <2>4. cmp(array[u], array[v]) <= 0
    BY <1>1, <1>2, <1>6, <1>7, <2>1, <2>2 DEF Ordered
  <2>5. array[u] <= array[v]
    <3> DEFINE a == array[u]  b == array[v]  difference == cmp(array[u], array[v])
    <3>1. difference = a - b /\ a \in Int /\ b \in Int /\ difference <= 0
      BY ONLY <2>3, <2>4
    <3>. HIDE DEF a, b, difference
    <3>2. a <= b
      BY ONLY <3>1
    <3>. QED
      BY ONLY <3>2 DEF a, b
  <2>. QED
    BY <2>1, <2>2, <2>5
<1>. QED
  BY <1>4, <1>7

LEMMA QsortDescends ==
  ASSUME CQ!IInv, array' \in CQ!qsort("descend_cmp")
  PROVE  /\ array' \in [0..QsortLength - 1 -> -Half..Half - 1]
         /\ Rearranged(array', array, QsortLength)
         /\ CQ!Near => \A s, t \in 0..QsortLength - 1 : s < t => -array'[s] <= -array'[t]
<1> DEFINE S == 0..QsortLength - 1
           cmp(a, b) == CQ!Call("descend_cmp", a, b)
           Moved == {[s \in S |-> array[f[s]]] : f \in CQ!Bijection(S, S)}
           Order == \A s, t, u \in S :
                      /\ cmp(array[s], array[t]) <= 0 \/ cmp(array[t], array[s]) <= 0
                      /\ cmp(array[s], array[t]) <= 0 /\ cmp(array[t], array[u]) <= 0
                           => cmp(array[s], array[u]) <= 0
           Ordered(a) == \A s, t \in S : s < t => cmp(a[s], a[t]) <= 0
<1>1. array' \in Moved /\ (CQ!IsOrder("descend_cmp", {array[s] : s \in S}) => Ordered(array'))
  <2> DEFINE IsSorted(a) == CQ!IsOrder("descend_cmp", {array[s] : s \in S}) => Ordered(a)
  <2>1. array' \in {a \in Moved : IsSorted(a)}
    BY Zenon DEF CQ!qsort
  <2>. HIDE DEF Moved, IsSorted
  <2>2. array' \in Moved /\ IsSorted(array')
    BY <2>1
  <2>. QED
    BY <2>2 DEF IsSorted
<1>2. Order => CQ!IsOrder("descend_cmp", {array[s] : s \in S})
  BY DEF CQ!IsOrder
<1>3. PICK p \in CQ!Bijection(S, S) : array' = [s \in S |-> array[p[s]]]
  <2>. HIDE DEF Ordered
  <2>1. array' \in Moved
    BY <1>1
  <2>. QED
    BY ONLY <2>1
<1>. HIDE DEF Moved, Order, Ordered, cmp
<1>4. /\ array' \in [0..QsortLength - 1 -> -Half..Half - 1]
      /\ Rearranged(array', array, QsortLength)
      /\ \A s \in S : \E t \in S : array'[s] = array[t]
  BY <1>3, QsortRearranges DEF CQ!IInv, CQ!TypeOK
<1>5. ASSUME CQ!Near, NEW s \in S, NEW t \in S
      PROVE  /\ cmp(array[s], array[t]) = array[t] - array[s]
             /\ array[s] \in Int /\ array[t] \in Int
  <2>1. /\ CQ!Wrap(array[t] - array[s]) = array[t] - array[s]
        /\ array[s] \in Int /\ array[t] \in Int
    BY <1>5, QsortNear
  <2>. QED
    BY ONLY <2>1 DEF cmp, CQ!Call, CQ!descend_cmp
<1>6. ASSUME CQ!Near PROVE Order
  <2>. SUFFICES ASSUME NEW s \in S, NEW t \in S, NEW u \in S
                PROVE  /\ cmp(array[s], array[t]) <= 0 \/ cmp(array[t], array[s]) <= 0
                       /\ cmp(array[s], array[t]) <= 0 /\ cmp(array[t], array[u]) <= 0
                            => cmp(array[s], array[u]) <= 0
    BY DEF Order
  <2>1. /\ cmp(array[s], array[t]) = array[t] - array[s]
        /\ cmp(array[t], array[s]) = array[s] - array[t]
        /\ cmp(array[t], array[u]) = array[u] - array[t]
        /\ cmp(array[s], array[u]) = array[u] - array[s]
        /\ array[s] \in Int /\ array[t] \in Int /\ array[u] \in Int
    BY <1>5, <1>6
  <2>. QED
    BY ONLY <2>1
<1>7. ASSUME CQ!Near, NEW s \in S, NEW t \in S, s < t PROVE -array'[s] <= -array'[t]
  <2>1. PICK u \in S : array'[s] = array[u]
    BY <1>4
  <2>2. PICK v \in S : array'[t] = array[v]
    BY <1>4
  <2>3. /\ cmp(array[u], array[v]) = array[v] - array[u]
        /\ array[u] \in Int /\ array[v] \in Int
    BY <1>5, <1>7
  <2>4. cmp(array[u], array[v]) <= 0
    BY <1>1, <1>2, <1>6, <1>7, <2>1, <2>2 DEF Ordered
  <2>5. -array[u] <= -array[v]
    <3> DEFINE a == array[u]  b == array[v]  difference == cmp(array[u], array[v])
    <3>1. difference = b - a /\ a \in Int /\ b \in Int /\ difference <= 0
      BY ONLY <2>3, <2>4
    <3>. HIDE DEF a, b, difference
    <3>2. -a <= -b
      BY ONLY <3>1
    <3>. QED
      BY ONLY <3>2 DEF a, b
  <2>. QED
    BY <2>1, <2>2, <2>5
<1>. QED
  BY <1>4, <1>7

LEMMA QsortSteps == CQ!IInv /\ CQ!Next => CQ!IInv'
<1>. SUFFICES ASSUME CQ!IInv, input' = input,
                     \/ array' \in CQ!qsort("ascend_cmp") /\ phase' = "descend"
                     \/ array' \in CQ!qsort("descend_cmp") /\ phase' = "done"
              PROVE  CQ!IInv'
  BY DEF CQ!Next, CQ!SortAscending, CQ!SortDescending
<1>1. Rearranged(array, input, QsortLength)
  BY QsortHelpers DEF CQ!IInv
<1>2. /\ array' \in [0..QsortLength - 1 -> -Half..Half - 1]
      /\ Rearranged(array', array, QsortLength)
  BY QsortAscends, QsortDescends
<1>3. Rearranged(array', input', QsortLength)
  BY <1>1, <1>2, RearrangedFurther
<1>4. CQ!Near' <=> CQ!Near
  BY DEF CQ!Near
<1>5. phase' \in {"ascend", "descend", "done"} /\ "descend" # "done"
  OBVIOUS
<1>6. ASSUME CQ!Near, phase' = "descend"
      PROVE  \A s, t \in 0..QsortLength - 1 : s < t => array'[s] <= array'[t]
  BY <1>5, <1>6, QsortAscends
<1>7. ASSUME CQ!Near, phase' = "done"
      PROVE  \A s, t \in 0..QsortLength - 1 : s < t => -array'[s] <= -array'[t]
  BY <1>5, <1>7, QsortDescends
<1>8. CQ!Sorts'
  <2>1. ASSUME CQ!Near, phase' = "done"
        PROVE  CQ!InOrder([s \in 0..QsortLength - 1 |-> -array'[s]], QsortLength)
    BY <1>7, <2>1 DEF CQ!InOrder
  <2>2. ASSUME CQ!Near, phase' = "descend" PROVE CQ!InOrder(array', QsortLength)
    BY <1>6, <2>2 DEF CQ!InOrder
  <2>3. CQ!Rearranged(array', input', QsortLength)
    BY <1>3, QsortHelpers
  <2>4. CQ!Near => /\ phase' = "descend" => CQ!InOrder(array', QsortLength)
                   /\ phase' = "done" => CQ!InOrder([s \in 0..QsortLength - 1 |-> -array'[s]], QsortLength)
                   /\ CQ!Rearranged(array', input', QsortLength)
    BY <2>1, <2>2, <2>3
  <2>. QED
    BY <1>4, <2>4 DEF CQ!Sorts
<1>9. input' \in [0..QsortLength - 1 -> -Half..Half - 1]
  BY DEF CQ!IInv
<1>. QED
  BY <1>2, <1>3, <1>5, <1>8, <1>9, QsortHelpers DEF CQ!IInv, CQ!TypeOK

LEMMA QsortIInvSuffices == CQ!IInv => CQ!TypeOK /\ CQ!Sorts
BY DEF CQ!IInv

\* While clib-qsort runs, each step is one of it.
LEMMA QsortAlone ==
  [ProgramsNext]_vars =>
    /\ UNCHANGED program
    /\ program = "clib-qsort" => CQ!Next \/ UNCHANGED <<input, array, phase>>
<1>1. ASSUME ProgramsNext
      PROVE  UNCHANGED program /\ (program = "clib-qsort" => CQ!Next)
  BY <1>1 DEF ProgramsNext, QueueStep, HeapSortStep, MergeSortStep, QuickSortStep,
              QsortStep, CutRodStep, UthashStep, ScsiStep, RetStep
<1>2. ASSUME UNCHANGED vars PROVE UNCHANGED <<program, input, array, phase>>
  BY <1>2 DEF vars, algorithms, arrays
<1>. QED
  BY <1>1, <1>2

(* clib-qsort.c sorts an array of any length up and then down, unless two  *)
(* of its ints are so far apart that a comparison overflows.               *)
THEOREM QsortSorts ==
  ProgramsSpec => [](program = "clib-qsort" => CQ!TypeOK /\ CQ!Sorts)
<1> DEFINE Inv == program = "clib-qsort" => CQ!IInv
<1>1. ProgramsInit => Inv
  <2>1. ProgramsInit /\ program = "clib-qsort" => CQ!Init
    BY DEF ProgramsInit, RunsAlgorithm, RunsProbe, RunsQueue, RunsHeapSort, RunsMergeSort,
           RunsQuickSort, RunsQsort, RunsCutRod, RunsUthash
  <2>. QED
    BY <2>1, QsortInit
<1>2. Inv /\ [ProgramsNext]_vars => Inv'
  <2>. SUFFICES ASSUME program' = "clib-qsort", Inv, [ProgramsNext]_vars PROVE CQ!IInv'
    OBVIOUS
  <2>1. CQ!IInv /\ (CQ!Next \/ UNCHANGED <<input, array, phase>>)
    BY QsortAlone
  <2>2. CASE CQ!Next
    BY <2>1, <2>2, QsortSteps
  <2>3. CASE UNCHANGED <<input, array, phase>>
    BY <2>1, <2>3, QsortHelpers DEF CQ!IInv, CQ!TypeOK, CQ!Sorts, CQ!Near, CQ!InOrder
  <2>. QED
    BY <2>1, <2>2, <2>3
<1>3. Inv => (program = "clib-qsort" => CQ!TypeOK /\ CQ!Sorts)
  BY QsortIInvSuffices
<1>. QED
  BY <1>1, <1>2, <1>3, PTL DEF ProgramsSpec

(* Whichever program sorts, the array ends up in order and holds what it   *)
(* held, with the exceptions that SortsIntoOrder names.                    *)
THEOREM EverySortSorts == ProgramsSpec => []SortsIntoOrder
BY HeapSortSorts, MergeSortSorts, QuickSortSorts, QsortSorts, PTL DEF SortsIntoOrder
=============================================================================
