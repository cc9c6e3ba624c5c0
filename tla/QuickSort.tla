----------------------------- MODULE QuickSort ------------------------------
(***************************************************************************)
(* quick-sort.c. todo is what is still to be sorted, the next call first;  *)
(* calls that find begin >= end return at once, and are left out.          *)
(***************************************************************************)
EXTENDS Arrays, Sequences

CONSTANTS
  Element,
  Length

QuickSortAssumption == Element \subseteq Int /\ Length \in Nat

VARIABLES
  input,
  array,
  todo,
  cursor         \* left and right during a partition

quickSortVars == <<input, array, todo, cursor>>

Sort(begin, end) ==
  IF begin < end THEN <<[begin |-> begin, end |-> end]>> ELSE <<>>

Init ==
  /\ input \in [0..Length - 1 -> Element]
  /\ array = input
  /\ todo = Sort(0, Length - 1)
  /\ cursor = <<>>

\* partition: rand_range, the chosen element goes to the end.
Pick(rand_idx) ==
  /\ todo # <<>>
  /\ cursor = <<>>
  /\ rand_idx \in Head(todo).begin..Head(todo).end
  /\ array' = Swapped(array, rand_idx, Head(todo).end)
  /\ cursor' = [left |-> Head(todo).begin, right |-> Head(todo).begin]
  /\ UNCHANGED <<input, todo>>

\* partition: one round of the loop
Compare ==
  LET small == array[cursor.right] <= array[Head(todo).end] IN
  /\ cursor # <<>>
  /\ cursor.right < Head(todo).end
  /\ array' = IF small THEN Swapped(array, cursor.left, cursor.right) ELSE array
  /\ cursor' = [left |-> IF small THEN cursor.left + 1 ELSE cursor.left,
                right |-> cursor.right + 1]
  /\ UNCHANGED <<input, todo>>

\* Mutation: the other half has the middle too.
DivideBoth ==
  LET mid == cursor.left IN
  /\ cursor # <<>>
  /\ cursor.right = Head(todo).end
  /\ array' = Swapped(array, Head(todo).end, mid)
  /\ todo' = Sort(Head(todo).begin, mid) \o Sort(mid, Head(todo).end) \o Tail(todo)
  /\ cursor' = <<>>
  /\ UNCHANGED input

\* The end of partition, and the two calls of quiksort, the first of which
\* has the middle once more.
Divide ==
  LET mid == cursor.left IN
  /\ cursor # <<>>
  /\ cursor.right = Head(todo).end
  /\ array' = Swapped(array, Head(todo).end, mid)
  /\ todo' = Sort(Head(todo).begin, mid) \o Sort(mid + 1, Head(todo).end) \o Tail(todo)
  /\ cursor' = <<>>
  /\ UNCHANGED input

Next == (\E rand_idx \in 0..Length - 1 : Pick(rand_idx)) \/ Compare \/ Divide

\* The program goes on, and rand() gives every remainder again and again.
Fairness ==
  /\ WF_quickSortVars(Next)
  /\ \A rand_idx \in 0..Length - 1 : SF_quickSortVars(Pick(rand_idx))

Spec == Init /\ [][Next]_quickSortVars /\ Fairness

-----------------------------------------------------------------------------

TypeOK ==
  /\ array \in [0..Length - 1 -> Element]
  /\ cursor # <<>> =>
       /\ cursor.left \in Head(todo).begin..cursor.right
       /\ cursor.right \in Head(todo).begin..Head(todo).end

(* The array ends up in order and holds what it held, whatever rand gives. *)
Sorts ==
  todo = <<>> => InOrder(array, Length) /\ Rearranged(array, input, Length)

(* A call that gets the middle again sorts the same range once more when   *)
(* the middle is its end. Different elements end that some time.           *)
Different == \A s, t \in 0..Length - 1 : s # t => input[s] # input[t]

(* sort.md:3 of the course: quick sort takes O(n lg n), so it ends.        *)
Ends == <>(todo = <<>>)

-----------------------------------------------------------------------------
(* Why the array is in order in the end: the inductive invariant           *)

Span(frame) == frame.begin..frame.end

\* What is still to be sorted are ranges apart from one another.
RangesApart ==
  /\ todo \in Seq([begin : 0..Length - 1, end : 0..Length - 1])
  /\ \A p \in DOMAIN todo : todo[p].begin < todo[p].end
  /\ \A p, q \in DOMAIN todo :
       p # q => todo[p].end < todo[q].begin \/ todo[q].end < todo[p].begin

\* Two elements are in order unless one range has both.
OrderedApart ==
  \A k, l \in 0..Length - 1 :
    k < l => array[k] <= array[l] \/ \E p \in DOMAIN todo : {k, l} \subseteq Span(todo[p])

\* partition has passed what is not above the pivot, and behind it what is.
Parted ==
  cursor # <<>> =>
    LET frame == Head(todo) IN
    /\ todo # <<>>
    /\ cursor.left \in frame.begin..cursor.right
    /\ cursor.right \in Span(frame)
    /\ \A s \in frame.begin..cursor.left - 1 : array[s] <= array[frame.end]
    /\ \A s \in cursor.left..cursor.right - 1 : array[s] > array[frame.end]

IInv ==
  /\ array \in [0..Length - 1 -> Element]
  /\ Rearranged(array, input, Length)
  /\ RangesApart
  /\ OrderedApart
  /\ Parted
=============================================================================
