----------------------------- MODULE MergeSort ------------------------------
(***************************************************************************)
(* merge-sort.c. todo is the call stack: what is still to be sorted and    *)
(* merged, the next call first. Calls that find start >= end return at     *)
(* once, and are left out.                                                 *)
(***************************************************************************)
EXTENDS Arrays, Sequences, FiniteSetsExt

CONSTANTS
  Element,       \* every int
  Length

INT_MAX == Max(Element)

MergeSortAssumption ==
  /\ Element \subseteq Int
  /\ INT_MAX \in Element /\ \A e \in Element : e <= INT_MAX
  /\ Length \in Nat

VARIABLES
  input,
  array,
  todo,
  copies,        \* l_array and r_array during a merge
  next           \* i, j and k of merge

mergeSortVars == <<input, array, todo, copies, next>>

Sort(start, end) ==
  IF start < end THEN <<[op |-> "sort", start |-> start, end |-> end]>> ELSE <<>>

Off == copies = <<>> /\ next = <<>>

Init ==
  /\ input \in [0..Length - 1 -> Element]
  /\ array = input
  /\ todo = Sort(0, Length - 1)
  /\ Off

Call(op) == todo # <<>> /\ Head(todo).op = op

\* Integer division, so that the left half has the middle.
Mid(frame) == (frame.start + frame.end) \div 2

Split ==
  LET frame == Head(todo) IN
  /\ Call("sort")
  /\ todo' = Sort(frame.start, Mid(frame))
               \o Sort(Mid(frame) + 1, frame.end)
               \o <<[frame EXCEPT !.op = "merge"]>>
               \o Tail(todo)
  /\ UNCHANGED <<input, array, copies, next>>

\* Mutation: no sentinel behind the right half.
CopyWithout ==
  LET frame == Head(todo)
      llen == Mid(frame) - frame.start + 1
      rlen == frame.end - Mid(frame)
  IN
  /\ Call("merge")
  /\ copies = <<>>
  /\ copies' = [left  |-> [s \in 0..llen |->
                             IF s = llen THEN INT_MAX ELSE array[frame.start + s]],
                right |-> [s \in 0..rlen |->
                             IF s = rlen THEN 0 ELSE array[Mid(frame) + s + 1]]]
  /\ next' = [i |-> 0, j |-> 0, k |-> frame.start]
  /\ UNCHANGED <<input, array, todo>>

\* merge: l_array and r_array, with a sentinel each
Copy ==
  LET frame == Head(todo)
      llen == Mid(frame) - frame.start + 1
      rlen == frame.end - Mid(frame)
  IN
  /\ Call("merge")
  /\ copies = <<>>
  /\ copies' = [left  |-> [s \in 0..llen |->
                             IF s = llen THEN INT_MAX ELSE array[frame.start + s]],
                right |-> [s \in 0..rlen |->
                             IF s = rlen THEN INT_MAX ELSE array[Mid(frame) + s + 1]]]
  /\ next' = [i |-> 0, j |-> 0, k |-> frame.start]
  /\ UNCHANGED <<input, array, todo>>

\* Behind its end there is anything.
Read(copy, s) == IF s \in DOMAIN copy THEN {copy[s]} ELSE Element

\* merge: one round of the last loop
Take ==
  /\ copies # <<>>
  /\ next.k <= Head(todo).end
  /\ \E l \in Read(copies.left, next.i), r \in Read(copies.right, next.j) :
       IF l <= r
         THEN /\ array' = [array EXCEPT ![next.k] = l]
              /\ next' = [next EXCEPT !.i = @ + 1, !.k = @ + 1]
         ELSE /\ array' = [array EXCEPT ![next.k] = r]
              /\ next' = [next EXCEPT !.j = @ + 1, !.k = @ + 1]
  /\ UNCHANGED <<input, todo, copies>>

\* merge: free, free
Merged ==
  /\ copies # <<>>
  /\ next.k > Head(todo).end
  /\ todo' = Tail(todo)
  /\ copies' = <<>>
  /\ next' = <<>>
  /\ UNCHANGED <<input, array>>

Next == Split \/ Copy \/ Take \/ Merged

-----------------------------------------------------------------------------

TypeOK ==
  /\ array \in [0..Length - 1 -> Element]
  /\ copies # <<>> =>
       next.i \in 0..Length /\ next.j \in DOMAIN copies.right

FewInfinities == Cardinality({s \in 0..Length - 1 : input[s] = INT_MAX}) < 2

(* The sentinels are INT_MAX (infinity, says merge-sort.c:30), which an    *)
(* element may be too: if two are, a merge may run off the end of l_array. *)
(* Otherwise the array ends up in order and holds what it held.            *)
Sorts ==
  todo = <<>> /\ FewInfinities => InOrder(array, Length) /\ Rearranged(array, input, Length)

-----------------------------------------------------------------------------
(* Why the array is in order in the end: the inductive invariant           *)

Covers(frame, k, l) == frame.start <= k /\ l <= frame.end

InOneHalf(frame, k, l) ==
  Covers(frame, k, l) /\ (l <= Mid(frame) \/ Mid(frame) < k)

\* What a call has still to do before another lies beside it, and before a
\* merge in one of the halves.
Nested ==
  /\ todo \in Seq([op : {"sort", "merge"}, start : 0..Length - 1, end : 0..Length - 1])
  /\ \A p \in DOMAIN todo : todo[p].start < todo[p].end
  /\ \A p, q \in DOMAIN todo :
       q < p => IF todo[p].op = "sort"
                  THEN todo[q].end < todo[p].start \/ todo[p].end < todo[q].start
                  ELSE InOneHalf(todo[p], todo[q].start, todo[q].end)

\* What merge has put into the array, and what is left of l_array and, from
\* middle on, of r_array.
Whole ==
  IF copies = <<>> THEN array ELSE
    LET frame == Head(todo)
        middle == Mid(frame) + 1 + next.j
    IN [s \in 0..Length - 1 |->
          IF s \in next.k..middle - 1 THEN copies.left[s - frame.start - next.j]
          ELSE IF s \in middle..frame.end THEN copies.right[s - Mid(frame) - 1]
          ELSE array[s]]

Copied ==
  copies # <<>> =>
    LET frame == Head(todo)
        llen == Mid(frame) - frame.start + 1
        rlen == frame.end - Mid(frame)
    IN
    /\ Call("merge")
    /\ copies.left \in [0..llen -> Element] /\ copies.left[llen] = INT_MAX
    /\ copies.right \in [0..rlen -> Element] /\ copies.right[rlen] = INT_MAX
    /\ next \in [i : Nat, j : 0..rlen, k : frame.start..frame.end + 1]
    /\ next.i = next.k - frame.start - next.j

\* What is to be merged comes in order on each side, behind what has been.
MergedSoFar ==
  copies # <<>> =>
    LET frame == Head(todo)
        middle == Mid(frame) + 1 + next.j
    IN
    /\ next.k <= middle \/ next.k > frame.end
    /\ \A s \in frame.start..next.k - 1 : array[s] = Whole[s]
    /\ \A s, t \in frame.start..frame.end :
         s < t => Whole[s] <= Whole[t] \/ (next.k <= s /\ s < middle /\ middle <= t)

\* Two elements of one half of a merge to come are in order unless a call
\* before it has both; and so are two of the whole.
OrderedSoFar ==
  \A p \in 1..Len(todo) + 1 : (p = 1 => copies = <<>>) =>
    \A k, l \in 0..Length - 1 :
      k < l /\ (p \in DOMAIN todo => todo[p].op = "merge" /\ InOneHalf(todo[p], k, l))
      => Whole[k] <= Whole[l] \/ \E q \in 1..p - 1 : Covers(todo[q], k, l)

OneInfinity == \A s, t \in 0..Length - 1 : Whole[s] = INT_MAX /\ Whole[t] = INT_MAX => s = t

IInv ==
  /\ array \in [0..Length - 1 -> Element]
  /\ Nested
  /\ Copied
  /\ FewInfinities =>
       MergedSoFar /\ OrderedSoFar /\ OneInfinity /\ Rearranged(Whole, input, Length)
=============================================================================
