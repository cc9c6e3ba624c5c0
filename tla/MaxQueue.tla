------------------------------ MODULE MaxQueue ------------------------------
(* What a priority queue promises: what is taken out is the largest of     *)
(* what has been put in and is not out yet.                                *)
EXTENDS Integers

CONSTANT Key

VARIABLES
  held,      \* held[k]: how many k's are in the queue
  out        \* what was taken out last

Init ==
  /\ held \in [Key -> Nat]
  /\ out = 0

Insert(k) ==
  /\ held' = [held EXCEPT ![k] = @ + 1]
  /\ UNCHANGED out

ExtractMax(k) ==
  /\ held[k] > 0
  /\ \A other \in Key : held[other] > 0 => other <= k
  /\ held' = [held EXCEPT ![k] = @ - 1]
  /\ out' = k

Next == \E k \in Key : Insert(k) \/ ExtractMax(k)

Spec == Init /\ [][Next]_<<held, out>>
=============================================================================
