------------------------------- MODULE Uthash -------------------------------
(***************************************************************************)
(* The three uthash programs: add, find, delete, find, free all and find   *)
(* again. uthash.h is not in the repository; its table is a list of the    *)
(* nodes in the order they were added. malloc succeeds, and may return     *)
(* what has been freed.                                                    *)
(***************************************************************************)
EXTENDS Naturals, Sequences, SequencesExt

CONSTANTS
  Address,       \* of nodes; more of them than any program needs
  NULL

UthashAssumption == NULL \notin Address

VARIABLES
  keys,          \* the arrays of keys of the program that runs
  memory,        \* memory[n]: the node at n that is malloc'ed
  head_table,    \* the nodes that the table links
  test,          \* the position in main
  at,            \* the i of the test's loop
  el, tmp_table, \* of uthash_iter
  found          \* what the last uthash_find was for, and its outcome

tableVars == <<keys, memory, head_table, test, at, el, tmp_table, found>>

int_key == [add |-> <<5, 6, 7>>, find |-> <<5, 6, 7, 8>>, delete |-> <<6>>]

name_array == <<"you", "me", "others", "what the fuck">>

char_ptr_key ==
  [add |-> SubSeq(name_array, 1, 3), find |-> name_array, delete |-> <<"me">>]

char_array_key ==
  [add |-> SubSeq(name_array, 1, 3), find |-> name_array,
   delete |-> <<name_array[2]>>]

\* main
Tests == <<"add", "find", "delete", "find", "free", "find", "end">>

Init ==
  /\ keys = int_key \/ keys = char_ptr_key \/ keys = char_array_key
  /\ memory = [n \in {} |-> NULL]
  /\ head_table = <<>>
  /\ test = 1
  /\ at = 1
  /\ el = NULL
  /\ tmp_table = NULL
  /\ found = <<>>

In(name) == Tests[test] = name

\* The loop goes on, or main calls the next test.
Loop(last) ==
  IF at < last
    THEN at' = at + 1 /\ UNCHANGED test
    ELSE at' = 1 /\ test' = test + 1

\* Mutation: found anywhere in the table.
LookupAny(key) == IF head_table = <<>> THEN NULL ELSE Head(head_table)

\* uthash_find: the node, or NULL. No program adds a key twice.
Lookup(key) ==
  LET hits == {n \in ToSet(head_table) : memory[n].key = key}
  IN  IF hits = {} THEN NULL ELSE CHOOSE n \in hits : TRUE

\* uthash_delete
Unlinked(n) ==
  RemoveAt(head_table, CHOOSE p \in DOMAIN head_table : head_table[p] = n)

\* The node behind n in the table.
After(table, n) ==
  LET i == IF n = NULL THEN Len(table) ELSE CHOOSE j \in DOMAIN table : table[j] = n
  IN  IF i = Len(table) THEN NULL ELSE table[i + 1]

First(table) == IF table = <<>> THEN NULL ELSE Head(table)

Without(n) == [m \in DOMAIN memory \ {n} |-> memory[m]]

\* test_add
Add ==
  /\ In("add")
  /\ \E n \in Address \ DOMAIN memory :
       /\ memory' = [m \in DOMAIN memory \cup {n} |->
                       IF m = n THEN [key |-> keys.add[at], value |-> at] ELSE memory[m]]
       /\ head_table' = Append(head_table, n)
  /\ Loop(Len(keys.add))
  /\ UNCHANGED <<keys, el, tmp_table, found>>

\* test_find
Find ==
  LET user == Lookup(keys.find[at]) IN
  /\ In("find")
  /\ found' = [key |-> keys.find[at],
               value |-> IF user = NULL THEN NULL ELSE memory[user].value]
  /\ Loop(Len(keys.find))
  /\ UNCHANGED <<keys, memory, head_table, el, tmp_table>>

\* test_delete; when user is NULL, nothing goes.
Delete ==
  LET user == Lookup(keys.delete[at]) IN
  /\ In("delete")
  /\ IF user = NULL
       THEN UNCHANGED <<head_table, memory>>
       ELSE head_table' = Unlinked(user) /\ memory' = Without(user)
  /\ Loop(Len(keys.delete))
  /\ UNCHANGED <<keys, el, tmp_table, found>>

\* test_free_all: uthash_iter begins at the head.
Iterate ==
  /\ In("free")
  /\ el = NULL
  /\ el' = First(head_table)
  /\ tmp_table' = After(head_table, el')
  /\ IF el' = NULL THEN test' = test + 1 ELSE UNCHANGED test
  /\ UNCHANGED <<keys, memory, head_table, at, found>>

\* Mutation: the comment's case, freed but not taken out of the table.
FreeOnly ==
  /\ el # NULL
  /\ memory' = Without(el)
  /\ el' = tmp_table
  /\ tmp_table' = After(head_table, tmp_table)
  /\ IF el' = NULL THEN test' = test + 1 ELSE UNCHANGED test
  /\ UNCHANGED <<keys, head_table, at, found>>

\* One round of test_free_all, and on to the node that was saved before it.
FreeOne ==
  /\ el # NULL
  /\ head_table' = Unlinked(el)
  /\ memory' = Without(el)
  /\ el' = tmp_table
  /\ tmp_table' = After(head_table', tmp_table)
  /\ IF el' = NULL THEN test' = test + 1 ELSE UNCHANGED test
  /\ UNCHANGED <<keys, at, found>>

Next == Add \/ Find \/ Delete \/ Iterate \/ FreeOne

-----------------------------------------------------------------------------

TypeOK ==
  /\ DOMAIN memory \subseteq Address
  /\ test \in DOMAIN Tests
  /\ at \in 1..4
  /\ {el, tmp_table} \subseteq Address \cup {NULL}

(* The table links exactly the nodes that are malloc'ed, each once: none   *)
(* is lost, none is used after free (int-key-uthash.c:104), the iteration  *)
(* that frees them stands on live ones, and main leaves nothing behind.    *)
HoldsLive ==
  /\ IsInjective(head_table)
  /\ ToSet(head_table) = DOMAIN memory
  /\ {el, tmp_table} \ {NULL} \subseteq DOMAIN memory
  /\ In("end") => DOMAIN memory = {}

(* A key is found if and only if it was added and has not been deleted     *)
(* yet, with the value it was added with.                                  *)
Present(key) ==
  \/ test = 2 /\ key \in ToSet(keys.add)
  \/ test = 4 /\ key \in ToSet(keys.add) \ ToSet(keys.delete)

FindsWhatIsThere ==
  [][In("find") =>
       LET key == keys.find[at]
       IN  found' = [key |-> key,
                     value |-> IF Present(key)
                                 THEN CHOOSE p \in DOMAIN keys.add : keys.add[p] = key
                                 ELSE NULL]]_tableVars

-----------------------------------------------------------------------------
(* Why the table holds what is live: the inductive invariant               *)

\* Between two rounds of test_free_all el is the head of the table, and
\* tmp_table what is behind it.
IteratesFromHead ==
  IF el = NULL
    THEN tmp_table = NULL
    ELSE /\ In("free")
         /\ head_table # <<>>
         /\ el = head_table[1]
         /\ tmp_table = IF Len(head_table) = 1 THEN NULL ELSE head_table[2]

IInv ==
  /\ head_table \in Seq(Address)
  /\ IsInjective(head_table)
  /\ ToSet(head_table) = DOMAIN memory
  /\ test \in DOMAIN Tests
  /\ IteratesFromHead
  /\ test > 5 => head_table = <<>>

-----------------------------------------------------------------------------
(* Why a key is found exactly while it is there                            *)

Begun == keys \in {int_key, char_ptr_key, char_array_key}

\* A loop over an array stays in it; behind it at is 1 again.
InLoop ==
  /\ In("add") => at \in DOMAIN keys.add
  /\ In("find") => at \in DOMAIN keys.find
  /\ In("delete") => at \in DOMAIN keys.delete
  /\ In("free") => at = 1

\* The p'th key has been added and not been deleted yet.
Held(p) ==
  \/ test = 1 /\ p < at
  \/ test = 2
  \/ test = 3 /\ \A q \in 1..at - 1 : keys.delete[q] # keys.add[p]
  \/ test = 4 /\ \A q \in DOMAIN keys.delete : keys.delete[q] # keys.add[p]

\* Until they are freed, there is one node for each key that is held.
NodesHoldKeys ==
  test < 5 =>
    /\ \A n \in DOMAIN memory : \E p \in DOMAIN keys.add :
         Held(p) /\ memory[n] = [key |-> keys.add[p], value |-> p]
    /\ \A p \in DOMAIN keys.add :
         Held(p) => \E n \in DOMAIN memory : memory[n].value = p
    /\ \A n, m \in DOMAIN memory : memory[n].value = memory[m].value => n = m

FindsInv == IInv /\ InLoop /\ NodesHoldKeys
=============================================================================
