--------------------------- MODULE Programs_proofs --------------------------
(***************************************************************************)
(* Proofs about the other small programs, for any lengths, addresses,      *)
(* commands and calls, and what holds of all of them.                      *)
(***************************************************************************)
EXTENDS Sorting_proofs

(***************************************************************************)
(* Recursive functions on numbers, and the sequences that are put together *)
(* by one.                                                                 *)
(***************************************************************************)

(* Whatever is true of a natural number is true of a smallest one.         *)
LEMMA SmallestNumber ==
  ASSUME NEW S \in SUBSET Nat, S # {}
  PROVE  \E m \in S : \A n \in S : m <= n
<1>1. IsWellFoundedOn(OpToRel(<, Nat), Nat)
  BY ONLY NatLessThanWellFounded, Zenon
<1>2. PICK m \in S : \A n \in S : <<n, m>> \notin OpToRel(<, Nat)
  BY <1>1, WFMin
<1>3. \A n \in S : ~ (n < m)
  BY <1>2 DEF OpToRel
<1>. QED
  BY <1>3

(* What holds at the first number, and goes on from each to the next,      *)
(* holds up to the last.                                                   *)
LEMMA StepByStep ==
  ASSUME NEW m \in Nat, NEW n \in Nat, NEW Good, m \in Good,
         \A k \in m + 1..n : k - 1 \in Good => k \in Good
  PROVE  \A k \in m..n : k \in Good
<1> DEFINE Bad == (m..n) \ Good
<1>1. ASSUME Bad # {} PROVE FALSE
  <2>1. Bad \subseteq Nat
    OBVIOUS
  <2>2. PICK k \in Bad : \A l \in Bad : k <= l
    BY <1>1, <2>1, SmallestNumber
  <2>3. k \in m + 1..n /\ k - 1 \in m..n
    OBVIOUS
  <2>. QED
    BY <2>2, <2>3
<1>. QED
  BY <1>1

(* A function that each step computes from the one before.                 *)
Computed(f, S, base, N, step) ==
  /\ f \in [0..N -> S]
  /\ f[0] = base
  /\ \A n \in 1..N : f[n] = step[n][f[n - 1]]

LEMMA Recursion ==
  ASSUME NEW S, NEW base \in S, NEW N \in Nat, NEW step \in [1..N -> [S -> S]]
  PROVE  \E f : Computed(f, S, base, N, step)
<1> DEFINE UpTo(m) == \E f \in [0..m -> S] :
                        f[0] = base /\ \A n \in 1..m : f[n] = step[n][f[n - 1]]
           Good == {m \in 0..N : UpTo(m)}
<1>1. UpTo(0)
  <2> DEFINE f == [n \in 0..0 |-> base]
  <2>1. f \in [0..0 -> S] /\ f[0] = base /\ \A n \in 1..0 : f[n] = step[n][f[n - 1]]
    OBVIOUS
  <2>. HIDE DEF f
  <2>. QED
    BY <2>1
<1>2. ASSUME NEW m \in 0 + 1..N, UpTo(m - 1) PROVE UpTo(m)
  <2>1. PICK f \in [0..m - 1 -> S] :
          f[0] = base /\ \A n \in 1..m - 1 : f[n] = step[n][f[n - 1]]
    BY <1>2
  <2> DEFINE g == [n \in 0..m |-> IF n = m THEN step[m][f[m - 1]] ELSE f[n]]
  <2>2. g \in [0..m -> S]
    OBVIOUS
  <2>3. ASSUME NEW n \in 1..m PROVE g[n] = step[n][g[n - 1]]
    <3>1. CASE n = m
      BY <3>1
    <3>2. CASE n # m
      BY <2>1, <3>2
    <3>. QED
      BY <3>1, <3>2
  <2>4. g[0] = base
    BY <2>1
  <2>. QED
    BY <2>2, <2>3, <2>4
<1>. HIDE DEF UpTo
<1>3. 0 \in Good /\ \A m \in 0 + 1..N : m - 1 \in Good => m \in Good
  BY <1>1, <1>2
<1>4. N \in 0..N /\ (N \in Good => UpTo(N))
  OBVIOUS
<1>. HIDE DEF Good
<1>5. \A m \in 0..N : m \in Good
  BY <1>3, StepByStep
<1>. QED
  BY <1>4, <1>5 DEF UpTo, Computed

(* A sequence of sequences is put together one by one.                     *)
FlattenedBy(f, S, seqs, n) ==
  /\ f \in [1..n -> Seq(S)]
  /\ f[1] = seqs[1]
  /\ \A m \in 2..n : f[m] = f[m - 1] \o seqs[m]
  /\ SP!FlattenSeq(seqs) = f[n]

LEMMA Flattened ==
  ASSUME NEW S, NEW seqs \in Seq(Seq(S)), NEW n \in Nat, n > 0, Len(seqs) = n
  PROVE  \E f : FlattenedBy(f, S, seqs, n)
<1>1. n \in Nat /\ DOMAIN seqs = 1..n /\ \A m \in 1..n : seqs[m] \in Seq(S)
  BY LenProperties, ElementOfSeq
<1> DEFINE step == [m \in 1..n |-> [s \in Seq(S) |-> IF m = 1 THEN seqs[m] ELSE s \o seqs[m]]]
           Flattens(f) == f = [m \in 1..n |-> IF m = 1 THEN seqs[m] ELSE f[m - 1] \o seqs[m]]
<1>2. step \in [1..n -> [Seq(S) -> Seq(S)]]
  BY <1>1, ConcatProperties
<1>3. <<>> \in Seq(S)
  OBVIOUS
<1>. HIDE DEF step
<1>4. PICK g : Computed(g, Seq(S), <<>>, n, step)
  BY ONLY <1>1, <1>2, <1>3, Recursion
<1>5. g \in [0..n -> Seq(S)] /\ \A m \in 1..n : g[m] = step[m][g[m - 1]]
  BY <1>4 DEF Computed
<1>6. \A m \in 1..n : g[m] = IF m = 1 THEN seqs[m] ELSE g[m - 1] \o seqs[m]
  <2>. SUFFICES ASSUME NEW m \in 1..n
                PROVE  g[m] = IF m = 1 THEN seqs[m] ELSE g[m - 1] \o seqs[m]
    OBVIOUS
  <2>1. g[m - 1] \in Seq(S)
    BY <1>5
  <2>2. \A s \in Seq(S) : step[m][s] = IF m = 1 THEN seqs[m] ELSE s \o seqs[m]
    BY DEF step
  <2>. QED
    BY <1>5, <2>1, <2>2
<1>7. Flattens([m \in 1..n |-> g[m]])
  <2>1. \A m \in 2..n : [k \in 1..n |-> g[k]][m - 1] = g[m - 1]
    OBVIOUS
  <2>. QED
    BY <1>6, <2>1
<1> DEFINE f == CHOOSE f : Flattens(f)
<1>8. Flattens(f)
  BY <1>7
<1>9. SP!FlattenSeq(seqs) = f[n]
  BY <1>1 DEF SP!FlattenSeq
<1>. HIDE DEF f
<1>10. /\ \A U : (\A m \in 1..n : f[m] \in U) => f \in [1..n -> U]
       /\ f[1] = seqs[1] /\ \A m \in 2..n : f[m] = f[m - 1] \o seqs[m]
  <2> DEFINE h == [m \in 1..n |-> IF m = 1 THEN seqs[m] ELSE f[m - 1] \o seqs[m]]
  <2>1. f = h
    BY <1>8
  <2>2. /\ \A U : (\A m \in 1..n : h[m] \in U) => h \in [1..n -> U]
        /\ \A m \in 1..n : h[m] = IF m = 1 THEN seqs[m] ELSE f[m - 1] \o seqs[m]
    OBVIOUS
  <2>. HIDE DEF h
  <2>3. \A m \in 1..n : f[m] = IF m = 1 THEN seqs[m] ELSE f[m - 1] \o seqs[m]
    BY <2>1, <2>2
  <2>4. \A U : (\A m \in 1..n : f[m] \in U) => f \in [1..n -> U]
    BY <2>1, <2>2
  <2>5. f[1] = seqs[1]
    BY <2>3
  <2>6. \A m \in 2..n : f[m] = f[m - 1] \o seqs[m]
    <3>. SUFFICES ASSUME NEW m \in 2..n PROVE f[m] = f[m - 1] \o seqs[m]
      OBVIOUS
    <3>1. m \in 1..n /\ m # 1
      OBVIOUS
    <3>. QED
      BY <2>3, <3>1, Zenon
  <2>. QED
    BY ONLY <2>4, <2>5, <2>6
<1>. HIDE DEF Flattens
<1> DEFINE Typed == {m \in 1..n : f[m] \in Seq(S)}
<1>11. 1 \in Typed /\ \A m \in 1 + 1..n : m - 1 \in Typed => m \in Typed
  <2>1. ASSUME NEW m \in 1 + 1..n, f[m - 1] \in Seq(S) PROVE f[m] \in Seq(S)
    <3>1. m \in 2..n /\ m \in 1..n
      BY <1>1
    <3>2. f[m] = f[m - 1] \o seqs[m] /\ seqs[m] \in Seq(S)
      BY <1>1, <1>10, <3>1
    <3>. QED
      BY <2>1, <3>2, ConcatProperties
  <2>2. f[1] \in Seq(S) /\ 1 \in 1..n
    BY <1>1, <1>10
  <2>. QED
    BY <2>1, <2>2
<1>12. \A m \in Typed : f[m] \in Seq(S)
  OBVIOUS
<1>. HIDE DEF Typed
<1>13. \A m \in 1..n : m \in Typed
  BY <1>1, <1>11, StepByStep
<1>14. f \in [1..n -> Seq(S)]
  BY <1>10, <1>12, <1>13
<1>. QED
  BY <1>9, <1>10, <1>14 DEF FlattenedBy

(* Two sequences, one behind the other.                                    *)
Joined(u, s, t) ==
  /\ Len(s) \in Nat
  /\ Len(u) = Len(s) + Len(t)
  /\ \A j \in 1..Len(s) : u[j] = s[j]
  /\ \A j \in 1..Len(t) : u[Len(s) + j] = t[j]

LEMMA ConcatAt ==
  ASSUME NEW S, NEW s \in Seq(S), NEW t \in Seq(S)
  PROVE  Joined(s \o t, s, t)
<1> DEFINE u == s \o t
<1>1. Len(s) \in Nat /\ Len(t) \in Nat
  BY LenProperties
<1>2. /\ Len(u) = Len(s) + Len(t)
      /\ \A j \in 1..Len(s) + Len(t) : u[j] = IF j <= Len(s) THEN s[j] ELSE t[j - Len(s)]
  BY ConcatProperties
<1>3. ASSUME NEW j \in 1..Len(t) PROVE u[Len(s) + j] = t[j]
  <2>1. /\ Len(s) + j \in 1..Len(s) + Len(t)
        /\ ~(Len(s) + j <= Len(s)) /\ Len(s) + j - Len(s) = j
    BY <1>1
  <2>. QED
    BY <1>2, <2>1
<1>. QED
  BY <1>1, <1>2, <1>3 DEF Joined

(* What is in the r'th sequence comes behind all that is in those before.  *)
(* o says how much that is.                                                *)
Before(o, r, seqs) ==
  /\ o \in [1..r -> Nat]
  /\ o[1] = 0
  /\ \A q \in 2..r : o[q] = o[q - 1] + Len(seqs[q - 1])

FlatAt(seqs, p, x) ==
  p \in 1..Len(SP!FlattenSeq(seqs)) /\ SP!FlattenSeq(seqs)[p] = x

LEMMA FlattenedAt ==
  ASSUME NEW S, NEW seqs \in Seq(Seq(S)), NEW n \in Nat, n > 0, Len(seqs) = n,
         NEW r \in 1..n, NEW o, Before(o, r, seqs), NEW k \in 1..Len(seqs[r])
  PROVE  FlatAt(seqs, o[r] + k, seqs[r][k])
<1>. /\ o \in [1..r -> Nat]
     /\ o[1] = 0
     /\ \A q \in 2..r : o[q] = o[q - 1] + Len(seqs[q - 1])
  BY DEF Before
<1>1. /\ DOMAIN seqs = 1..n
      /\ \A q \in 1..n : seqs[q] \in Seq(S) /\ Len(seqs[q]) \in Nat
      /\ r \in Nat
  BY LenProperties, ElementOfSeq
<1>0. PICK f : FlattenedBy(f, S, seqs, n)
  BY Flattened
<1>2. /\ f \in [1..n -> Seq(S)]
      /\ f[1] = seqs[1]
      /\ \A m \in 2..n : f[m] = f[m - 1] \o seqs[m]
      /\ SP!FlattenSeq(seqs) = f[n]
  BY <1>0 DEF FlattenedBy
<1>3. ASSUME NEW m \in 2..n
      PROVE  /\ Len(f[m - 1]) \in Nat
             /\ Len(f[m]) = Len(f[m - 1]) + Len(seqs[m])
             /\ \A j \in 1..Len(f[m - 1]) : f[m][j] = f[m - 1][j]
             /\ \A j \in 1..Len(seqs[m]) : f[m][Len(f[m - 1]) + j] = seqs[m][j]
  <2>1. m - 1 \in 1..n /\ m \in 1..n
    OBVIOUS
  <2>2. f[m - 1] \in Seq(S) /\ Len(f[m - 1]) \in Nat
    BY <1>2, <2>1, LenProperties
  <2>3. seqs[m] \in Seq(S) /\ Len(seqs[m]) \in Nat
    BY <1>1, <2>1
  <2>4. Joined(f[m], f[m - 1], seqs[m])
    <3>1. f[m] = f[m - 1] \o seqs[m]
      BY <1>2
    <3>. QED
      BY ONLY <2>2, <2>3, <3>1, ConcatAt, Zenon
  <2>. QED
    BY <2>4 DEF Joined
<1> DEFINE Counted == {q \in 1..r : Len(f[q]) = o[q] + Len(seqs[q])}
<1>4. 1 \in Counted
  <2>1. 1 \in 1..r /\ 1 \in 1..n
    OBVIOUS
  <2>. QED
    BY <1>1, <1>2, <2>1
<1>5. ASSUME NEW q \in 1 + 1..r, q - 1 \in Counted PROVE q \in Counted
  <2>1. q \in 2..n /\ q \in 2..r /\ q \in 1..r /\ q - 1 \in 1..n
    OBVIOUS
  <2>2. Len(f[q]) = Len(f[q - 1]) + Len(seqs[q])
    BY <1>3, <2>1
  <2>3. Len(f[q - 1]) = o[q - 1] + Len(seqs[q - 1])
    BY <1>5
  <2>4. o[q] = o[q - 1] + Len(seqs[q - 1])
    BY <2>1
  <2>. QED
    BY <2>1, <2>2, <2>3, <2>4
<1>6. r \in Counted => Len(f[r]) = o[r] + Len(seqs[r])
  OBVIOUS
<1>. HIDE DEF Counted
<1>7. Len(f[r]) = o[r] + Len(seqs[r])
  <2>1. \A q \in 1..r : q \in Counted
    BY <1>1, <1>4, <1>5, StepByStep
  <2>. QED
    BY <1>6, <2>1
<1>8. o[r] \in Nat /\ o[r] + k \in 1..Len(f[r])
  BY <1>1, <1>7
<1>9. f[r][o[r] + k] = seqs[r][k]
  <2>1. CASE r = 1
    BY <1>2, <2>1
  <2>2. CASE r # 1
    <3>1. r \in 2..n /\ r \in 1..n
      BY <2>2
    <3>2. /\ Len(f[r - 1]) \in Nat /\ Len(seqs[r]) \in Nat
          /\ Len(f[r]) = Len(f[r - 1]) + Len(seqs[r])
          /\ f[r][Len(f[r - 1]) + k] = seqs[r][k]
      BY <1>1, <1>3, <3>1
    <3>3. Len(f[r - 1]) = o[r]
      <4>1. \A x, y, z \in Nat : x + y = z + y => x = z
        OBVIOUS
      <4>2. Len(f[r - 1]) + Len(seqs[r]) = o[r] + Len(seqs[r])
        BY <1>7, <3>2
      <4>. QED
        BY <1>8, <3>2, <4>1, <4>2, Zenon
    <3>. QED
      BY <3>2, <3>3
  <2>. QED
    BY <2>1, <2>2
<1>10. PICK p \in Nat : p = o[r] + k
  BY <1>8
<1> DEFINE Kept == {q \in r..n : p \in 1..Len(f[q]) /\ f[q][p] = seqs[r][k]}
<1>11. r \in Kept
  BY <1>8, <1>9, <1>10
<1>12. ASSUME NEW q \in r + 1..n, q - 1 \in Kept PROVE q \in Kept
  <2>1. q \in 2..n /\ q \in r..n /\ q \in 1..n
    OBVIOUS
  <2>2. p \in 1..Len(f[q - 1]) /\ f[q - 1][p] = seqs[r][k]
    BY <1>12
  <2>3. /\ Len(f[q - 1]) \in Nat /\ Len(seqs[q]) \in Nat
        /\ Len(f[q]) = Len(f[q - 1]) + Len(seqs[q])
        /\ f[q][p] = f[q - 1][p]
    BY <1>1, <1>3, <2>1, <2>2
  <2>4. p \in 1..Len(f[q])
    <3>1. \A a, b \in Nat : 1..a \subseteq 1..a + b
      OBVIOUS
    <3>. QED
      BY ONLY <2>2, <2>3, <3>1
  <2>. QED
    BY ONLY <2>1, <2>2, <2>3, <2>4
<1>13. n \in Kept => p \in 1..Len(f[n]) /\ f[n][p] = seqs[r][k]
  OBVIOUS
<1>. HIDE DEF Kept
<1>14. p \in 1..Len(f[n]) /\ f[n][p] = seqs[r][k]
  <2>1. \A q \in r..n : q \in Kept
    BY <1>1, <1>11, <1>12, StepByStep
  <2>. QED
    BY <1>13, <2>1
<1>. QED
  BY <1>2, <1>10, <1>14 DEF FlatAt

(***************************************************************************)
(* kprobe-scsi.c. First what check_scsi_data compares: expect_offset is    *)
(* where the sector is in the file.                                        *)
(***************************************************************************)

LEMMA FileType == SP!File \in Seq(Sector) /\ Sector \subseteq Nat
BY ProgramsAssumption DEF ProgramsAssumption, SP!ScsiAssumption

LEMMA FileLength == Len(SP!File) \in Nat
BY ProgramsAssumption, LenProperties DEF ProgramsAssumption, SP!ScsiAssumption

LEMMA RangeFacts ==
  /\ sec_range_arr \in Seq([min : Nat, max : Nat])
  /\ Len(sec_range_arr) \in Nat /\ DOMAIN sec_range_arr = 1..Len(sec_range_arr)
  /\ \A r \in DOMAIN sec_range_arr :
       /\ sec_range_arr[r].min \in Nat /\ sec_range_arr[r].max \in Nat
       /\ SP!Size(r) \in Nat /\ SP!Size(r) > 0
       /\ SP!Size(r) = sec_range_arr[r].max - sec_range_arr[r].min + 1
<1>1. /\ sec_range_arr \in Seq([min : Nat, max : Nat])
      /\ \A r \in DOMAIN sec_range_arr : sec_range_arr[r].min <= sec_range_arr[r].max
  BY ProgramsAssumption DEF ProgramsAssumption, SP!ScsiAssumption
<1>2. Len(sec_range_arr) \in Nat /\ DOMAIN sec_range_arr = 1..Len(sec_range_arr)
  BY <1>1, LenProperties
<1>3. ASSUME NEW r \in DOMAIN sec_range_arr
      PROVE  sec_range_arr[r].min \in Nat /\ sec_range_arr[r].max \in Nat
  <2>1. sec_range_arr[r] \in [min : Nat, max : Nat]
    BY <1>1, <1>2, ElementOfSeq
  <2>. QED
    BY <2>1
<1>. QED
  BY <1>1, <1>2, <1>3 DEF SP!Size

(* expect_offset counts what the ranges before hold.                       *)
LEMMA Offsets ==
  ASSUME NEW r \in DOMAIN sec_range_arr
  PROVE  \E o \in [1..r -> Nat] :
           /\ o[1] = 0
           /\ \A q \in 2..r : o[q] = o[q - 1] + SP!Size(q - 1)
           /\ \A sec : SP!ExpectOffset(r, sec) = o[r] + sec - sec_range_arr[r].min
<1>1. r \in Nat /\ r > 0 /\ \A q \in 2..r : q - 1 \in DOMAIN sec_range_arr
  BY RangeFacts
<1>2. \A q \in 2..r : SP!Size(q - 1) \in Nat
  BY <1>1, RangeFacts
<1> DEFINE step == [q \in 1..r |-> [s \in Nat |-> IF q = 1 THEN 0 ELSE s + SP!Size(q - 1)]]
           Counts(o) == o = [q \in 1..r |-> IF q = 1 THEN 0 ELSE o[q - 1] + SP!Size(q - 1)]
<1>3. step \in [1..r -> [Nat -> Nat]]
  BY <1>1, <1>2
<1>4. \A q \in 1..r, s \in Nat : step[q][s] = IF q = 1 THEN 0 ELSE s + SP!Size(q - 1)
  OBVIOUS
<1>. HIDE DEF step
<1>5. PICK g : Computed(g, Nat, 0, r, step)
  <2>1. 0 \in Nat
    OBVIOUS
  <2>. QED
    BY ONLY <1>1, <1>3, <2>1, Recursion
<1>6. g \in [0..r -> Nat] /\ \A q \in 1..r : g[q] = step[q][g[q - 1]]
  BY <1>5 DEF Computed
<1>7. \A q \in 1..r : g[q] = IF q = 1 THEN 0 ELSE g[q - 1] + SP!Size(q - 1)
  BY <1>1, <1>4, <1>6
<1>8. Counts([q \in 1..r |-> g[q]])
  <2>1. \A q \in 2..r : [p \in 1..r |-> g[p]][q - 1] = g[q - 1]
    BY <1>1
  <2>. QED
    BY <1>7, <2>1
<1> DEFINE o == CHOOSE o : Counts(o)
<1>9. Counts(o)
  BY <1>8
<1>10. \A sec : SP!ExpectOffset(r, sec) = o[r] + sec - sec_range_arr[r].min
  BY DEF SP!ExpectOffset
<1>. HIDE DEF o
<1>11. /\ \A U : (\A q \in 1..r : o[q] \in U) => o \in [1..r -> U]
       /\ \A q \in 1..r : o[q] = IF q = 1 THEN 0 ELSE o[q - 1] + SP!Size(q - 1)
  <2> DEFINE h == [q \in 1..r |-> IF q = 1 THEN 0 ELSE o[q - 1] + SP!Size(q - 1)]
  <2>1. o = h
    BY <1>9
  <2>2. /\ \A U : (\A q \in 1..r : h[q] \in U) => h \in [1..r -> U]
        /\ \A q \in 1..r : h[q] = IF q = 1 THEN 0 ELSE o[q - 1] + SP!Size(q - 1)
    OBVIOUS
  <2>. HIDE DEF h
  <2>. QED
    BY <2>1, <2>2
<1>. HIDE DEF Counts
<1> DEFINE Typed == {q \in 1..r : o[q] \in Nat}
<1>12. 1 \in Typed /\ \A q \in 1 + 1..r : q - 1 \in Typed => q \in Typed
  BY <1>1, <1>2, <1>11
<1>13. \A q \in Typed : o[q] \in Nat
  OBVIOUS
<1>. HIDE DEF Typed
<1>14. \A q \in 1..r : q \in Typed
  BY <1>1, <1>12, StepByStep
<1>15. o \in [1..r -> Nat]
  BY <1>11, <1>13, <1>14
<1>16. o[1] = 0 /\ \A q \in 2..r : o[q] = o[q - 1] + SP!Size(q - 1)
  BY <1>1, <1>11
<1>. QED
  BY <1>10, <1>15, <1>16

(* A sector of the file is where expect_offset says it is.                 *)
LEMMA FileAt ==
  ASSUME NEW r \in DOMAIN sec_range_arr, NEW sec \in Nat, SP!InRange(r, sec)
  PROVE  /\ SP!ExpectOffset(r, sec) + 1 \in 1..Len(SP!File)
         /\ SP!File[SP!ExpectOffset(r, sec) + 1] = sec
<1>1. PICK n \in Nat : n = Len(sec_range_arr) /\ n > 0 /\ DOMAIN sec_range_arr = 1..n
  <2>1. Len(sec_range_arr) \in Nat /\ DOMAIN sec_range_arr = 1..Len(sec_range_arr)
    BY RangeFacts
  <2>2. Len(sec_range_arr) > 0
    BY <2>1
  <2>. QED
    BY <2>1, <2>2
<1>2. \A q \in 1..n : sec_range_arr[q].min \in Nat /\ SP!Size(q) \in Nat
  BY <1>1, RangeFacts
<1>3. PICK seqs : seqs = [q \in 1..n |->
                           [k \in 1..SP!Size(q) |-> sec_range_arr[q].min + k - 1]]
  OBVIOUS
<1>4. SP!File = SP!FlattenSeq(seqs)
  BY <1>1, <1>3 DEF SP!File
<1>5. ASSUME NEW q \in 1..n
      PROVE  /\ seqs[q] \in Seq(Nat) /\ Len(seqs[q]) = SP!Size(q)
             /\ \A k \in 1..SP!Size(q) : seqs[q][k] = sec_range_arr[q].min + k - 1
  <2>1. seqs[q] = [k \in 1..SP!Size(q) |-> sec_range_arr[q].min + k - 1]
    BY <1>3
  <2>2. SP!Size(q) \in Nat
        /\ \A k \in 1..SP!Size(q) : sec_range_arr[q].min + k - 1 \in Nat
    BY <1>2
  <2>3. seqs[q] \in [1..SP!Size(q) -> Nat]
    BY <2>1, <2>2
  <2>4. seqs[q] \in Seq(Nat)
    BY ONLY <2>2, <2>3, SeqDef
  <2>5. Len(seqs[q]) = SP!Size(q)
    BY <2>2, <2>3, <2>4, LenProperties
  <2>. QED
    BY <2>1, <2>4, <2>5
<1>6. seqs \in Seq(Seq(Nat)) /\ Len(seqs) = n
  <2>1. seqs \in [1..n -> Seq(Nat)]
    BY <1>3, <1>5
  <2>2. seqs \in Seq(Seq(Nat))
    BY <2>1
  <2>. QED
    BY <2>1, <2>2, LenProperties
<1>7. r \in 1..n
  BY <1>1
<1>8. PICK o \in [1..r -> Nat] :
        /\ o[1] = 0
        /\ \A q \in 2..r : o[q] = o[q - 1] + SP!Size(q - 1)
        /\ \A s : SP!ExpectOffset(r, s) = o[r] + s - sec_range_arr[r].min
  BY Offsets
<1>9. \A q \in 2..r : o[q] = o[q - 1] + Len(seqs[q - 1])
  <2>. SUFFICES ASSUME NEW q \in 2..r PROVE o[q] = o[q - 1] + Len(seqs[q - 1])
    OBVIOUS
  <2>1. q - 1 \in 1..n
    BY <1>7
  <2>. QED
    BY <1>5, <1>8, <2>1
<1>10. PICK k \in Int : k = sec - sec_range_arr[r].min + 1
  BY <1>2, <1>7
<1>11. k \in 1..SP!Size(r)
  <2>1. /\ sec_range_arr[r].min \in Nat /\ sec_range_arr[r].max \in Nat
        /\ SP!Size(r) = sec_range_arr[r].max - sec_range_arr[r].min + 1
    BY RangeFacts
  <2>2. sec_range_arr[r].min <= sec /\ sec <= sec_range_arr[r].max
    BY DEF SP!InRange
  <2>. QED
    BY <1>10, <2>1, <2>2
<1>12. k \in 1..Len(seqs[r]) /\ seqs[r][k] = sec
  <2>1. Len(seqs[r]) = SP!Size(r) /\ seqs[r][k] = sec_range_arr[r].min + k - 1
    BY <1>5, <1>7, <1>11
  <2>2. sec_range_arr[r].min \in Nat
    BY <1>2, <1>7
  <2>3. sec_range_arr[r].min + k - 1 = sec
    BY ONLY <1>10, <2>2, sec \in Nat
  <2>. QED
    BY ONLY <1>11, <2>1, <2>3
<1>13. /\ o[r] + k \in 1..Len(SP!FlattenSeq(seqs))
       /\ SP!FlattenSeq(seqs)[o[r] + k] = seqs[r][k]
  <2>1. n > 0 /\ Len(seqs) = n /\ r \in 1..n /\ k \in 1..Len(seqs[r]) /\ o[1] = 0
    BY <1>1, <1>6, <1>7, <1>8, <1>12
  <2>2. seqs \in Seq(Seq(Nat)) /\ Before(o, r, seqs)
    BY <1>6, <1>8, <1>9 DEF Before
  <2>3. FlatAt(seqs, o[r] + k, seqs[r][k])
    BY ONLY <2>1, <2>2, FlattenedAt, Zenon
  <2>. QED
    BY <2>3 DEF FlatAt
<1>14. o[r] + k = SP!ExpectOffset(r, sec) + 1
  BY <1>2, <1>7, <1>8, <1>10
<1>. QED
  BY <1>4, <1>12, <1>13, <1>14

(* What expect_buf is compared with: sectors that follow one another in    *)
(* the file do so behind expect_offset, whichever ranges they belong to.   *)
LEMMA SectorsInFile ==
  ASSUME NEW r \in DOMAIN sec_range_arr, NEW sec \in Nat, NEW k \in Nat,
         SP!InRange(r, sec), sec + k \in SP!ToSet(SP!File),
         SP!Position(sec + k) = SP!Position(sec) + k
  PROVE  /\ SP!Position(sec + k) = SP!ExpectOffset(r, sec) + k + 1
         /\ SP!ExpectOffset(r, sec) + k + 1 \in 1..Len(SP!File)
         /\ SP!ExpectOffset(r, sec) \in Nat
<1>1. DOMAIN SP!File = 1..Len(SP!File) /\ SP!IsInjective(SP!File)
  BY ProgramsAssumption, LenProperties DEF ProgramsAssumption, SP!ScsiAssumption
<1>2. \A m, n \in 1..Len(SP!File) : SP!File[m] = SP!File[n] => m = n
  BY <1>1 DEF SP!IsInjective
<1>3. /\ SP!ExpectOffset(r, sec) + 1 \in 1..Len(SP!File)
      /\ SP!File[SP!ExpectOffset(r, sec) + 1] = sec
  BY FileAt
<1>4. SP!ExpectOffset(r, sec) \in Nat
  <2>1. PICK p \in [1..r -> Nat] :
          \A s : SP!ExpectOffset(r, s) = p[r] + s - sec_range_arr[r].min
    BY Offsets
  <2>2. p[r] \in Nat /\ sec_range_arr[r].min \in Nat
    BY RangeFacts
  <2>3. SP!ExpectOffset(r, sec) = p[r] + sec - sec_range_arr[r].min
    BY <2>1
  <2>4. \A x, y, z \in Nat : x + y - z \in Int
    OBVIOUS
  <2>5. SP!ExpectOffset(r, sec) \in Int
    BY ONLY <2>2, <2>3, <2>4, sec \in Nat
  <2>. QED
    BY <1>3, <2>5
<1>5. SP!Position(sec) = SP!ExpectOffset(r, sec) + 1
  BY <1>1, <1>2, <1>3 DEF SP!Position
<1>6. SP!Position(sec + k) \in 1..Len(SP!File)
  <2>1. \E n \in 1..Len(SP!File) : SP!File[n] = sec + k
    BY <1>1 DEF SP!ToSet
  <2>. QED
    BY <1>1, <2>1 DEF SP!Position
<1>7. SP!Position(sec + k) = SP!ExpectOffset(r, sec) + k + 1
  BY <1>4, <1>5
<1>. QED
  BY <1>4, <1>6, <1>7

(* A difference is reported of a command within the file if and only if    *)
(* some of its data are wrong.                                             *)
LEMMA ReportsDifference ==
  ASSUME NEW command \in SP!Command, SP!WithinFile(command), expect = Len(SP!File),
         command.wrong \subseteq command.sec..command.sec + command.len - 1,
         NEW report \in SP!CheckScsiData(command)
  PROVE  /\ report = "error" => command.wrong # {}
         /\ report = "equal" => command.wrong = {}
<1> DEFINE sec == command.sec
           ranges == {r \in DOMAIN sec_range_arr : SP!InRange(r, sec)}
           first == CHOOSE r \in ranges : \A q \in ranges : r <= q
<1>1. /\ command.sec \in Nat /\ command.len \in 1..2 /\ command.disk = "sda"
      /\ \A k \in 0..command.len - 1 :
           /\ sec + k \in SP!ToSet(SP!File)
           /\ SP!Position(sec + k) = SP!Position(sec) + k
  BY FileType DEF SP!Command, SP!WithinFile
<1>2. CASE ranges = {}
  BY <1>2 DEF SP!CheckScsiData
<1>3. SUFFICES ASSUME ranges # {}
               PROVE  /\ report = "error" => command.wrong # {}
                      /\ report = "equal" => command.wrong = {}
  BY <1>2
<1>4. first \in ranges
  <2>1. ranges \subseteq Nat
    BY RangeFacts
  <2>. QED
    BY <1>3, <2>1, SmallestNumber
<1>5. first \in DOMAIN sec_range_arr /\ SP!InRange(first, sec)
  BY <1>4
<1>6. SP!CheckScsiData(command) \subseteq
        {"none"} \cup {IF differs THEN "error" ELSE "equal" :
                         differs \in SP!MemCmp(command, first)}
  BY DEF SP!CheckScsiData
<1>. HIDE DEF ranges, first
<1>7. ASSUME NEW k \in 0..command.len - 1
      PROVE  /\ SP!ExpectBuf(SP!ExpectOffset(first, sec) + k)
                  = {SP!ExpectOffset(first, sec) + k + 1}
             /\ SP!Data(command, k) # SP!ExpectOffset(first, sec) + k + 1
                  <=> sec + k \in command.wrong
  <2>1. k \in Nat
    BY <1>1
  <2>2. /\ SP!Position(sec + k) = SP!ExpectOffset(first, sec) + k + 1
        /\ SP!ExpectOffset(first, sec) + k + 1 \in 1..Len(SP!File)
        /\ SP!ExpectOffset(first, sec) \in Nat
    BY <1>1, <1>5, <2>1, SectorsInFile
  <2>3. SP!ExpectBuf(SP!ExpectOffset(first, sec) + k)
          = {SP!ExpectOffset(first, sec) + k + 1}
    BY <2>1, <2>2, FileLength DEF SP!ExpectBuf
  <2>4. SP!Data(command, k) = IF sec + k \in command.wrong THEN SP!Foreign
                              ELSE SP!ExpectOffset(first, sec) + k + 1
    BY <1>1, <2>2 DEF SP!Data
  <2>5. SP!Foreign # SP!ExpectOffset(first, sec) + k + 1
    BY <2>1, <2>2 DEF SP!Foreign
  <2>. QED
    BY <2>3, <2>4, <2>5
<1>8. ASSUME NEW differs \in SP!MemCmp(command, first)
      PROVE  differs <=> command.wrong # {}
  <2>1. PICK buf \in [0..command.len - 1 -> 0..Len(SP!File) \cup {SP!Foreign}] :
          /\ \A k \in 0..command.len - 1 :
               buf[k] \in SP!ExpectBuf(SP!ExpectOffset(first, sec) + k)
          /\ differs = \E k \in 0..command.len - 1 : buf[k] # SP!Data(command, k)
    BY <1>8, Zenon DEF SP!MemCmp
  <2>2. \A k \in 0..command.len - 1 :
          buf[k] # SP!Data(command, k) <=> sec + k \in command.wrong
    BY <1>7, <2>1
  <2>3. command.wrong # {} <=> \E k \in 0..command.len - 1 : sec + k \in command.wrong
    <3>1. ASSUME NEW s \in command.wrong
          PROVE  s - sec \in 0..command.len - 1 /\ sec + (s - sec) = s
      BY <1>1, <3>1
    <3>. QED
      BY <3>1
  <2>. QED
    BY <2>1, <2>2, <2>3
<1>9. report = "none" \/ \E differs \in SP!MemCmp(command, first) :
        report = IF differs THEN "error" ELSE "equal"
  BY <1>6
<1>. QED
  BY <1>8, <1>9

(***************************************************************************)
(* SP!IInv is the inductive invariant: it says which probes are planted at *)
(* each step of the module, that a handler only runs for a probe that is,  *)
(* and that the data it compares with are there.                           *)
(***************************************************************************)

LEMMA ScsiInit == SP!Init => SP!IInv
BY FileLength
DEF SP!Init, SP!IInv, SP!TypeOK, SP!PlantedAt, SP!HandlersPlanted, SP!DataStay,
    SP!DataComplete, SP!WrongWithin, SP!ReportsOnlyWrongData

LEMMA ScsiLoadKeepsIInv ==
  ASSUME SP!IInv, \/ SP!Load \/ SP!ReadFails \/ SP!ReadExpectData
                  \/ SP!PlantWrite \/ SP!PlantWriteFails \/ SP!PlantRead
                  \/ SP!PlantReadFails
  PROVE  SP!IInv'
<1>1. UNCHANGED <<cmd, oops>> /\ lost \subseteq lost'
  BY DEF SP!Load, SP!ReadFails, SP!ReadExpectData, SP!PlantWrite, SP!PlantWriteFails,
         SP!PlantRead, SP!PlantReadFails, SP!Plant
<1>2. SP!DataStay'
  <2>. SUFFICES ASSUME mod' \notin {"out", "read"} PROVE file' /\ expect' > 0
    BY DEF SP!DataStay
  <2>1. CASE SP!ReadExpectData
    <3>1. file' = TRUE
      BY <2>1 DEF SP!ReadExpectData
    <3>2. expect' \in 1..Len(SP!File)
      BY <2>1 DEF SP!ReadExpectData
    <3>3. 1..Len(SP!File) \subseteq Nat \ {0}
      BY FileLength
    <3>4. expect' > 0
      BY <3>2, <3>3
    <3>. QED
      BY <3>1, <3>4
  <2>2. CASE ~SP!ReadExpectData
    <3>1. UNCHANGED <<file, expect>> /\ mod \notin {"out", "read"}
      BY <2>2 DEF SP!Load, SP!ReadFails, SP!PlantWrite, SP!PlantWriteFails,
                  SP!PlantRead, SP!PlantReadFails, SP!Plant
    <3>2. file /\ expect > 0
      BY <3>1 DEF SP!IInv, SP!DataStay
    <3>. QED
      BY <3>1, <3>2
  <2>. QED
    BY <2>1, <2>2
<1>3. SP!PlantedAt'
  BY DEF SP!IInv, SP!PlantedAt, SP!Load, SP!ReadFails, SP!ReadExpectData,
         SP!PlantWrite, SP!PlantWriteFails, SP!PlantRead, SP!PlantReadFails, SP!Plant
<1>4. planted \subseteq planted' \/ (planted = {"write"} /\ "probe" \in lost')
  BY DEF SP!IInv, SP!PlantedAt, SP!Load, SP!ReadFails, SP!ReadExpectData,
         SP!PlantWrite, SP!PlantWriteFails, SP!PlantRead, SP!PlantReadFails, SP!Plant
<1>5. SP!TypeOK'
  <2>1. expect' \in 0..Len(SP!File)
    <3>1. expect' \in {expect, 0} \cup 1..Len(SP!File)
      BY DEF SP!Load, SP!ReadFails, SP!ReadExpectData, SP!PlantWrite,
             SP!PlantWriteFails, SP!PlantRead, SP!PlantReadFails, SP!Plant
    <3>. QED
      BY <3>1, FileLength DEF SP!IInv, SP!TypeOK
  <2>2. planted' \subseteq planted \cup {"write", "read"}
        /\ lost' \subseteq lost \cup {"data", "file", "probe"}
    BY DEF SP!Load, SP!ReadFails, SP!ReadExpectData, SP!PlantWrite,
           SP!PlantWriteFails, SP!PlantRead, SP!PlantReadFails, SP!Plant
  <2>. QED
    BY <1>1, <2>1, <2>2 DEF SP!IInv, SP!TypeOK
<1>6. SP!HandlersPlanted'
  BY <1>1, <1>4 DEF SP!IInv, SP!HandlersPlanted
<1>7. SP!DataComplete'
  <2>. SUFFICES ASSUME mod' \notin {"out", "read"}, "data" \notin lost'
                PROVE  expect' = Len(SP!File)
    BY DEF SP!DataComplete
  <2>1. CASE SP!ReadExpectData
    <3>1. expect' \in 1..Len(SP!File) /\ ~(expect' < Len(SP!File))
      BY <2>1 DEF SP!ReadExpectData
    <3>. QED
      BY <3>1, FileLength
  <2>2. CASE ~SP!ReadExpectData
    <3>1. UNCHANGED expect /\ mod \notin {"out", "read"}
      BY <2>2 DEF SP!Load, SP!ReadFails, SP!PlantWrite, SP!PlantWriteFails,
                  SP!PlantRead, SP!PlantReadFails, SP!Plant
    <3>. QED
      BY <1>1, <3>1 DEF SP!IInv, SP!DataComplete
  <2>. QED
    BY <2>1, <2>2
<1>8. SP!WrongWithin' /\ SP!ReportsOnlyWrongData'
  BY <1>1 DEF SP!IInv, SP!WrongWithin, SP!ReportsOnlyWrongData
<1>. QED
  BY <1>1, <1>2, <1>3, <1>5, <1>6, <1>7, <1>8 DEF SP!IInv

\* kprobe_exit: unregister_kprobe waits for the handlers of its probe.
LEMMA ScsiUnloadKeepsIInv ==
  ASSUME SP!IInv, SP!Unload \/ SP!UnplantWrite \/ SP!UnplantRead \/ SP!Close
  PROVE  SP!IInv'
<1>1. UNCHANGED <<cmd, oops, expect, lost>>
  BY DEF SP!Unload, SP!UnplantWrite, SP!UnplantRead, SP!Close, SP!Unplant
<1>2. SP!DataStay'
  <2>. SUFFICES ASSUME mod' \notin {"out", "read"} PROVE file' /\ expect' > 0
    BY DEF SP!DataStay
  <2>1. UNCHANGED <<file, expect>> /\ mod \notin {"out", "read"}
    BY DEF SP!Unload, SP!UnplantWrite, SP!UnplantRead, SP!Close, SP!Unplant
  <2>2. file /\ expect > 0
    BY <2>1 DEF SP!IInv, SP!DataStay
  <2>. QED
    BY <2>1, <2>2
<1>3. SP!PlantedAt' /\ SP!HandlersPlanted'
  <2>1. SP!PlantedAt /\ SP!HandlersPlanted
    BY DEF SP!IInv
  <2>2. CASE SP!Unload \/ SP!Close
    BY <1>1, <2>1, <2>2 DEF SP!Unload, SP!Close, SP!PlantedAt, SP!HandlersPlanted
  <2>3. CASE SP!UnplantWrite
    <3>1. mod' = "unplant read" /\ planted' = planted \ {"write"} /\ mod = "unplant write"
          /\ \A c \in DOMAIN cmd : cmd[c].at # SP!Handler["write"]
      BY <2>3 DEF SP!UnplantWrite, SP!Unplant
    <3>2. SP!PlantedAt'
      BY <2>1, <3>1 DEF SP!PlantedAt
    <3>3. SP!HandlersPlanted'
      BY <1>1, <2>1, <3>1 DEF SP!HandlersPlanted
    <3>. QED
      BY <3>2, <3>3
  <2>4. CASE SP!UnplantRead
    <3>1. mod' = "close" /\ planted' = planted \ {"read"} /\ mod = "unplant read"
          /\ \A c \in DOMAIN cmd : cmd[c].at # SP!Handler["read"]
      BY <2>4 DEF SP!UnplantRead, SP!Unplant
    <3>2. SP!PlantedAt'
      BY <2>1, <3>1 DEF SP!PlantedAt
    <3>3. SP!HandlersPlanted'
      BY <1>1, <2>1, <3>1 DEF SP!HandlersPlanted
    <3>. QED
      BY <3>2, <3>3
  <2>. QED
    BY <2>2, <2>3, <2>4
<1>4. SP!TypeOK'
  BY <1>1 DEF SP!IInv, SP!TypeOK, SP!Unload, SP!UnplantWrite, SP!UnplantRead, SP!Close,
              SP!Unplant
<1>5. SP!DataComplete'
  BY <1>1 DEF SP!IInv, SP!DataComplete, SP!Unload, SP!UnplantWrite, SP!UnplantRead,
              SP!Close, SP!Unplant
<1>6. SP!WrongWithin' /\ SP!ReportsOnlyWrongData'
  BY <1>1 DEF SP!IInv, SP!WrongWithin, SP!ReportsOnlyWrongData
<1>. QED
  BY <1>1, <1>2, <1>3, <1>4, <1>5, <1>6 DEF SP!IInv

\* check_scsi_data reports one of three things.
LEMMA ReportType == \A command : SP!CheckScsiData(command) \subseteq {"none", "error", "equal"}
BY DEF SP!CheckScsiData

\* What the invariant says of a command.
Sound(command) ==
  /\ command \in SP!Command
  /\ SP!OwnSectors(command)
  /\ "data" \notin lost => SP!RightReport(command)

LEMMA CommandsSound == SP!IInv => \A c \in DOMAIN cmd : c \in Cmd /\ Sound(cmd[c])
BY DEF SP!IInv, SP!TypeOK, SP!WrongWithin, SP!ReportsOnlyWrongData, Sound

LEMMA MovedSound ==
  ASSUME NEW command, Sound(command),
         NEW then \in {"issued", "write_handler_pre", "queued", "read_handler_pre", "finished"}
  PROVE  /\ Sound([command EXCEPT !.at = then])
         /\ [command EXCEPT !.at = then].at = then
<1> DEFINE new == [command EXCEPT !.at = then]
<1>1. /\ new \in SP!Command /\ new.at = then
      /\ new.disk = command.disk /\ new.sec = command.sec /\ new.len = command.len
      /\ new.wrong = command.wrong /\ new.report = command.report
  BY DEF Sound, SP!Command
<1>. HIDE DEF new
<1>2. SP!OwnSectors(new)
  BY <1>1 DEF Sound, SP!OwnSectors
<1>3. SP!RightReport(command) => SP!RightReport(new)
  BY <1>1 DEF SP!RightReport, SP!WithinFile
<1>. QED
  BY <1>1, <1>2, <1>3 DEF Sound, new

LEMMA ReportSound ==
  ASSUME NEW command, Sound(command), NEW then \in {"queued", "finished"},
         NEW report \in {"none"} \cup SP!CheckScsiData(command),
         "data" \notin lost => expect = Len(SP!File)
  PROVE  /\ Sound([command EXCEPT !.at = then, !.report = report])
         /\ [command EXCEPT !.at = then, !.report = report].at = then
<1> DEFINE new == [command EXCEPT !.at = then, !.report = report]
<1>1. /\ new \in SP!Command /\ new.at = then
      /\ new.disk = command.disk /\ new.sec = command.sec /\ new.len = command.len
      /\ new.wrong = command.wrong /\ new.report = report
  BY ReportType DEF Sound, SP!Command
<1>. HIDE DEF new
<1>2. SP!OwnSectors(new)
  BY <1>1 DEF Sound, SP!OwnSectors
<1>3. ASSUME "data" \notin lost PROVE SP!RightReport(new)
  <2>1. ASSUME SP!WithinFile(new)
        PROVE  /\ report = "error" => command.wrong # {}
               /\ report = "equal" => command.wrong = {}
    <3>1. CASE report = "none"
      BY <3>1
    <3>2. CASE report \in SP!CheckScsiData(command)
      <4>1. SP!WithinFile(command)
        BY <1>1, <2>1 DEF SP!WithinFile
      <4>. QED
        BY <1>3, <3>2, <4>1, ReportsDifference DEF Sound, SP!OwnSectors
    <3>. QED
      BY <3>1, <3>2
  <2>2. ASSUME new.disk = "sdb" PROVE report = "none"
    BY <1>1, <2>2 DEF SP!CheckScsiData, SP!IsDev
  <2>. QED
    BY <1>1, <2>1, <2>2 DEF SP!RightReport
<1>. QED
  BY <1>1, <1>2, <1>3 DEF Sound, new

\* A planted probe has the data of its file.
LEMMA PlantedHasData ==
  ASSUME SP!IInv, planted # {}
  PROVE  "data" \notin lost => expect = Len(SP!File)
BY DEF SP!IInv, SP!PlantedAt, SP!DataComplete

\* The commands: a handler is entered where its probe is planted, and no
\* step of a command changes what is planted.
LEMMA ScsiCommandKeepsIInv ==
  ASSUME SP!IInv, ~oops,
         \/ \E c \in Cmd : SP!Issue(c)
         \/ \E c \in DOMAIN cmd :
              \/ SP!Dispatch(c) \/ SP!NoHandler(c) \/ SP!Refuse(c)
              \/ SP!WriteHandlerPre(c) \/ SP!Finish(c) \/ SP!ReadHandlerPre(c)
              \/ SP!Complete(c)
  PROVE  SP!IInv'
<1>1. UNCHANGED <<mod, file, expect, planted, lost>>
  BY DEF SP!Issue, SP!Dispatch, SP!NoHandler, SP!Refuse, SP!WriteHandlerPre, SP!Finish,
         SP!ReadHandlerPre, SP!Complete, SP!moduleVars
<1>2. oops' => "probe" \in lost
  BY DEF SP!Issue, SP!Dispatch, SP!NoHandler, SP!Refuse, SP!WriteHandlerPre, SP!Finish,
         SP!ReadHandlerPre, SP!Complete
<1>3. ASSUME NEW d \in DOMAIN cmd'
      PROVE  /\ d \in Cmd /\ Sound(cmd'[d])
             /\ \/ d \in DOMAIN cmd /\ cmd'[d] = cmd[d]
                \/ cmd'[d].at \in {"queued", "finished", "issued"}
                \/ cmd'[d].at = "write_handler_pre" /\ "write" \in planted
                \/ cmd'[d].at = "read_handler_pre" /\ "read" \in planted
  <2>1. CASE \E c \in Cmd : SP!Issue(c)
    <3>1. PICK c \in Cmd : SP!Issue(c)
      BY <2>1
    <3>2. PICK command : Sound(command) /\ SP!Set(c, command) /\ command.at = "issued"
      <4>1. PICK op \in {"write", "read", "other"}, disk \in {"sda", "sdaa", "sdb"},
                 sec \in Sector, length \in 1..2 :
              \E wrong \in SUBSET (SP!ToSet(SP!File) \cap (sec..sec + length - 1)) :
                SP!Set(c, [op |-> op, disk |-> disk, sec |-> sec, len |-> length,
                           wrong |-> wrong, at |-> "issued", report |-> "none"])
        BY <3>1, ZenonT(60) DEF SP!Issue
      <4>2. SP!ToSet(SP!File) \subseteq Sector
        BY FileType, ElementOfSeq, LenProperties DEF SP!ToSet
      <4>3. PICK command : 
              /\ SP!Set(c, command) /\ command \in SP!Command
              /\ command.wrong \subseteq command.sec..command.sec + command.len - 1
              /\ command.at = "issued" /\ command.report = "none"
        BY <4>1, <4>2 DEF SP!Command
      <4>. QED
        BY <4>3 DEF Sound, SP!OwnSectors, SP!RightReport
    <3>. QED
      BY <3>2, CommandsSound DEF SP!Set
  <2>2. CASE \E c \in DOMAIN cmd : SP!Complete(c)
    BY <2>2, CommandsSound DEF SP!Complete
  <2>3. CASE \E c \in DOMAIN cmd : SP!NoHandler(c)
    BY <2>3, CommandsSound DEF SP!NoHandler
  <2>4. ASSUME NEW c \in DOMAIN cmd, NEW new, Sound(new), SP!Set(c, new)
        PROVE  /\ d \in Cmd /\ Sound(cmd'[d])
               /\ \/ d \in DOMAIN cmd /\ cmd'[d] = cmd[d]
                  \/ cmd'[d].at = new.at
    BY <2>4, CommandsSound DEF SP!Set
  <2>5. CASE \E c \in DOMAIN cmd : SP!Dispatch(c) \/ SP!Refuse(c) \/ SP!Finish(c)
    <3>1. PICK c \in DOMAIN cmd : SP!Dispatch(c) \/ SP!Refuse(c) \/ SP!Finish(c)
      BY <2>5
    <3>2. PICK then \in {"issued", "write_handler_pre", "queued", "read_handler_pre",
                         "finished"} :
            /\ SP!Set(c, [cmd[c] EXCEPT !.at = then])
            /\ then = "write_handler_pre" => "write" \in planted
            /\ then = "read_handler_pre" => "read" \in planted
      BY <3>1 DEF SP!Dispatch, SP!Refuse, SP!Finish
    <3> DEFINE new == [cmd[c] EXCEPT !.at = then]
    <3>3. Sound(cmd[c])
      BY CommandsSound
    <3>4. Sound(new) /\ new.at = then
      BY <3>3, MovedSound
    <3>5. SP!Set(c, new)
      BY <3>2
    <3>. HIDE DEF new
    <3>6. /\ d \in Cmd /\ Sound(cmd'[d])
          /\ (d \in DOMAIN cmd /\ cmd'[d] = cmd[d]) \/ cmd'[d].at = then
      BY <2>4, <3>4, <3>5
    <3>. QED
      BY <3>2, <3>6
  <2>6. CASE \E c \in DOMAIN cmd : SP!WriteHandlerPre(c) \/ SP!ReadHandlerPre(c)
    <3>1. PICK c \in DOMAIN cmd : SP!WriteHandlerPre(c) \/ SP!ReadHandlerPre(c)
      BY <2>6
    <3>2. Sound(cmd[c])
      BY CommandsSound
    <3>3. "data" \notin lost => expect = Len(SP!File)
      <4>1. SP!Handler["write"] = "write_handler_pre" /\ SP!Handler["read"] = "read_handler_pre"
        BY DEF SP!Handler
      <4>2. planted # {}
        BY <3>1, <4>1 DEF SP!IInv, SP!HandlersPlanted, SP!WriteHandlerPre, SP!ReadHandlerPre
      <4>. QED
        BY <4>2, PlantedHasData
    <3>4. PICK new : Sound(new) /\ SP!Set(c, new) /\ new.at \in {"queued", "finished"}
      <4>1. CASE SP!WriteHandlerPre(c)
        <5>1. PICK report \in {"none"} \cup SP!CheckScsiData(cmd[c]) :
                SP!Set(c, [cmd[c] EXCEPT !.at = "queued", !.report = report])
          BY <4>1 DEF SP!WriteHandlerPre
        <5>. QED
          BY <3>2, <3>3, <5>1, ReportSound
      <4>2. CASE SP!ReadHandlerPre(c) /\ cmd[c].op = "read"
        <5>1. PICK report \in {"none"} \cup SP!CheckScsiData(cmd[c]) :
                SP!Set(c, [cmd[c] EXCEPT !.at = "finished", !.report = report])
          BY <4>2 DEF SP!ReadHandlerPre
        <5>. QED
          BY <3>2, <3>3, <5>1, ReportSound
      <4>3. CASE SP!ReadHandlerPre(c) /\ cmd[c].op # "read"
        BY <3>2, <4>3, MovedSound DEF SP!ReadHandlerPre
      <4>. QED
        BY <3>1, <4>1, <4>2, <4>3
    <3>. QED
      BY <2>4, <3>4
  <2>. QED
    BY <2>1, <2>2, <2>3, <2>5, <2>6
<1>4. SP!HandlersPlanted'
  <2>1. SP!Handler["write"] = "write_handler_pre" /\ SP!Handler["read"] = "read_handler_pre"
    BY DEF SP!Handler
  <2>. QED
    BY <1>1, <1>3, <2>1 DEF SP!IInv, SP!HandlersPlanted
<1>5. SP!PlantedAt' /\ SP!DataStay' /\ SP!DataComplete'
  BY <1>1 DEF SP!IInv, SP!PlantedAt, SP!DataStay, SP!DataComplete
<1>6. SP!TypeOK'
  BY <1>1, <1>3 DEF SP!IInv, SP!TypeOK, Sound
<1>7. SP!WrongWithin' /\ SP!ReportsOnlyWrongData'
  BY <1>1, <1>3 DEF SP!WrongWithin, SP!ReportsOnlyWrongData, Sound
<1>. QED
  BY <1>1, <1>2, <1>4, <1>5, <1>6, <1>7 DEF SP!IInv

LEMMA ScsiNextKeepsIInv == SP!IInv /\ [SP!Next]_scsi => SP!IInv'
<1>. SUFFICES ASSUME SP!IInv, [SP!Next]_scsi PROVE SP!IInv'
  OBVIOUS
<1>1. CASE SP!Next
  BY <1>1, ScsiLoadKeepsIInv, ScsiUnloadKeepsIInv, ScsiCommandKeepsIInv DEF SP!Next
<1>2. CASE UNCHANGED scsi
  BY <1>2 DEF scsi, SP!IInv, SP!TypeOK, SP!PlantedAt, SP!HandlersPlanted, SP!DataStay,
              SP!DataComplete, SP!WrongWithin, SP!ReportsOnlyWrongData
<1>. QED
  BY <1>1, <1>2

LEMMA ScsiIInvSuffices == SP!IInv => SP!ProbeHasCode
<1>. SUFFICES ASSUME SP!IInv PROVE SP!ProbeHasCode
  OBVIOUS
<1>1. ASSUME "probe" \notin lost, NEW probe \in {"write", "read"}, SP!Runs(probe)
      PROVE  mod \notin {"out", "read", SP!Planting[probe], "close"} /\ file /\ expect > 0
  <2>1. probe \in planted /\ SP!PlantedAt
    BY <1>1 DEF SP!IInv, SP!Runs, SP!HandlersPlanted
  <2>2. mod \notin {"out", "read", "close", SP!Planting[probe]}
    <3>1. SP!Planting["write"] = "plant write" /\ SP!Planting["read"] = "plant read"
      BY DEF SP!Planting
    <3>2. CASE probe = "write"
      BY <2>1, <3>1, <3>2 DEF SP!PlantedAt
    <3>3. CASE probe = "read"
      BY <2>1, <3>1, <3>3 DEF SP!PlantedAt
    <3>. QED
      BY <3>2, <3>3
  <2>3. file /\ expect > 0
    BY <2>2 DEF SP!IInv, SP!DataStay
  <2>. QED
    BY <2>2, <2>3
<1>. QED
  BY <1>1 DEF SP!IInv, SP!ProbeHasCode

LEMMA ProgramsStepScsi == [ProgramsNext]_vars => [SP!Next]_scsi
<1>1. ASSUME ProgramsNext PROVE SP!Next \/ UNCHANGED scsi
  BY <1>1 DEF ProgramsNext, QueueStep, HeapSortStep, MergeSortStep, QuickSortStep,
              QsortStep, CutRodStep, UthashStep, ScsiStep, RetStep, probes
<1>2. ASSUME UNCHANGED vars PROVE UNCHANGED scsi
  BY <1>2 DEF vars, probes
<1>. QED
  BY <1>1, <1>2

(* No handler of kprobe-scsi.c runs without the module it is in, its file  *)
(* and its data, whatever fails and whatever commands are under way, but   *)
(* for a load that could not plant its second probe (kprobe-scsi.c         *)
(* 282-291).                                                               *)
THEOREM ProbesKeepTheirCode == ProgramsSpec => []ProbeHasCode
<1>1. ProgramsInit => SP!Init
  BY DEF ProgramsInit, RunsAlgorithm, RunsProbe
<1>2. SP!IInv => ProbeHasCode
  BY ScsiIInvSuffices DEF ProbeHasCode
<1>. QED
  BY <1>1, <1>2, ScsiInit, ScsiNextKeepsIInv, ProgramsStepScsi, PTL DEF ProgramsSpec

(* A difference that is reported of data on the disk of the file is one,   *)
(* and none goes unreported, whatever ranges the file has and wherever     *)
(* commands meet loading and unloading, but after a load that read too     *)
(* little of the file (kprobe-scsi.c 132-197).                             *)
THEOREM ReportsAreRight == ProgramsSpec => []ReportsOnlyWrongData
<1>1. ProgramsInit => SP!Init
  BY DEF ProgramsInit, RunsAlgorithm, RunsProbe
<1>2. SP!IInv => ReportsOnlyWrongData
  BY DEF SP!IInv, ReportsOnlyWrongData
<1>. QED
  BY <1>1, <1>2, ScsiInit, ScsiNextKeepsIInv, ProgramsStepScsi, PTL DEF ProgramsSpec

(***************************************************************************)
(* The uthash programs. UT!IInv is the inductive invariant: the table is a *)
(* list without repetition of what is malloc'ed, and the iteration that    *)
(* frees it stands on its first two nodes.                                 *)
(***************************************************************************)

(* uthash_delete takes one node out.                                       *)
LEMMA UnlinkedProperties ==
  ASSUME head_table \in Seq(Address), UT!IsInjective(head_table),
         NEW n \in UT!ToSet(head_table)
  PROVE  /\ UT!Unlinked(n) \in Seq(Address)
         /\ Len(UT!Unlinked(n)) = Len(head_table) - 1
         /\ UT!IsInjective(UT!Unlinked(n))
         /\ UT!ToSet(UT!Unlinked(n)) = UT!ToSet(head_table) \ {n}
         /\ n = head_table[1] =>
              \A i0 \in 1..Len(head_table) - 1 : UT!Unlinked(n)[i0] = head_table[i0 + 1]
<1> DEFINE p == CHOOSE q \in DOMAIN head_table : head_table[q] = n
           L == Len(head_table)
           before == SubSeq(head_table, 1, p - 1)
           behind == SubSeq(head_table, p + 1, L)
           t == before \o behind
<1>1. L \in Nat /\ DOMAIN head_table = 1..L /\ \A k \in 1..L : head_table[k] \in Address
  BY LenProperties, ElementOfSeq
<1>2. p \in 1..L /\ head_table[p] = n
  BY <1>1 DEF UT!ToSet
<1>3. \A k, l \in 1..L : head_table[k] = head_table[l] => k = l
  BY <1>1 DEF UT!IsInjective
<1>4. UT!Unlinked(n) = t
  BY DEF UT!Unlinked, UT!RemoveAt
<1>. HIDE DEF p
<1>5. /\ before \in Seq(Address) /\ Len(before) = p - 1
      /\ \A k \in 1..p - 1 : before[k] = head_table[k]
  <2>1. 1 \in Int /\ p - 1 \in Int /\ \A k \in 1..p - 1 : head_table[k] \in Address
    BY <1>1, <1>2
  <2>. QED
    BY <1>2, <2>1, SubSeqProperties
<1>6. /\ behind \in Seq(Address) /\ Len(behind) = L - p
      /\ \A k \in 1..L - p : behind[k] = head_table[p + k]
  <2>1. p + 1 \in Int /\ L \in Int /\ \A k \in p + 1..L : head_table[k] \in Address
    BY <1>1, <1>2
  <2>2. /\ behind \in Seq(Address)
        /\ Len(behind) = IF p + 1 <= L THEN L - (p + 1) + 1 ELSE 0
        /\ \A k \in 1..L - (p + 1) + 1 : behind[k] = head_table[p + 1 + k - 1]
    BY <2>1, SubSeqProperties
  <2>3. L - (p + 1) + 1 = L - p
    BY <1>1, <1>2
  <2>4. Len(behind) = L - p
    <3>1. CASE p = L
      <4>1. ~(p + 1 <= L) /\ L - p = 0
        BY <1>1, <3>1
      <4>. QED
        BY <2>2, <4>1
    <3>2. CASE p # L
      <4>1. L \in Int /\ p \in Int /\ p <= L
        BY <1>1, <1>2
      <4>2. p + 1 <= L
        BY ONLY <3>2, <4>1
      <4>. QED
        BY <2>2, <2>3, <4>2
    <3>. QED
      BY <3>1, <3>2
  <2>5. ASSUME NEW k \in 1..L - p PROVE behind[k] = head_table[p + k]
    <3>1. p + 1 + k - 1 = p + k
      BY <1>1, <1>2
    <3>2. behind[k] = head_table[p + 1 + k - 1]
      BY <2>2, <2>3
    <3>. QED
      BY <3>1, <3>2
  <2>. QED
    BY <2>2, <2>4, <2>5
<1>. HIDE DEF before, behind
<1>7. /\ t \in Seq(Address) /\ Len(t) = L - 1
      /\ \A k \in 1..L - 1 : t[k] = IF k < p THEN head_table[k] ELSE head_table[k + 1]
  <2>1. /\ t \in Seq(Address) /\ Len(t) = Len(before) + Len(behind)
        /\ \A k \in 1..Len(before) + Len(behind) :
             t[k] = IF k <= Len(before) THEN before[k] ELSE behind[k - Len(before)]
    BY <1>5, <1>6, ConcatProperties
  <2>2. Len(before) + Len(behind) = L - 1
    BY <1>1, <1>2, <1>5, <1>6
  <2>3. ASSUME NEW k \in 1..L - 1, k < p PROVE t[k] = head_table[k]
    <3>1. k \in 1..p - 1 /\ k <= Len(before)
      BY <1>1, <1>2, <1>5, <2>3
    <3>. QED
      BY <1>5, <2>1, <2>2, <3>1
  <2>4. ASSUME NEW k \in 1..L - 1, ~(k < p) PROVE t[k] = head_table[k + 1]
    <3>1. /\ ~(k <= Len(before)) /\ k - Len(before) \in 1..L - p
          /\ p + (k - Len(before)) = k + 1
      BY <1>1, <1>2, <1>5, <2>4
    <3>2. t[k] = behind[k - Len(before)]
      BY <2>1, <2>2, <3>1
    <3>3. behind[k - Len(before)] = head_table[p + (k - Len(before))]
      BY <1>6, <3>1
    <3>. QED
      BY <3>1, <3>2, <3>3
  <2>. QED
    BY <2>1, <2>2, <2>3, <2>4
<1>. HIDE DEF t, L
<1>8. DOMAIN t = 1..L - 1
  BY <1>1, <1>7, LenProperties
<1>9. UT!IsInjective(t)
  BY <1>1, <1>2, <1>3, <1>7, <1>8 DEF UT!IsInjective
<1>10. UT!ToSet(t) = UT!ToSet(head_table) \ {n}
  <2>1. ASSUME NEW k \in 1..L - 1 PROVE t[k] \in UT!ToSet(head_table) \ {n}
    <3>1. PICK l \in 1..L : l # p /\ t[k] = head_table[l]
      <4>1. k \in 1..L /\ k + 1 \in 1..L /\ (k < p => k # p) /\ (~(k < p) => k + 1 # p)
        BY <1>1, <1>2
      <4>. QED
        BY <1>7, <4>1
    <3>. QED
      BY <1>1, <1>2, <1>3, <3>1 DEF UT!ToSet
  <2>2. ASSUME NEW k \in 1..L, k # p PROVE head_table[k] \in UT!ToSet(t)
    <3>1. CASE k < p
      BY <1>1, <1>2, <1>7, <1>8, <3>1 DEF UT!ToSet
    <3>2. CASE k > p
      <4>1. k - 1 \in 1..L - 1 /\ ~(k - 1 < p) /\ k - 1 + 1 = k
        BY <1>1, <1>2, <3>2
      <4>. QED
        BY <1>7, <1>8, <4>1 DEF UT!ToSet
    <3>. QED
      BY <1>2, <2>2, <3>1, <3>2
  <2>. QED
    BY <1>1, <1>2, <1>8, <2>1, <2>2 DEF UT!ToSet
<1>11. ASSUME n = head_table[1] PROVE \A k \in 1..L - 1 : t[k] = head_table[k + 1]
  <2>1. p = 1
    BY <1>1, <1>2, <1>3, <1>11
  <2>. QED
    BY <1>7, <2>1
<1>. QED
  BY <1>4, <1>7, <1>9, <1>10, <1>11 DEF L

\* In which test main is.
LEMMA TestNames ==
  ASSUME test \in DOMAIN UT!Tests
  PROVE  /\ test \in 1..7
         /\ UT!In("add") <=> test = 1
         /\ UT!In("delete") <=> test = 3
         /\ UT!In("free") <=> test = 5
         /\ UT!In("end") <=> test = 7
BY DEF UT!Tests, UT!In

LEMMA TableInit == UT!Init \/ TableOff => UT!IInv
<1>. SUFFICES ASSUME UT!Init \/ TableOff PROVE UT!IInv
  OBVIOUS
<1>1. head_table = <<>> /\ test = 1 /\ el = NULL /\ tmp_table = NULL /\ DOMAIN memory = {}
  BY DEF UT!Init, TableOff
<1>2. head_table \in Seq(Address) /\ DOMAIN head_table = {}
  BY <1>1, EmptySeq
<1>. QED
  BY <1>1, <1>2 DEF UT!IInv, UT!IteratesFromHead, UT!IsInjective, UT!ToSet, UT!Tests

LEMMA AddressNotNull == NULL \notin Address
BY ProgramsAssumption DEF ProgramsAssumption, UT!UthashAssumption

\* What is behind the head of a table.
LEMMA BehindTheHead ==
  ASSUME NEW list \in Seq(Address), UT!IsInjective(list), list # <<>>
  PROVE  UT!After(list, list[1]) = IF Len(list) = 1 THEN NULL ELSE list[2]
<1>1. Len(list) \in Nat /\ DOMAIN list = 1..Len(list) /\ Len(list) # 0
  BY LenProperties, EmptySeq
<1>2. 1 \in DOMAIN list /\ list[1] # NULL
  BY <1>1, ElementOfSeq, AddressNotNull
<1>3. (CHOOSE j \in DOMAIN list : list[j] = list[1]) = 1
  BY <1>2 DEF UT!IsInjective
<1>4. UT!After(list, list[1]) = IF 1 = Len(list) THEN NULL ELSE list[1 + 1]
  BY <1>2, <1>3 DEF UT!After
<1>. QED
  BY <1>4

LEMMA AddKeepsIInv == UT!IInv /\ UT!Add => UT!IInv'
<1>. SUFFICES ASSUME UT!IInv, UT!Add PROVE UT!IInv'
  OBVIOUS
<1>1. PICK n \in Address \ DOMAIN memory :
        /\ memory' = [m \in DOMAIN memory \cup {n} |->
                        IF m = n THEN [key |-> keys.add[at], value |-> at] ELSE memory[m]]
        /\ head_table' = Append(head_table, n)
  BY DEF UT!Add
<1>2. /\ test = 1 /\ test' \in {1, 2} /\ el = NULL /\ tmp_table = NULL
      /\ UNCHANGED <<el, tmp_table>>
  BY TestNames DEF UT!Add, UT!Loop, UT!IInv, UT!IteratesFromHead
<1>3. /\ head_table' \in Seq(Address) /\ Len(head_table) \in Nat
      /\ DOMAIN head_table = 1..Len(head_table)
      /\ DOMAIN head_table' = 1..Len(head_table) + 1
      /\ \A k \in 1..Len(head_table) : head_table'[k] = head_table[k]
      /\ head_table'[Len(head_table) + 1] = n
  BY <1>1, AppendProperties, LenProperties DEF UT!IInv
<1>4. \A k \in DOMAIN head_table : head_table[k] # n
  BY <1>1 DEF UT!IInv, UT!ToSet
<1>5. UT!IsInjective(head_table')
  BY <1>3, <1>4 DEF UT!IInv, UT!IsInjective
<1>6. UT!ToSet(head_table') = UT!ToSet(head_table) \cup {n}
  BY <1>3 DEF UT!ToSet
<1>7. DOMAIN memory' = DOMAIN memory \cup {n}
  BY <1>1
<1>8. test' \in DOMAIN UT!Tests /\ ~(test' > 5)
  BY <1>2 DEF UT!Tests
<1>. QED
  BY <1>2, <1>3, <1>5, <1>6, <1>7, <1>8 DEF UT!IInv, UT!IteratesFromHead

LEMMA FindKeepsIInv == UT!IInv /\ UT!Find => UT!IInv'
<1>. SUFFICES ASSUME UT!IInv, UT!Find PROVE UT!IInv'
  OBVIOUS
<1>1. /\ UNCHANGED <<memory, head_table, el, tmp_table>>
      /\ test \in {2, 4, 6} /\ test' \in {test, test + 1}
  BY DEF UT!Find, UT!Loop, UT!In, UT!IInv, UT!Tests
<1>2. test' \in DOMAIN UT!Tests /\ (test' > 5 => test > 5 \/ test' = 5)
  BY <1>1 DEF UT!Tests
<1>3. el = NULL
  BY <1>1, TestNames DEF UT!IInv, UT!IteratesFromHead
<1>. QED
  BY <1>1, <1>2, <1>3 DEF UT!IInv, UT!IteratesFromHead

LEMMA DeleteKeepsIInv == UT!IInv /\ UT!Delete => UT!IInv'
<1>. SUFFICES ASSUME UT!IInv, UT!Delete PROVE UT!IInv'
  OBVIOUS
<1> DEFINE user == UT!Lookup(keys.delete[at])
<1>1. /\ test = 3 /\ test' \in {3, 4} /\ el = NULL /\ tmp_table = NULL
      /\ UNCHANGED <<el, tmp_table>>
  BY TestNames DEF UT!Delete, UT!Loop, UT!IInv, UT!IteratesFromHead
<1>2. test' \in DOMAIN UT!Tests /\ ~(test' > 5) /\ UT!IteratesFromHead'
  BY <1>1 DEF UT!Tests, UT!IteratesFromHead
<1>3. user = NULL \/ user \in UT!ToSet(head_table)
  BY DEF UT!Lookup
<1>4. CASE user = NULL
  <2>1. UNCHANGED <<head_table, memory>>
    BY <1>4 DEF UT!Delete
  <2>. QED
    BY <1>2, <2>1 DEF UT!IInv
<1>5. CASE user # NULL
  <2>1. head_table' = UT!Unlinked(user) /\ DOMAIN memory' = DOMAIN memory \ {user}
    BY <1>5 DEF UT!Delete, UT!Without
  <2>2. /\ head_table' \in Seq(Address) /\ UT!IsInjective(head_table')
        /\ UT!ToSet(head_table') = UT!ToSet(head_table) \ {user}
    BY <1>3, <1>5, <2>1, UnlinkedProperties DEF UT!IInv
  <2>. QED
    BY <1>2, <2>1, <2>2 DEF UT!IInv
<1>. QED
  BY <1>4, <1>5

\* HASH_ITER begins: the head, and what is behind it.
LEMMA IterateKeepsIInv == UT!IInv /\ UT!Iterate => UT!IInv'
<1>. SUFFICES ASSUME UT!IInv, UT!Iterate PROVE UT!IInv'
  OBVIOUS
<1>1. /\ test = 5 /\ el' = UT!First(head_table) /\ tmp_table' = UT!After(head_table, el')
      /\ UNCHANGED <<memory, head_table>>
      /\ IF el' = NULL THEN test' = test + 1 ELSE UNCHANGED test
  BY TestNames DEF UT!Iterate, UT!IInv
<1>2. /\ Len(head_table) \in Nat /\ DOMAIN head_table = 1..Len(head_table)
      /\ \A k \in 1..Len(head_table) : head_table[k] \in Address
      /\ Len(head_table) = 0 => head_table = <<>>
  BY LenProperties, ElementOfSeq, EmptySeq DEF UT!IInv
<1>3. CASE head_table = <<>>
  <2>1. el' = NULL /\ tmp_table' = NULL /\ test' = 6
    BY <1>1, <1>3 DEF UT!First, UT!After
  <2>. QED
    BY <1>1, <1>3, <2>1 DEF UT!IInv, UT!IteratesFromHead, UT!Tests
<1>4. CASE head_table # <<>>
  <2>1. el' = head_table[1] /\ el' # NULL /\ test' = 5
    BY <1>1, <1>2, <1>4, AddressNotNull DEF UT!First
  <2>2. tmp_table' = IF Len(head_table) = 1 THEN NULL ELSE head_table[2]
    BY <1>1, <1>4, <2>1, BehindTheHead DEF UT!IInv
  <2>. QED
    BY <1>1, <1>4, <2>1, <2>2 DEF UT!IInv, UT!IteratesFromHead, UT!In, UT!Tests
<1>. QED
  BY <1>3, <1>4

\* One round: the head goes, and the saved node is the head of the rest.
LEMMA FreeOneKeepsIInv == UT!IInv /\ UT!FreeOne => UT!IInv'
<1>. SUFFICES ASSUME UT!IInv, UT!FreeOne PROVE UT!IInv'
  OBVIOUS
<1> DEFINE L == Len(head_table)
<1>1. /\ el # NULL /\ test = 5 /\ head_table # <<>> /\ el = head_table[1]
      /\ tmp_table = IF L = 1 THEN NULL ELSE head_table[2]
      /\ head_table' = UT!Unlinked(el) /\ DOMAIN memory' = DOMAIN memory \ {el}
      /\ el' = tmp_table /\ tmp_table' = UT!After(head_table', tmp_table)
      /\ IF el' = NULL THEN test' = test + 1 ELSE UNCHANGED test
  BY TestNames DEF UT!FreeOne, UT!IInv, UT!IteratesFromHead, UT!Without
<1>2. /\ L \in Nat /\ DOMAIN head_table = 1..L /\ L # 0
      /\ \A k \in 1..L : head_table[k] \in Address
  BY <1>1, LenProperties, ElementOfSeq, EmptySeq DEF UT!IInv
<1>3. el \in UT!ToSet(head_table)
  BY <1>1, <1>2 DEF UT!ToSet
<1>4. /\ head_table' \in Seq(Address) /\ Len(head_table') = L - 1
      /\ UT!IsInjective(head_table')
      /\ UT!ToSet(head_table') = UT!ToSet(head_table) \ {el}
      /\ \A k \in 1..L - 1 : head_table'[k] = head_table[k + 1]
  BY <1>1, <1>3, UnlinkedProperties DEF UT!IInv
<1>5. UT!ToSet(head_table') = DOMAIN memory'
  BY <1>1, <1>4 DEF UT!IInv
<1>6. CASE L = 1
  <2>1. head_table' = <<>>
    BY <1>4, <1>6, EmptySeq
  <2>2. el' = NULL /\ tmp_table' = NULL /\ test' = 6
    BY <1>1, <1>6, <2>1 DEF UT!After
  <2>3. test' \in DOMAIN UT!Tests /\ UT!IteratesFromHead'
    BY <2>2 DEF UT!IteratesFromHead, UT!Tests
  <2>. QED
    BY <1>4, <1>5, <2>1, <2>3 DEF UT!IInv
<1>7. CASE L # 1
  <2>1. el' = head_table'[1] /\ el' # NULL /\ test' = 5 /\ head_table' # <<>>
    <3>1. 1 \in 1..L - 1 /\ 2 \in 1..L /\ L - 1 # 0
      BY <1>2, <1>7
    <3>2. tmp_table = head_table[2] /\ tmp_table # NULL
      BY <1>1, <1>2, <1>7, <3>1, AddressNotNull
    <3>3. head_table'[1] = head_table[2]
      BY <1>4, <3>1
    <3>4. head_table' # <<>>
      BY <1>4, <3>1, EmptySeq
    <3>. QED
      BY <1>1, <3>2, <3>3, <3>4
  <2>2. tmp_table' = IF Len(head_table') = 1 THEN NULL ELSE head_table'[2]
    BY <1>1, <1>4, <2>1, BehindTheHead
  <2>3. test' \in DOMAIN UT!Tests /\ ~(test' > 5) /\ UT!In("free")'
    BY <2>1 DEF UT!Tests, UT!In
  <2>4. UT!IteratesFromHead'
    BY <2>1, <2>2, <2>3 DEF UT!IteratesFromHead
  <2>. QED
    BY <1>4, <1>5, <2>3, <2>4 DEF UT!IInv
<1>. QED
  BY <1>6, <1>7

LEMMA TableNextKeepsIInv == UT!IInv /\ [UT!Next]_table => UT!IInv'
<1>. SUFFICES ASSUME UT!IInv, [UT!Next]_table PROVE UT!IInv'
  OBVIOUS
<1>1. CASE UT!Next
  BY <1>1, AddKeepsIInv, FindKeepsIInv, DeleteKeepsIInv, IterateKeepsIInv,
     FreeOneKeepsIInv DEF UT!Next
<1>2. CASE UNCHANGED table
  BY <1>2 DEF table, UT!IInv, UT!IteratesFromHead, UT!In
<1>. QED
  BY <1>1, <1>2

LEMMA TableIInvSuffices == UT!IInv => UT!HoldsLive
<1>. SUFFICES ASSUME UT!IInv PROVE UT!HoldsLive
  OBVIOUS
<1>1. /\ Len(head_table) \in Nat /\ DOMAIN head_table = 1..Len(head_table)
      /\ Len(head_table) = 0 => head_table = <<>>
  BY LenProperties, EmptySeq DEF UT!IInv
<1>2. {el, tmp_table} \ {NULL} \subseteq UT!ToSet(head_table)
  BY <1>1 DEF UT!IInv, UT!IteratesFromHead, UT!ToSet
<1>3. ASSUME UT!In("end") PROVE DOMAIN memory = {}
  BY <1>3, TestNames DEF UT!IInv, UT!ToSet
<1>. QED
  BY <1>2, <1>3 DEF UT!IInv, UT!HoldsLive

LEMMA ProgramsStepTable == [ProgramsNext]_vars => [UT!Next]_table
<1>1. ASSUME ProgramsNext PROVE UT!Next \/ UNCHANGED table
  BY <1>1 DEF ProgramsNext, QueueStep, HeapSortStep, MergeSortStep, QuickSortStep,
              QsortStep, CutRodStep, UthashStep, ScsiStep, RetStep, algorithms
<1>2. ASSUME UNCHANGED vars PROVE UNCHANGED table
  BY <1>2 DEF vars, algorithms
<1>. QED
  BY <1>1, <1>2

(* The uthash programs link exactly the nodes that are malloc'ed, and the  *)
(* iteration that frees them never stands on one that has been freed       *)
(* (int-key-uthash.c:104), for any addresses malloc returns, of freed      *)
(* nodes included.                                                         *)
THEOREM TableLinksWhatIsLive == ProgramsSpec => []TableHoldsLive
<1>1. ProgramsInit => UT!Init \/ TableOff
  BY DEF ProgramsInit, RunsAlgorithm, RunsProbe, RunsQueue, RunsHeapSort, RunsMergeSort,
         RunsQuickSort, RunsQsort, RunsCutRod, RunsUthash
<1>2. UT!IInv => TableHoldsLive
  BY TableIInvSuffices DEF TableHoldsLive
<1>. QED
  BY <1>1, <1>2, TableInit, TableNextKeepsIInv, ProgramsStepTable, PTL DEF ProgramsSpec

(***************************************************************************)
(* What uthash_find finds. NodesHoldKeys says that the nodes are those of  *)
(* the keys that have been added and not been deleted yet.                 *)
(***************************************************************************)

\* Each program adds three different keys, looks for four and deletes one.
LEMMA KeyArrays ==
  ASSUME UT!Begun
  PROVE  /\ Len(keys.add) = 3 /\ DOMAIN keys.add = 1..3
         /\ Len(keys.find) = 4 /\ DOMAIN keys.find = 1..4
         /\ Len(keys.delete) = 1 /\ DOMAIN keys.delete = 1..1
         /\ \A p, q \in 1..3 : keys.add[p] = keys.add[q] => p = q
<1>1. CASE keys = UT!int_key
  BY <1>1 DEF UT!int_key
<1> DEFINE names == SubSeq(UT!name_array, 1, 3)
           Names == {UT!name_array[k] : k \in 1..4}
<1>2. /\ Len(UT!name_array) = 4 /\ DOMAIN UT!name_array = 1..4
      /\ \A p, q \in 1..4 : UT!name_array[p] = UT!name_array[q] => p = q
  <2>1. Len(UT!name_array) = 4 /\ DOMAIN UT!name_array = 1..4
    BY DEF UT!name_array
  <2>2. /\ UT!name_array[1] = "you" /\ UT!name_array[2] = "me"
        /\ UT!name_array[3] = "others" /\ UT!name_array[4] = "what the fuck"
    BY DEF UT!name_array
  <2>3. \A k \in 1..4 : k = 1 \/ k = 2 \/ k = 3 \/ k = 4
    OBVIOUS
  <2>4. /\ UT!name_array[1] # UT!name_array[2] /\ UT!name_array[1] # UT!name_array[3]
        /\ UT!name_array[1] # UT!name_array[4] /\ UT!name_array[2] # UT!name_array[3]
        /\ UT!name_array[2] # UT!name_array[4] /\ UT!name_array[3] # UT!name_array[4]
    <3>1. /\ "you" # "me" /\ "you" # "others" /\ "you" # "what the fuck"
          /\ "me" # "others" /\ "me" # "what the fuck" /\ "others" # "what the fuck"
      OBVIOUS
    <3>. QED
      BY <2>2, <3>1, Zenon
  <2>5. ASSUME NEW p \in 1..4, NEW q \in 1..4, UT!name_array[p] = UT!name_array[q]
        PROVE  p = q
    BY <2>3, <2>4, <2>5
  <2>. QED
    BY <2>1, <2>5
<1>3. /\ names \in Seq(Names) /\ Len(names) = 3
      /\ \A k \in 1..3 : names[k] = UT!name_array[k]
  <2>1. \A k \in 1..3 : UT!name_array[k] \in Names
    BY <1>2
  <2>2. /\ names \in Seq(Names) /\ Len(names) = 3 - 1 + 1
        /\ \A k \in 1..3 - 1 + 1 : names[k] = UT!name_array[1 + k - 1]
    BY <2>1, SubSeqProperties
  <2>3. 3 - 1 + 1 = 3 /\ \A k \in 1..3 : 1 + k - 1 = k
    OBVIOUS
  <2>. QED
    BY <2>2, <2>3
<1>4. DOMAIN names = 1..3 /\ \A p, q \in 1..3 : names[p] = names[q] => p = q
  BY <1>2, <1>3, LenProperties
<1>. HIDE DEF names
<1>5. CASE keys = UT!char_ptr_key
  <2>1. keys.add = names /\ keys.find = UT!name_array /\ keys.delete = <<"me">>
    BY <1>5 DEF UT!char_ptr_key, names
  <2>. QED
    BY <1>2, <1>3, <1>4, <2>1
<1>6. CASE keys = UT!char_array_key
  <2>1. /\ keys.add = names /\ keys.find = UT!name_array
        /\ keys.delete = <<UT!name_array[2]>>
    BY <1>6 DEF UT!char_array_key, names
  <2>. QED
    BY <1>2, <1>3, <1>4, <2>1
<1>. QED
  BY <1>1, <1>5, <1>6 DEF UT!Begun

\* What the tests of main are called, and how a loop of one goes on.
LEMMA LoopsStayInside ==
  ASSUME UT!FindsInv, UT!Begun, UNCHANGED keys, NEW last \in {1, 3, 4}, UT!Loop(last),
         UT!In("add") => last = 3, UT!In("find") => last = 4,
         UT!In("delete") => last = 1,
         UT!In("add") \/ UT!In("find") \/ UT!In("delete")
  PROVE  /\ UT!InLoop' /\ at \in 1..last
         /\ \/ test' = test /\ at' = at + 1 /\ at < last
            \/ test' = test + 1 /\ at' = 1 /\ at = last
<1>1. test \in {1, 2, 3, 4, 6}
  BY DEF UT!FindsInv, UT!IInv, UT!Tests, UT!In
<1>2. at \in 1..last
  BY KeyArrays DEF UT!FindsInv, UT!InLoop
<1>3. \/ test' = test /\ at' = at + 1 /\ at < last
      \/ test' = test + 1 /\ at' = 1 /\ at = last
  BY <1>2 DEF UT!Loop
<1>4. UT!InLoop'
  <2>1. CASE test' = test /\ at' = at + 1 /\ at < last
    <3>1. at' \in 1..last
      BY <1>2, <2>1
    <3>. QED
      BY <2>1, <3>1, KeyArrays DEF UT!InLoop, UT!In
  <2>2. CASE test' = test + 1 /\ at' = 1
    BY <2>2, KeyArrays DEF UT!InLoop, UT!In
  <2>. QED
    BY <1>3, <2>1, <2>2
<1>. QED
  BY <1>2, <1>3, <1>4

\* malloc gives a node that is new, and so is its key.
LEMMA AddKeepsKeys == UT!FindsInv /\ UT!Begun /\ UT!Add => UT!InLoop' /\ UT!NodesHoldKeys'
<1>. SUFFICES ASSUME UT!FindsInv, UT!Begun, UT!Add PROVE UT!InLoop' /\ UT!NodesHoldKeys'
  OBVIOUS
<1>1. PICK n \in Address \ DOMAIN memory :
        memory' = [m \in DOMAIN memory \cup {n} |->
                     IF m = n THEN [key |-> keys.add[at], value |-> at] ELSE memory[m]]
  BY DEF UT!Add
<1>2. test = 1 /\ UNCHANGED keys /\ DOMAIN keys.add = 1..3
  BY TestNames, KeyArrays DEF UT!Add, UT!FindsInv, UT!IInv
<1>3. /\ UT!InLoop' /\ at \in 1..3
      /\ \/ test' = test /\ at' = at + 1 /\ at < 3
         \/ test' = test + 1 /\ at' = 1 /\ at = 3
  BY <1>2, LoopsStayInside, KeyArrays DEF UT!Add, UT!In, UT!Tests
<1>4. ASSUME NEW p \in 1..3 PROVE (UT!Held(p))' <=> p < at \/ p = at
  <2>1. CASE test' = 1 /\ at' = at + 1
    BY <1>3, <2>1 DEF UT!Held
  <2>2. CASE test' = 2 /\ at = 3
    BY <1>3, <2>2 DEF UT!Held
  <2>. QED
    BY <1>2, <1>3, <2>1, <2>2
<1>5. ASSUME NEW p \in 1..3 PROVE UT!Held(p) <=> p < at
  BY <1>2 DEF UT!Held
<1>6. /\ \A m \in DOMAIN memory : \E p \in 1..3 :
           p < at /\ memory[m] = [key |-> keys.add[p], value |-> p]
      /\ \A p \in 1..3 : p < at => \E m \in DOMAIN memory : memory[m].value = p
      /\ \A l, m \in DOMAIN memory : memory[l].value = memory[m].value => l = m
  BY <1>2, <1>5 DEF UT!FindsInv, UT!NodesHoldKeys
<1>7. /\ DOMAIN memory' = DOMAIN memory \cup {n} /\ n \notin DOMAIN memory
      /\ memory'[n] = [key |-> keys.add[at], value |-> at]
      /\ \A m \in DOMAIN memory : memory'[m] = memory[m]
  BY <1>1
<1>8. \A m \in DOMAIN memory : memory[m].value \in 1..3 /\ memory[m].value < at
  BY <1>6
<1>9. ASSUME NEW m \in DOMAIN memory'
      PROVE  \E p \in 1..3 : /\ p < at \/ p = at
                             /\ memory'[m] = [key |-> keys.add[p], value |-> p]
  BY <1>3, <1>6, <1>7
<1>10. ASSUME NEW p \in 1..3, p < at \/ p = at
       PROVE  \E m \in DOMAIN memory' : memory'[m].value = p
  BY <1>6, <1>7, <1>10
<1>11. ASSUME NEW l \in DOMAIN memory', NEW m \in DOMAIN memory',
              memory'[l].value = memory'[m].value
       PROVE  l = m
  <2>1. \A k \in DOMAIN memory : memory[k].value # at
    BY <1>3, <1>8
  <2>2. memory'[n].value = at
    BY <1>7
  <2>. QED
    BY <1>6, <1>7, <1>11, <2>1, <2>2
<1>12. UT!NodesHoldKeys'
  BY <1>2, <1>4, <1>9, <1>10, <1>11 DEF UT!NodesHoldKeys
<1>. QED
  BY <1>3, <1>12

\* Looking for a key changes nothing; after the first loop over keys.find
\* the deletions begin, after the second the nodes are freed.
LEMMA FindKeepsKeys == UT!FindsInv /\ UT!Begun /\ UT!Find => UT!InLoop' /\ UT!NodesHoldKeys'
<1>. SUFFICES ASSUME UT!FindsInv, UT!Begun, UT!Find PROVE UT!InLoop' /\ UT!NodesHoldKeys'
  OBVIOUS
<1>1. test \in {2, 4, 6} /\ UNCHANGED <<keys, memory>> /\ DOMAIN keys.add = 1..3
  BY KeyArrays DEF UT!Find, UT!FindsInv, UT!IInv, UT!Tests, UT!In
<1>2. /\ UT!InLoop' /\ at \in 1..4
      /\ \/ test' = test /\ at' = at + 1 /\ at < 4
         \/ test' = test + 1 /\ at' = 1 /\ at = 4
  BY <1>1, LoopsStayInside, KeyArrays DEF UT!Find, UT!In, UT!Tests
<1>3. ASSUME test' < 5, NEW p \in 1..3 PROVE (UT!Held(p))' <=> UT!Held(p)
  <2>1. test' \in {2, 3, 4} /\ (test' = 3 => at' = 1 /\ test = 2) /\ (test' # 3 => test' = test)
    BY <1>1, <1>2, <1>3
  <2>. QED
    BY <1>1, <2>1 DEF UT!Held
<1>4. test' < 5 => test < 5
  BY <1>1, <1>2
<1>. QED
  BY <1>1, <1>2, <1>3, <1>4 DEF UT!FindsInv, UT!NodesHoldKeys

\* uthash_find returns a node with the key if there is one.
LEMMA LookupFinds ==
  ASSUME UT!IInv, NEW key
  PROVE  LET user == UT!Lookup(key) IN
         IF user = NULL
           THEN \A m \in DOMAIN memory : memory[m].key # key
           ELSE user \in DOMAIN memory /\ memory[user].key = key
<1> DEFINE hits == {m \in UT!ToSet(head_table) : memory[m].key = key}
<1>1. UT!ToSet(head_table) = DOMAIN memory /\ NULL \notin UT!ToSet(head_table)
  <2>1. NULL \notin UT!ToSet(head_table)
    BY ElementOfSeq, LenProperties, AddressNotNull DEF UT!IInv, UT!ToSet
  <2>. QED
    BY <2>1 DEF UT!IInv
<1>2. CASE hits = {}
  <2>1. UT!Lookup(key) = NULL
    BY <1>2 DEF UT!Lookup
  <2>. QED
    BY <1>1, <1>2, <2>1
<1>3. CASE hits # {}
  <2>1. UT!Lookup(key) \in hits
    BY <1>3 DEF UT!Lookup
  <2>. QED
    BY <1>1, <2>1
<1>. QED
  BY <1>2, <1>3

LEMMA DeleteKeepsKeys ==
  UT!FindsInv /\ UT!Begun /\ UT!Delete => UT!InLoop' /\ UT!NodesHoldKeys'
<1>. SUFFICES ASSUME UT!FindsInv, UT!Begun, UT!Delete
              PROVE  UT!InLoop' /\ UT!NodesHoldKeys'
  OBVIOUS
<1> DEFINE gone == keys.delete[at]
           user == UT!Lookup(gone)
<1>1. /\ test = 3 /\ UNCHANGED keys /\ DOMAIN keys.add = 1..3 /\ DOMAIN keys.delete = 1..1
      /\ \A p, q \in 1..3 : keys.add[p] = keys.add[q] => p = q
  BY TestNames, KeyArrays DEF UT!Delete, UT!FindsInv, UT!IInv
<1>2. UT!InLoop' /\ at = 1 /\ test' = 4
  <2>1. /\ UT!InLoop' /\ at \in 1..1
        /\ \/ test' = test /\ at' = at + 1 /\ at < 1
           \/ test' = test + 1 /\ at' = 1 /\ at = 1
    BY <1>1, LoopsStayInside, KeyArrays DEF UT!Delete, UT!In, UT!Tests
  <2>. QED
    BY <1>1, <2>1
<1>3. \A p \in 1..3 : UT!Held(p) /\ ((UT!Held(p))' <=> keys.add[p] # gone)
  BY <1>1, <1>2 DEF UT!Held
<1>4. /\ \A m \in DOMAIN memory : \E p \in 1..3 :
           memory[m] = [key |-> keys.add[p], value |-> p]
      /\ \A p \in 1..3 : \E m \in DOMAIN memory : memory[m].value = p
      /\ \A l, m \in DOMAIN memory : memory[l].value = memory[m].value => l = m
  BY <1>1, <1>3 DEF UT!FindsInv, UT!NodesHoldKeys
<1>5. /\ DOMAIN memory' = {m \in DOMAIN memory : memory[m].key # gone}
      /\ \A m \in DOMAIN memory' : memory'[m] = memory[m]
  <2>1. CASE user = NULL
    <3>1. memory' = memory
      BY <2>1 DEF UT!Delete
    <3>. QED
      BY <2>1, <3>1, LookupFinds DEF UT!FindsInv
  <2>2. CASE user # NULL
    <3>1. user \in DOMAIN memory /\ memory[user].key = gone
      BY <2>2, LookupFinds DEF UT!FindsInv
    <3>2. memory' = [m \in DOMAIN memory \ {user} |-> memory[m]]
      BY <2>2 DEF UT!Delete, UT!Without
    <3>3. \A m \in DOMAIN memory : memory[m].key = gone => m = user
      BY <1>1, <1>4, <3>1
    <3>. QED
      BY <3>1, <3>2, <3>3
  <2>. QED
    BY <2>1, <2>2
<1>6. ASSUME NEW m \in DOMAIN memory'
      PROVE  \E p \in 1..3 : /\ keys.add[p] # gone
                             /\ memory'[m] = [key |-> keys.add[p], value |-> p]
  BY <1>4, <1>5
<1>7. ASSUME NEW p \in 1..3, keys.add[p] # gone
      PROVE  \E m \in DOMAIN memory' : memory'[m].value = p
  <2>1. PICK m \in DOMAIN memory : memory[m].value = p
    BY <1>4
  <2>2. memory[m].key = keys.add[p]
    BY <1>4, <2>1
  <2>. QED
    BY <1>5, <1>7, <2>1, <2>2
<1>8. \A l, m \in DOMAIN memory' : memory'[l].value = memory'[m].value => l = m
  BY <1>4, <1>5
<1>9. UT!NodesHoldKeys'
  <2>. HIDE DEF gone
  <2>. QED
    BY <1>1, <1>3, <1>6, <1>7, <1>8 DEF UT!NodesHoldKeys
<1>. QED
  BY <1>2, <1>9

\* While uthash runs, each step is one of it.
LEMMA UthashAlone ==
  [ProgramsNext]_vars =>
    /\ UNCHANGED program
    /\ program # "uthash" => UNCHANGED table
    /\ program = "uthash" => [UT!Next]_table
<1>1. ASSUME ProgramsNext
      PROVE  /\ UNCHANGED program
             /\ program # "uthash" => UNCHANGED table
             /\ program = "uthash" => [UT!Next]_table
  BY <1>1 DEF ProgramsNext, QueueStep, HeapSortStep, MergeSortStep, QuickSortStep,
              QsortStep, CutRodStep, UthashStep, ScsiStep, RetStep, algorithms
<1>2. ASSUME UNCHANGED vars PROVE UNCHANGED <<program, table>>
  BY <1>2 DEF vars, algorithms
<1>. QED
  BY <1>1, <1>2

LEMMA FreeingKeepsKeys ==
  UT!FindsInv /\ UT!Begun /\ (UT!Iterate \/ UT!FreeOne) => UT!InLoop' /\ UT!NodesHoldKeys'
<1>. SUFFICES ASSUME UT!FindsInv, UT!Begun, UT!Iterate \/ UT!FreeOne
              PROVE  UT!InLoop' /\ UT!NodesHoldKeys'
  OBVIOUS
<1>1. test = 5 /\ UNCHANGED <<keys, at>> /\ test' \in {5, 6}
  BY TestNames DEF UT!Iterate, UT!FreeOne, UT!FindsInv, UT!IInv, UT!IteratesFromHead
<1>2. ~(test' < 5)
  BY <1>1
<1>3. UT!NodesHoldKeys'
  BY <1>2 DEF UT!NodesHoldKeys
<1>4. at' = 1
  BY <1>1 DEF UT!FindsInv, UT!InLoop, UT!In, UT!Tests
<1>5. UT!InLoop'
  BY <1>1, <1>4, KeyArrays DEF UT!InLoop, UT!In, UT!Tests
<1>. QED
  BY <1>3, <1>5

LEMMA FindsInvKept ==
  (program = "uthash" => UT!Begun /\ UT!FindsInv) /\ [ProgramsNext]_vars
    => (program = "uthash" => UT!Begun /\ UT!FindsInv)'
<1>. SUFFICES ASSUME program' = "uthash", program = "uthash" => UT!Begun /\ UT!FindsInv,
                     [ProgramsNext]_vars
              PROVE  (UT!Begun /\ UT!FindsInv)'
  OBVIOUS
<1>1. program = "uthash" /\ [UT!Next]_table
  BY UthashAlone
<1>2. UT!IInv'
  BY <1>1, TableNextKeepsIInv DEF UT!FindsInv
<1>3. CASE UT!Next
  <2>1. UNCHANGED keys
    BY <1>3 DEF UT!Next, UT!Add, UT!Find, UT!Delete, UT!Iterate, UT!FreeOne
  <2>2. UT!InLoop' /\ UT!NodesHoldKeys'
    BY <1>1, <1>3, AddKeepsKeys, FindKeepsKeys, DeleteKeepsKeys, FreeingKeepsKeys
       DEF UT!Next
  <2>. QED
    BY <1>1, <1>2, <2>1, <2>2 DEF UT!Begun, UT!FindsInv
<1>4. CASE UNCHANGED table
  BY <1>1, <1>2, <1>4 DEF table, UT!Begun, UT!FindsInv, UT!InLoop, UT!In, UT!NodesHoldKeys, UT!Held
<1>. QED
  BY <1>1, <1>3, <1>4

LEMMA FindsInvInit == ProgramsInit => (program = "uthash" => UT!Begun /\ UT!FindsInv)
<1>. SUFFICES ASSUME ProgramsInit, program = "uthash" PROVE UT!Begun /\ UT!FindsInv
  OBVIOUS
<1>1. UT!Init
  BY DEF ProgramsInit, RunsAlgorithm, RunsProbe, RunsQueue, RunsHeapSort,
         RunsMergeSort, RunsQuickSort, RunsQsort, RunsCutRod, RunsUthash
<1>2. UT!Begun /\ UT!IInv
  BY <1>1, TableInit DEF UT!Init, UT!Begun
<1>3. test = 1 /\ at = 1 /\ DOMAIN memory = {}
  BY <1>1 DEF UT!Init
<1>4. UT!InLoop
  BY <1>2, <1>3, KeyArrays DEF UT!InLoop, UT!In, UT!Tests
<1>5. UT!NodesHoldKeys
  BY <1>2, <1>3, KeyArrays DEF UT!NodesHoldKeys, UT!Held
<1>. QED
  BY <1>2, <1>4, <1>5 DEF UT!FindsInv

\* What uthash_find finds is what is there.
LEMMA FindFinds ==
  ASSUME UT!FindsInv, UT!Begun, UT!Find
  PROVE  LET key == keys.find[at]
         IN  found' = [key |-> key,
                       value |-> IF UT!Present(key)
                                   THEN CHOOSE p \in DOMAIN keys.add : keys.add[p] = key
                                   ELSE NULL]
<1> DEFINE key == keys.find[at]
           user == UT!Lookup(key)
<1>1. found' = [key |-> key, value |-> IF user = NULL THEN NULL ELSE memory[user].value]
  BY DEF UT!Find
<1>2. /\ DOMAIN keys.add = 1..3 /\ DOMAIN keys.delete = 1..1 /\ test \in {2, 4, 6}
      /\ \A p, q \in 1..3 : keys.add[p] = keys.add[q] => p = q
  BY KeyArrays DEF UT!Find, UT!FindsInv, UT!IInv, UT!Tests, UT!In
<1>3. /\ user = NULL => \A m \in DOMAIN memory : memory[m].key # key
      /\ user # NULL => user \in DOMAIN memory /\ memory[user].key = key
  BY LookupFinds DEF UT!FindsInv
<1>. HIDE DEF key, user
<1>4. ASSUME test # 6, NEW p \in 1..3, keys.add[p] = key
      PROVE  UT!Held(p) <=> UT!Present(key)
  BY <1>2, <1>4 DEF UT!Held, UT!Present, UT!ToSet
<1>5. ASSUME UT!Present(key)
      PROVE  /\ user # NULL
             /\ memory[user].value = CHOOSE p \in DOMAIN keys.add : keys.add[p] = key
  <2>1. test # 6 /\ test < 5 /\ \E p \in 1..3 : keys.add[p] = key
    BY <1>2, <1>5 DEF UT!Present, UT!ToSet
  <2>2. PICK p \in 1..3 : keys.add[p] = key
    BY <2>1
  <2>3. UT!Held(p)
    BY <1>4, <1>5, <2>1, <2>2
  <2>4. \A m \in DOMAIN memory : \E q \in 1..3 :
          memory[m] = [key |-> keys.add[q], value |-> q]
    BY <1>2, <2>1 DEF UT!FindsInv, UT!NodesHoldKeys
  <2>5. PICK m \in DOMAIN memory : memory[m].value = p
    BY <1>2, <2>1, <2>3 DEF UT!FindsInv, UT!NodesHoldKeys
  <2>6. memory[m].key = key
    BY <2>2, <2>4, <2>5
  <2>7. user # NULL /\ user \in DOMAIN memory /\ memory[user].key = key
    BY <1>3, <2>6
  <2>8. memory[user].value = p
    BY <1>2, <2>2, <2>4, <2>7
  <2>9. (CHOOSE q \in DOMAIN keys.add : keys.add[q] = key) = p
    BY <1>2, <2>2
  <2>. QED
    BY <2>7, <2>8, <2>9
<1>6. ASSUME ~UT!Present(key) PROVE user = NULL
  <2>1. CASE test = 6
    <3>1. DOMAIN memory = {}
      <4>1. head_table = <<>> /\ UT!ToSet(head_table) = DOMAIN memory
        BY <2>1 DEF UT!FindsInv, UT!IInv
      <4>. QED
        BY <4>1 DEF UT!ToSet
    <3>. QED
      BY <1>3, <3>1
  <2>2. CASE test # 6
    <3>1. \A m \in DOMAIN memory : \E q \in 1..3 :
            UT!Held(q) /\ memory[m] = [key |-> keys.add[q], value |-> q]
      BY <1>2, <2>2 DEF UT!FindsInv, UT!NodesHoldKeys
    <3>2. \A m \in DOMAIN memory : memory[m].key # key
      BY <1>4, <1>6, <2>2, <3>1
    <3>. QED
      BY <1>3, <3>2
  <2>. QED
    BY <2>1, <2>2
<1>7. CASE UT!Present(key)
  BY <1>1, <1>5, <1>7 DEF key
<1>8. CASE ~UT!Present(key)
  BY <1>1, <1>6, <1>8 DEF key
<1>. QED
  BY <1>7, <1>8 DEF key

(* The uthash programs find a key exactly as long as it is in the table,   *)
(* with the value it was added with (int-key-uthash.c 66-79).              *)
THEOREM FoundWhileThere == ProgramsSpec => FindsWhatIsThere
<1>2. ASSUME program = "uthash" => UT!Begun /\ UT!FindsInv, [ProgramsNext]_vars,
             ~UNCHANGED table, UT!In("find")
      PROVE  LET key == keys.find[at]
             IN  found' = [key |-> key,
                           value |-> IF UT!Present(key)
                                       THEN CHOOSE p \in DOMAIN keys.add : keys.add[p] = key
                                       ELSE NULL]
  <2>1. UT!Begun /\ UT!FindsInv /\ UT!Next
    BY <1>2, UthashAlone
  <2>2. test \in {2, 4, 6}
    BY <1>2, <2>1 DEF UT!FindsInv, UT!IInv, UT!Tests, UT!In
  <2>3. UT!Find
    BY <2>1, <2>2, TestNames DEF UT!Next, UT!Add, UT!Delete, UT!Iterate, UT!FreeOne,
       UT!FindsInv, UT!IInv, UT!IteratesFromHead
  <2>. QED
    BY <2>1, <2>3, FindFinds
<1>. QED
  BY <1>2, FindsInvInit, FindsInvKept, PTL DEF ProgramsSpec, FindsWhatIsThere, UT!FindsWhatIsThere,
     UT!tableVars, table

(***************************************************************************)
(* The kretprobe modules. KR!IInv says that an instance belongs to one     *)
(* call, and holds the stamp of that call.                                 *)
(***************************************************************************)

LEMMA RetInit == KR!Init => KR!IInv
BY KretprobeAssumption
DEF KR!Init, KR!IInv, KR!TypeOK, KR!TimesOwnCall, KR!StampOfCall, KretprobeAssumption

LEMMA RetLoads == KR!IInv /\ KR!Load => KR!IInv'
<1>. SUFFICES ASSUME KR!IInv, KR!Load PROVE KR!IInv'
  OBVIOUS
<1>1. KR!TypeOK' /\ KR!TimesOwnCall'
  BY KretprobeAssumption DEF KR!IInv, KR!Load, KR!TypeOK, KR!TimesOwnCall, KretprobeAssumption
<1>2. KR!StampOfCall'
  BY DEF KR!IInv, KR!Load, KR!StampOfCall
<1>. QED
  BY <1>1, <1>2 DEF KR!IInv, KR!Load

LEMMA RetUnloads == KR!IInv /\ KR!Unload => KR!IInv'
BY KretprobeAssumption
DEF KR!IInv, KR!Unload, KR!TypeOK, KR!TimesOwnCall, KR!StampOfCall, KretprobeAssumption

LEMMA RetTicks == KR!IInv /\ KR!Tick => KR!IInv'
BY DEF KR!IInv, KR!Tick, KR!TypeOK, KR!TimesOwnCall, KR!StampOfCall

(* A call that is entered gets an instance that no other call has.         *)
LEMMA EntryHandlerStamps ==
  ASSUME KR!IInv, loaded, NEW t \in Thread, t \notin DOMAIN since, NEW n \in KR!Free,
         KR!EntryHandler(t, n), UNCHANGED loaded,
         since' = [u \in DOMAIN since \cup {t} |-> IF u = t THEN clock ELSE since[u]]
  PROVE  /\ holds' \in [Thread -> Instance \cup {None}]
         /\ DOMAIN entry_stamp' = Instance
         /\ \A u \in Kernel : holds'[u] = None
         /\ KR!StampOfCall'
<1>1. /\ holds \in [Thread -> Instance \cup {None}] /\ DOMAIN entry_stamp = Instance
      /\ n \in Instance /\ n # None /\ \A u \in Thread : holds[u] # n
      /\ \A u \in Kernel : holds[u] = None
  BY KretprobeAssumption DEF KR!IInv, KR!TypeOK, KR!Free, KR!TimesOwnCall, KretprobeAssumption
<1>2. CASE t \in Kernel
  BY <1>1, <1>2 DEF KR!IInv, KR!EntryHandler, KR!StampOfCall
<1>3. CASE t \notin Kernel
  <2>1. /\ holds' = [holds EXCEPT ![t] = n]
        /\ entry_stamp' = [entry_stamp EXCEPT ![n] = clock]
    BY <1>3 DEF KR!EntryHandler
  <2>2. ASSUME NEW u \in Thread, holds'[u] # None
        PROVE  u \in DOMAIN since' /\ entry_stamp'[holds'[u]] = since'[u]
    <3>1. CASE u = t
      BY <1>1, <2>1, <3>1
    <3>2. CASE u # t
      <4>1. holds'[u] = holds[u] /\ holds[u] # n /\ holds[u] \in Instance
        BY <1>1, <2>1, <2>2, <3>2
      <4>2. u \in DOMAIN since /\ entry_stamp[holds[u]] = since[u]
        BY <2>2, <4>1 DEF KR!IInv, KR!StampOfCall
      <4>. QED
        BY <1>1, <2>1, <3>2, <4>1, <4>2
    <3>. QED
      BY <3>1, <3>2
  <2>3. ASSUME NEW u \in Thread, NEW v \in Thread, holds'[u] = holds'[v], holds'[u] # None
        PROVE  u = v
    BY <1>1, <2>1, <2>3 DEF KR!IInv, KR!StampOfCall
  <2>4. KR!StampOfCall'
    BY <2>2, <2>3 DEF KR!StampOfCall
  <2>5. \A u \in Kernel : holds'[u] = None
    BY <1>1, <1>3, <2>1
  <2>. QED
    BY <1>1, <2>1, <2>4, <2>5
<1>. QED
  BY <1>2, <1>3

LEMMA RetEnters ==
  ASSUME KR!IInv, NEW t \in Thread, KR!Enter(t)
  PROVE  KR!IInv'
<1>1. /\ t \notin DOMAIN since /\ UNCHANGED <<loaded, clock, printed>>
      /\ since' = [u \in DOMAIN since \cup {t} |-> IF u = t THEN clock ELSE since[u]]
  BY DEF KR!Enter
<1>2. DOMAIN since' \subseteq Thread /\ nmissed \in Nat
  BY <1>1 DEF KR!IInv, KR!TypeOK
<1>3. ASSUME UNCHANGED <<holds, entry_stamp>> PROVE KR!StampOfCall'
  BY <1>1, <1>3 DEF KR!IInv, KR!StampOfCall
<1>4. CASE ~loaded
  BY <1>1, <1>2, <1>3, <1>4 DEF KR!Enter, KR!IInv, KR!TypeOK, KR!TimesOwnCall
<1>5. CASE loaded /\ KR!Free = {}
  <2>1. /\ nmissed < MaxMissed /\ nmissed' = nmissed + 1
        /\ UNCHANGED <<holds, entry_stamp>>
    BY <1>5 DEF KR!Enter
  <2>2. nmissed' \in 0..MaxMissed /\ nmissed' > 0
    BY <1>2, <2>1, KretprobeAssumption DEF KretprobeAssumption
  <2>. QED
    BY <1>1, <1>2, <1>3, <2>1, <2>2 DEF KR!IInv, KR!TypeOK, KR!TimesOwnCall
<1>6. CASE loaded /\ KR!Free # {}
  <2>1. PICK n \in KR!Free : KR!EntryHandler(t, n)
    BY <1>6 DEF KR!Enter
  <2>2. UNCHANGED <<nmissed, untimed>>
    BY <1>6 DEF KR!Enter
  <2>3. /\ holds' \in [Thread -> Instance \cup {None}]
        /\ DOMAIN entry_stamp' = Instance
        /\ \A u \in Kernel : holds'[u] = None
        /\ KR!StampOfCall'
    BY <1>1, <1>6, <2>1, EntryHandlerStamps
  <2>. QED
    BY <1>1, <1>2, <2>2, <2>3 DEF KR!IInv, KR!TypeOK, KR!TimesOwnCall
<1>. QED
  BY <1>4, <1>5, <1>6

LEMMA RetReturns ==
  ASSUME KR!IInv, NEW t \in Thread, KR!Return(t)
  PROVE  KR!IInv'
<1>1. /\ holds' = [holds EXCEPT ![t] = None]
      /\ since' = [u \in DOMAIN since \ {t} |-> since[u]]
      /\ UNCHANGED <<loaded, clock, entry_stamp, nmissed, untimed>>
  BY DEF KR!Return
<1>2. KR!TypeOK'
  BY <1>1 DEF KR!IInv, KR!TypeOK
<1>3. printed'[1] = printed'[2]
  BY DEF KR!IInv, KR!Return, KR!RetHandler, KR!StampOfCall, KR!TimesOwnCall
<1>4. KR!TimesOwnCall'
  BY <1>1, <1>3, KretprobeAssumption DEF KR!IInv, KR!TypeOK, KR!TimesOwnCall, KretprobeAssumption
<1>5. KR!StampOfCall'
  BY <1>1 DEF KR!IInv, KR!TypeOK, KR!StampOfCall
<1>. QED
  BY <1>1, <1>2, <1>4, <1>5 DEF KR!IInv

LEMMA RetSteps == KR!IInv /\ [KR!Next]_retVars => KR!IInv'
<1>. SUFFICES ASSUME KR!IInv, [KR!Next]_retVars PROVE KR!IInv'
  OBVIOUS
<1>1. CASE KR!Next
  BY <1>1, RetLoads, RetUnloads, RetTicks, RetEnters, RetReturns
  DEF KR!Next
<1>2. CASE UNCHANGED retVars
  BY <1>2 DEF retVars, KR!IInv, KR!TypeOK, KR!TimesOwnCall, KR!StampOfCall
<1>. QED
  BY <1>1, <1>2

\* Whichever program runs, the kretprobe modules keep their invariant.
LEMMA RetInvariant == ProgramsSpec => []KR!IInv
<1>1. ProgramsInit => KR!Init
  BY DEF ProgramsInit, RunsAlgorithm, RunsProbe
<1>2. [ProgramsNext]_vars => [KR!Next]_retVars
  <2>1. ASSUME ProgramsNext PROVE KR!Next \/ UNCHANGED retVars
    BY <2>1 DEF ProgramsNext, QueueStep, HeapSortStep, MergeSortStep, QuickSortStep,
                QsortStep, CutRodStep, UthashStep, ScsiStep, RetStep, probes
  <2>2. ASSUME UNCHANGED vars PROVE UNCHANGED retVars
    BY <2>2 DEF vars, probes
  <2>. QED
    BY <2>1, <2>2
<1>. QED
  BY <1>1, <1>2, RetInit, RetSteps, PTL DEF ProgramsSpec

(* Whatever calls overlap and however few instances there are, ret_handler *)
(* prints the time of the very call that returns, no instance stays with a *)
(* kernel thread, and a call that could not be timed shows in nmissed      *)
(* (kretprobe_example.c 40-126).                                           *)
THEOREM OwnCallTimed == ProgramsSpec => []TimesOwnCall
<1>1. KR!IInv => TimesOwnCall
  BY DEF KR!IInv, KR!TimesOwnCall, TimesOwnCall
<1>. QED
  BY <1>1, RetInvariant, PTL

(***************************************************************************)
(* The cut-rod programs: how deep memoized_cut_rod_aux goes. CR!IInv says  *)
(* that each call is for a shorter rod than its caller's.                  *)
(***************************************************************************)

FramesOf(V) == [len : Nat, i : Nat, ret : V]

\* What CR!CallsNest says of one call, n calls after the first.
Within(rod_len, frame, n, waits) ==
  /\ frame.len + n <= rod_len
  /\ frame.i \in 1..frame.len + 1
  /\ waits => frame.i <= frame.len

LEMMA OwnFrames ==
  ASSUME NEW stack, NEW V, stack \in Seq(FramesOf(V))
  PROVE  stack \in Seq([len : Nat, i : Nat, ret : {stack[p].ret : p \in DOMAIN stack}])
<1> DEFINE Own == [len : Nat, i : Nat, ret : {stack[p].ret : p \in DOMAIN stack}]
<1>1. /\ Len(stack) \in Nat /\ DOMAIN stack = 1..Len(stack)
      /\ stack \in [1..Len(stack) -> FramesOf(V)]
  BY LenProperties
<1>2. ASSUME NEW p \in 1..Len(stack) PROVE stack[p] \in Own
  BY <1>1 DEF FramesOf
<1>. HIDE DEF Own
<1>3. [p \in 1..Len(stack) |-> stack[p]] \in Seq(Own)
  BY ONLY <1>1, <1>2, IsASeq
<1>4. stack = [p \in 1..Len(stack) |-> stack[p]]
  BY ONLY <1>1
<1>. QED
  BY <1>3, <1>4 DEF Own

LEMMA FramesNest ==
  ASSUME NEW V, NEW stack, NEW rod_len \in Nat, stack \in Seq(FramesOf(V)),
         \A p \in 1..Len(stack) : Within(rod_len, stack[p], Len(stack) - p, p > 1)
  PROVE  /\ stack \in Seq([len : Nat, i : Nat, ret : {stack[p].ret : p \in DOMAIN stack}])
         /\ \A p \in 1..Len(stack) :
              /\ stack[p].len <= rod_len - (Len(stack) - p)
              /\ stack[p].i \in 1..stack[p].len + 1
              /\ p > 1 => stack[p].i <= stack[p].len
<1>1. Len(stack) \in Nat
  BY LenProperties
<1>2. ASSUME NEW p \in 1..Len(stack)
      PROVE  /\ stack[p].len <= rod_len - (Len(stack) - p)
             /\ stack[p].i \in 1..stack[p].len + 1
             /\ p > 1 => stack[p].i <= stack[p].len
  <2>1. stack[p].len \in Nat
    <3>1. stack[p] \in FramesOf(V)
      BY ElementOfSeq
    <3>. QED
      BY <3>1 DEF FramesOf
  <2>2. Within(rod_len, stack[p], Len(stack) - p, p > 1)
    OBVIOUS
  <2>3. rod_len \in Nat /\ p \in Int
    BY <1>1
  <2>. QED
    BY ONLY <1>1, <2>1, <2>2, <2>3 DEF Within
<1>. QED
  BY <1>2, OwnFrames

LEMMA NestOfFrames ==
  ASSUME CR!CallsNest, len \in Nat
  PROVE  \E V : /\ calls \in Seq(FramesOf(V))
                /\ \A p \in 1..Len(calls) : Within(len, calls[p], Len(calls) - p, p > 1)
<1> DEFINE V == {calls[p].ret : p \in DOMAIN calls}
<1>1. calls \in Seq(FramesOf(V))
  BY DEF CR!CallsNest, FramesOf
<1>. HIDE DEF V
<1>2. Len(calls) \in Nat
  BY <1>1, LenProperties
<1>3. ASSUME NEW p \in 1..Len(calls) PROVE Within(len, calls[p], Len(calls) - p, p > 1)
  <2>1. calls[p].len \in Nat /\ len \in Nat /\ p \in Int
    <3>1. calls[p] \in FramesOf(V)
      BY <1>1, ElementOfSeq
    <3>. QED
      BY <1>2, <3>1 DEF FramesOf
  <2>2. /\ calls[p].len <= len - (Len(calls) - p)
        /\ calls[p].i \in 1..calls[p].len + 1
        /\ p > 1 => calls[p].i <= calls[p].len
    BY DEF CR!CallsNest
  <2>. QED
    BY ONLY <1>2, <2>1, <2>2 DEF Within
<1>. QED
  BY <1>1, <1>3

\* What changes of the calls is at their head.
LEMMA CallInFront ==
  ASSUME NEW V, NEW frame \in FramesOf(V), NEW behind \in Seq(FramesOf(V))
  PROVE  /\ <<frame>> \o behind \in Seq(FramesOf(V))
         /\ Len(<<frame>> \o behind) = Len(behind) + 1
         /\ (<<frame>> \o behind)[1] = frame
         /\ \A p \in 1..Len(behind) : (<<frame>> \o behind)[p + 1] = behind[p]
<1> DEFINE F == FramesOf(V)  one == <<frame>>
<1>. HIDE DEF F
<1>0. frame \in F /\ behind \in Seq(F)
  BY DEF F
<1>1. one \in Seq(F) /\ Len(one) = 1 /\ one[1] = frame
  BY <1>0
<1>. HIDE DEF one
<1>2. /\ one \o behind \in Seq(F)
      /\ Len(one \o behind) = Len(one) + Len(behind)
      /\ \A p \in 1..Len(one) + Len(behind) : (one \o behind)[p] =
           IF p <= Len(one) THEN one[p] ELSE behind[p - Len(one)]
  BY ONLY <1>0, <1>1, ConcatProperties, Zenon
<1>3. Len(behind) \in Nat
  BY ONLY <1>0, LenProperties
<1> DEFINE both == one \o behind  n == Len(behind)
<1>4. /\ Len(both) = 1 + n /\ n \in Nat
      /\ \A p \in 1..1 + n : both[p] = IF p <= 1 THEN one[p] ELSE behind[p - 1]
  BY ONLY <1>1, <1>2, <1>3
<1>. HIDE DEF both, n
<1>5. both[1] = frame
  BY ONLY <1>1, <1>4
<1>6. \A p \in 1..n : both[p + 1] = behind[p]
  BY ONLY <1>4
<1>7. Len(both) = n + 1
  BY ONLY <1>4
<1>. QED
  BY <1>2, <1>5, <1>6, <1>7 DEF both, n, one, F

\* The call that goes on, and those that wait for it.
LEMMA RodHead ==
  ASSUME NEW V, calls \in Seq(FramesOf(V)), len \in Nat, calls # <<>>,
         \A p \in 1..Len(calls) : Within(len, calls[p], Len(calls) - p, p > 1)
  PROVE  /\ Len(calls) \in Nat \ {0}
         /\ Head(calls) \in FramesOf(V) /\ Head(calls) = calls[1]
         /\ Within(len, Head(calls), Len(calls) - 1, FALSE)
         /\ Tail(calls) \in Seq(FramesOf(V))
         /\ Len(Tail(calls)) = Len(calls) - 1
         /\ \A p \in 1..Len(Tail(calls)) :
              /\ Tail(calls)[p] = calls[p + 1]
              /\ Within(len, Tail(calls)[p], Len(Tail(calls)) - p, TRUE)
<1> DEFINE F == FramesOf(V)
<1>. HIDE DEF F
<1>0. calls \in Seq(F)
  BY DEF F
<1>1. Len(calls) \in Nat \ {0}
  BY <1>0, EmptySeq
<1>2. /\ Head(calls) \in F /\ Tail(calls) \in Seq(F)
      /\ Len(Tail(calls)) = Len(calls) - 1
      /\ \A p \in 1..Len(Tail(calls)) : Tail(calls)[p] = calls[p + 1]
  BY <1>0, HeadTailProperties
<1>3. Head(calls) = calls[1]
  BY <1>0
<1> DEFINE n == Len(calls)  m == Len(Tail(calls))
<1>4. n \in Nat \ {0} /\ m = n - 1
  BY <1>1, <1>2
<1>5. \A p \in 1..n : Within(len, calls[p], n - p, p > 1)
  OBVIOUS
<1>. HIDE DEF n, m
<1>6. 1 \in 1..n /\ ~(1 > 1)
  BY ONLY <1>4
<1>7. Within(len, calls[1], n - 1, FALSE)
  BY ONLY <1>5, <1>6, Zenon DEF Within
<1>8. ASSUME NEW p \in 1..m PROVE Within(len, calls[p + 1], m - p, TRUE)
  <2>1. p + 1 \in 1..n /\ p + 1 > 1 /\ n - (p + 1) = m - p
    BY ONLY <1>4, p \in 1..m
  <2>. QED
    BY ONLY <1>5, <2>1
<1>. QED
  BY <1>1, <1>2, <1>3, <1>7, <1>8 DEF n, m, F

\* A frame in front of calls that wait.
LEMMA NestKept ==
  ASSUME NEW V, NEW frame \in FramesOf(V), NEW behind \in Seq(FramesOf(V)),
         len \in Nat, UNCHANGED len, calls' = <<frame>> \o behind,
         Within(len, frame, Len(behind), FALSE),
         \A p \in 1..Len(behind) : Within(len, behind[p], Len(behind) - p, TRUE)
  PROVE  CR!CallsNest' /\ Len(calls') <= len + 1
<1> DEFINE F == FramesOf(V)  n == Len(behind)  both == <<frame>> \o behind
<1>1. /\ both \in Seq(F) /\ Len(both) = n + 1 /\ both[1] = frame
      /\ \A p \in 1..n : both[p + 1] = behind[p]
  BY CallInFront
<1>2. n \in Nat /\ calls' = both /\ Within(len, frame, n, FALSE)
  BY LenProperties
<1>3. \A p \in 1..n : Within(len, behind[p], n - p, TRUE)
  OBVIOUS
<1>4. frame.len \in Nat
  BY DEF FramesOf
<1>. HIDE DEF n, both
<1>5. ASSUME NEW p \in 1..n + 1 PROVE Within(len, both[p], n + 1 - p, p > 1)
  <2>1. CASE p = 1
    <3>1. n + 1 - p = n /\ ~(p > 1)
      BY ONLY <1>2, <2>1
    <3>. QED
      BY ONLY <1>1, <1>2, <2>1, <3>1, Zenon DEF Within
  <2>2. CASE p # 1
    <3>1. p - 1 \in 1..n /\ (p - 1) + 1 = p /\ n - (p - 1) = n + 1 - p /\ p > 1
      BY ONLY <1>2, <2>2, p \in 1..n + 1
    <3>2. both[p] = behind[p - 1] /\ Within(len, behind[p - 1], n + 1 - p, TRUE)
      BY ONLY <1>1, <1>3, <3>1
    <3>. QED
      BY ONLY <3>1, <3>2, Zenon DEF Within
  <2>. QED
    BY <2>1, <2>2
<1>6. len + 1 >= n + 1
  BY ONLY <1>2, <1>4, len \in Nat DEF Within
<1>7. calls' \in Seq(F) /\ Len(calls') = n + 1
  BY <1>1, <1>2
<1>8. \A p \in 1..Len(calls') : Within(len, calls'[p], Len(calls') - p, p > 1)
  <2>. HIDE DEF F
  <2>. QED
    BY ONLY <1>2, <1>5, <1>7
<1>9. CR!CallsNest'
  <2> DEFINE stack == calls'
  <2>0. /\ stack \in Seq(FramesOf(V)) /\ len \in Nat
        /\ \A p \in 1..Len(stack) : Within(len, stack[p], Len(stack) - p, p > 1)
    BY <1>7, <1>8 DEF F
  <2>. HIDE DEF stack
  <2>1. /\ stack \in Seq([len : Nat, i : Nat, ret : {stack[p].ret : p \in DOMAIN stack}])
        /\ \A p \in 1..Len(stack) :
             /\ stack[p].len <= len - (Len(stack) - p)
             /\ stack[p].i \in 1..stack[p].len + 1
             /\ p > 1 => stack[p].i <= stack[p].len
    BY ONLY <2>0, FramesNest
  <2>. QED
    BY <2>1 DEF CR!CallsNest, stack
<1>. QED
  BY <1>6, <1>7, <1>9

\* No call, or the first one.
LEMMA FewCallsNest ==
  ASSUME len \in Nat, calls = <<>> \/ calls = <<CR!Frame(len)>>
  PROVE  CR!CallsNest /\ Len(calls) <= len + 1
<1>1. CASE calls = <<>>
  <2>1. Len(calls) = 0 /\ calls \in Seq([len : Nat, i : Nat, ret : {calls[p].ret : p \in DOMAIN calls}])
    BY <1>1, EmptySeq
  <2>2. 1..Len(calls) = {}
    BY ONLY <2>1
  <2>. QED
    BY <2>1, <2>2 DEF CR!CallsNest
<1>2. CASE calls = <<CR!Frame(len)>>
  <2> DEFINE frame == CR!Frame(len)  V == {frame.ret}
  <2>1. frame.len = len /\ frame.i = 1 /\ frame \in FramesOf(V)
    BY DEF CR!Frame, FramesOf
  <2>. HIDE DEF frame, V
  <2>2. /\ calls \in Seq(FramesOf(V)) /\ Len(calls) = 1 /\ calls[1] = frame
    BY <1>2, <2>1 DEF frame
  <2>3. Within(len, frame, 0, FALSE)
    BY ONLY <2>1, len \in Nat DEF Within
  <2>4. \A p \in 1..Len(calls) : Within(len, calls[p], Len(calls) - p, p > 1)
    <3>1. ASSUME NEW p \in 1..1 PROVE p = 1 /\ 1 - p = 0 /\ ~(p > 1)
      BY ONLY p \in 1..1
    <3>2. ASSUME NEW p \in 1..1 PROVE Within(len, calls[p], 1 - p, p > 1)
      BY ONLY <2>2, <2>3, <3>1, p \in 1..1, Zenon DEF Within
    <3>. QED
      BY ONLY <2>2, <3>2
  <2>5. CR!CallsNest
    <3>1. len \in Nat
      OBVIOUS
    <3>2. /\ calls \in Seq([len : Nat, i : Nat, ret : {calls[p].ret : p \in DOMAIN calls}])
          /\ \A p \in 1..Len(calls) :
              /\ calls[p].len <= len - (Len(calls) - p)
              /\ calls[p].i \in 1..calls[p].len + 1
              /\ p > 1 => calls[p].i <= calls[p].len
      BY ONLY <2>2, <2>4, <3>1, FramesNest
    <3>. QED
      BY <3>2 DEF CR!CallsNest
  <2>. QED
    BY <2>2, <2>5
<1>. QED
  BY <1>1, <1>2

LEMMA RodInit == CR!Init => CR!IInv
<1>. SUFFICES ASSUME CR!Init PROVE CR!IInv
  OBVIOUS
<1>1. /\ len \in Nat /\ DOMAIN profits = 0..len /\ i \in {0, 1}
      /\ calls = <<>> \/ calls = <<CR!Frame(len)>>
  <2>1. len \in Nat
    <3>1. len \in 1..RodLength
      BY DEF CR!Init, CR!BottomUp, CR!Memoized, CR!Start
    <3>2. RodLength \in Nat
      BY ProgramsAssumption DEF ProgramsAssumption, CR!RodAssumption
    <3>. QED
      BY ONLY <3>1, <3>2
  <2>2. CASE CR!BottomUp
    BY <2>1, <2>2 DEF CR!BottomUp
  <2>3. CASE CR!Memoized
    BY <2>1, <2>3 DEF CR!Memoized
  <2>. QED
    BY <2>2, <2>3 DEF CR!Init
<1>2. i \in 0..len + 1
  BY ONLY <1>1
<1>. QED
  BY <1>1, <1>2, FewCallsNest DEF CR!IInv, CR!TypeOK

LEMMA RodFills == CR!IInv /\ (CR!Fill \/ CR!Filled) => CR!IInv'
<1>. SUFFICES ASSUME CR!IInv, CR!Fill \/ CR!Filled PROVE CR!IInv'
  OBVIOUS
<1>1. UNCHANGED <<len, calls>> /\ DOMAIN profits' = DOMAIN profits
  BY DEF CR!Fill, CR!Filled
<1>2. i' = i \/ (i' = i + 1 /\ i <= len)
  BY DEF CR!Fill, CR!Filled
<1>3. i \in 0..len + 1 /\ len \in Nat /\ DOMAIN profits = 0..len /\ CR!CallsNest /\ Len(calls) <= len + 1
  BY DEF CR!IInv, CR!TypeOK
<1>4. i' \in 0..len + 1
  BY ONLY <1>2, <1>3
<1>5. CR!CallsNest'
  BY <1>1, <1>3 DEF CR!CallsNest
<1>. QED
  BY <1>1, <1>3, <1>4, <1>5 DEF CR!IInv, CR!TypeOK

LEMMA RodReturned ==
  ASSUME NEW frame, NEW V, frame \in FramesOf(V), NEW value, NEW n \in Nat, len \in Nat,
         Within(len, frame, n, TRUE)
  PROVE  /\ Within(len, CR!Returned(frame, value), n, FALSE)
         /\ CR!Returned(frame, value).len = frame.len
         /\ CR!Returned(frame, value) \in FramesOf(V \cup {CR!Returned(frame, value).ret})
<1> DEFINE r == CR!Returned(frame, value)
<1>1. /\ r.len = frame.len /\ r.i = frame.i + 1 /\ frame.len \in Nat /\ frame.i \in Nat
      /\ r = [len |-> frame.len, i |-> frame.i + 1, ret |-> r.ret]
  <2> DEFINE most == CR!Larger(frame.ret, price_array[frame.i] + value)
  <2>1. r = [frame EXCEPT !.ret = most, !.i = frame.i + 1]
    BY DEF CR!Returned
  <2>. HIDE DEF r, most
  <2>2. /\ frame.len \in Nat /\ frame.i \in Nat
        /\ frame = [len |-> frame.len, i |-> frame.i, ret |-> frame.ret]
    BY ONLY frame \in FramesOf(V) DEF FramesOf
  <2>3. r = [len |-> frame.len, i |-> frame.i + 1, ret |-> most]
    BY ONLY <2>1, <2>2
  <2>. QED
    BY ONLY <2>2, <2>3
<1>. HIDE DEF r
<1>2. frame.len + n <= len /\ frame.i \in 1..frame.len + 1 /\ frame.i <= frame.len
  BY DEF Within
<1>3. Within(len, r, n, FALSE)
  BY ONLY <1>1, <1>2, len \in Nat, n \in Nat DEF Within
<1>4. frame.i + 1 \in Nat
  BY ONLY <1>1
<1>5. r \in FramesOf(V \cup {r.ret})
  BY ONLY <1>1, <1>4 DEF FramesOf
<1>. QED
  BY <1>1, <1>3, <1>5 DEF r

LEMMA MoreFrames ==
  ASSUME NEW V, NEW W, V \subseteq W, NEW stack, stack \in Seq(FramesOf(V))
  PROVE  stack \in Seq(FramesOf(W))
<1>1. FramesOf(V) \subseteq FramesOf(W)
  BY DEF FramesOf
<1>. QED
  BY <1>1, SeqMonotonic

LEMMA RodRecurses == CR!IInv /\ CR!Recurse => CR!IInv'
<1>. SUFFICES ASSUME CR!IInv, CR!Recurse PROVE CR!IInv'
  OBVIOUS
<1> DEFINE frame == Head(calls)  rest == frame.len - frame.i
<1>1. /\ CR!CallsNest /\ len \in Nat /\ DOMAIN profits = 0..len /\ i \in 0..len + 1
      /\ UNCHANGED <<len, profits, i>>
  BY DEF CR!IInv, CR!TypeOK, CR!Recurse
<1>2. /\ calls # <<>> /\ frame.i <= frame.len
      /\ \/ calls' = <<CR!Returned(frame, profits[rest])>> \o Tail(calls)
         \/ calls' = <<CR!Frame(rest)>> \o calls
  BY DEF CR!Recurse
<1>3. PICK V : /\ calls \in Seq(FramesOf(V))
               /\ \A p \in 1..Len(calls) : Within(len, calls[p], Len(calls) - p, p > 1)
  BY <1>1, NestOfFrames
<1>4. /\ Len(calls) \in Nat \ {0}
      /\ frame \in FramesOf(V) /\ frame = calls[1]
      /\ Within(len, frame, Len(calls) - 1, FALSE)
      /\ Tail(calls) \in Seq(FramesOf(V))
      /\ Len(Tail(calls)) = Len(calls) - 1
      /\ \A p \in 1..Len(Tail(calls)) :
           /\ Tail(calls)[p] = calls[p + 1]
           /\ Within(len, Tail(calls)[p], Len(Tail(calls)) - p, TRUE)
  BY <1>1, <1>2, <1>3, RodHead
<1>5. frame.len \in Nat /\ frame.i \in Nat
  BY <1>4 DEF FramesOf
<1>. HIDE DEF frame, rest
<1>6. Within(len, frame, Len(calls) - 1, TRUE)
  BY ONLY <1>2, <1>4 DEF Within
<1>7. CASE calls' = <<CR!Returned(frame, profits[rest])>> \o Tail(calls)
  <2> DEFINE next_frame == CR!Returned(frame, profits[rest])
             W == V \cup {next_frame.ret}  behind == Tail(calls)
  <2>0. Len(calls) - 1 \in Nat
    BY ONLY <1>4
  <2>1. next_frame \in FramesOf(W) /\ Within(len, next_frame, Len(calls) - 1, FALSE)
    BY <1>1, <1>4, <1>6, <2>0, RodReturned
  <2>2. behind \in Seq(FramesOf(W))
    BY <1>4, MoreFrames
  <2>. HIDE DEF next_frame, W, behind
  <2>3. /\ calls' = <<next_frame>> \o behind /\ UNCHANGED len
        /\ Len(behind) = Len(calls) - 1
        /\ \A p \in 1..Len(behind) : Within(len, behind[p], Len(behind) - p, TRUE)
    BY <1>1, <1>4, <1>7 DEF next_frame, behind
  <2>4. Within(len, next_frame, Len(behind), FALSE)
    BY ONLY <2>1, <2>3
  <2>. QED
    BY <1>1, <2>1, <2>2, <2>3, <2>4, NestKept DEF CR!IInv, CR!TypeOK
<1>8. CASE calls' = <<CR!Frame(rest)>> \o calls
  <2> DEFINE next_frame == CR!Frame(rest)  W == V \cup {next_frame.ret}
  <2>1. frame.i >= 1
    BY ONLY <1>4 DEF Within
  <2>2. rest \in Nat /\ rest + 1 <= frame.len
    BY ONLY <1>2, <1>5, <2>1 DEF rest
  <2>3. next_frame \in FramesOf(W) /\ next_frame.len = rest /\ next_frame.i = 1
    BY <2>2 DEF CR!Frame, FramesOf
  <2>4. calls \in Seq(FramesOf(W))
    BY <1>3, MoreFrames
  <2>. HIDE DEF next_frame, W
  <2>5. Within(len, next_frame, Len(calls), FALSE)
    <3>1. frame.len + (Len(calls) - 1) <= len
      BY ONLY <1>4 DEF Within
    <3>2. next_frame.len + Len(calls) <= len
      BY ONLY <1>1, <1>4, <1>5, <2>2, <2>3, <3>1
    <3>3. next_frame.i \in 1..next_frame.len + 1
      BY ONLY <2>2, <2>3
    <3>. QED
      BY ONLY <3>2, <3>3 DEF Within
  <2>6. \A p \in 1..Len(calls) : Within(len, calls[p], Len(calls) - p, TRUE)
    <3>1. ASSUME NEW p \in 1..Len(calls) PROVE Within(len, calls[p], Len(calls) - p, TRUE)
      <4>1. CASE p = 1
        BY ONLY <1>4, <1>6, <4>1
      <4>2. CASE p # 1
        <5>1. p > 1
          BY ONLY <1>4, <4>2, p \in 1..Len(calls)
        <5>. QED
          BY ONLY <1>3, <5>1, p \in 1..Len(calls), Zenon DEF Within
      <4>. QED
        BY <4>1, <4>2
    <3>. QED
      BY <3>1
  <2>7. calls' = <<next_frame>> \o calls /\ UNCHANGED len
    BY <1>1, <1>8 DEF next_frame
  <2>. QED
    BY <1>1, <2>3, <2>4, <2>5, <2>6, <2>7, NestKept DEF CR!IInv, CR!TypeOK
<1>. QED
  BY <1>2, <1>7, <1>8 DEF frame, rest

LEMMA RodReturns == CR!IInv /\ CR!Return => CR!IInv'
<1>. SUFFICES ASSUME CR!IInv, CR!Return PROVE CR!IInv'
  OBVIOUS
<1> DEFINE frame == Head(calls)  callers == Tail(calls)
<1>1. /\ CR!CallsNest /\ len \in Nat /\ DOMAIN profits = 0..len /\ i \in 0..len + 1
      /\ UNCHANGED <<len, i>> /\ DOMAIN profits' = DOMAIN profits
  BY DEF CR!IInv, CR!TypeOK, CR!Return
<1>2. /\ calls # <<>>
      /\ callers = <<>> => calls' = <<>>
      /\ callers # <<>> =>
           calls' = <<CR!Returned(Head(callers), frame.ret)>> \o Tail(callers)
  BY DEF CR!Return
<1>3. PICK V : /\ calls \in Seq(FramesOf(V))
               /\ \A p \in 1..Len(calls) : Within(len, calls[p], Len(calls) - p, p > 1)
  BY <1>1, NestOfFrames
<1>4. /\ callers \in Seq(FramesOf(V)) /\ Len(callers) \in Nat
      /\ \A p \in 1..Len(callers) : Within(len, callers[p], Len(callers) - p, TRUE)
  <2>1. /\ Len(calls) \in Nat \ {0} /\ callers \in Seq(FramesOf(V))
        /\ Len(callers) = Len(calls) - 1
        /\ \A p \in 1..Len(callers) : Within(len, callers[p], Len(callers) - p, TRUE)
    BY <1>1, <1>2, <1>3, RodHead
  <2>2. Len(callers) \in Nat
    BY <2>1, LenProperties
  <2>. QED
    BY <2>1, <2>2
<1>. HIDE DEF callers, frame
<1>5. CASE callers = <<>>
  <2>1. calls' = <<>> /\ len' \in Nat /\ len' = len
    BY <1>1, <1>2, <1>5
  <2>2. CR!CallsNest' /\ Len(calls') <= len' + 1
    <3>1. Len(calls') = 0 /\ calls' \in Seq([len : Nat, i : Nat, ret : {calls'[p].ret : p \in DOMAIN calls'}])
      BY <2>1, EmptySeq
    <3>2. 1..Len(calls') = {}
      BY ONLY <3>1
    <3>. QED
      BY <2>1, <3>1, <3>2 DEF CR!CallsNest
  <2>. QED
    BY <1>1, <2>2 DEF CR!IInv, CR!TypeOK
<1>6. CASE callers # <<>>
  <2> DEFINE caller == Head(callers)  next_frame == CR!Returned(caller, frame.ret)
             W == V \cup {next_frame.ret}  behind == Tail(callers)
  <2>1. /\ caller \in FramesOf(V) /\ behind \in Seq(FramesOf(V)) /\ caller = callers[1]
        /\ Len(behind) = Len(callers) - 1 /\ Len(callers) # 0
        /\ \A p \in 1..Len(behind) : behind[p] = callers[p + 1]
    BY <1>4, <1>6, HeadTailProperties, EmptySeq
  <2>. HIDE DEF caller, behind
  <2>2. Len(behind) \in Nat /\ 1 \in 1..Len(callers) /\ Len(callers) - 1 = Len(behind)
    BY ONLY <1>4, <2>1
  <2>3. Within(len, caller, Len(behind), TRUE)
    BY ONLY <1>4, <2>1, <2>2
  <2>4. next_frame \in FramesOf(W) /\ Within(len, next_frame, Len(behind), FALSE)
    BY <1>1, <2>1, <2>2, <2>3, RodReturned
  <2>5. behind \in Seq(FramesOf(W))
    BY <2>1, MoreFrames
  <2>6. \A p \in 1..Len(behind) : Within(len, behind[p], Len(behind) - p, TRUE)
    <3>1. ASSUME NEW p \in 1..Len(behind)
          PROVE  p + 1 \in 1..Len(callers) /\ Len(callers) - (p + 1) = Len(behind) - p
      BY ONLY <1>4, <2>1, p \in 1..Len(behind)
    <3>. QED
      BY ONLY <1>4, <2>1, <3>1
  <2>. HIDE DEF next_frame, W
  <2>7. calls' = <<next_frame>> \o behind /\ UNCHANGED len
    BY <1>1, <1>2, <1>6 DEF next_frame, caller, behind
  <2>. QED
    BY <1>1, <2>4, <2>5, <2>6, <2>7, NestKept DEF CR!IInv, CR!TypeOK
<1>. QED
  BY <1>5, <1>6

LEMMA RodSteps == CR!IInv /\ [CR!Next]_rod => CR!IInv'
<1>1. CR!IInv /\ CR!Next => CR!IInv'
  BY RodFills, RodRecurses, RodReturns DEF CR!Next
<1>2. CR!IInv /\ UNCHANGED rod => CR!IInv'
  BY DEF rod, CR!IInv, CR!TypeOK, CR!CallsNest
<1>. QED
  BY <1>1, <1>2

\* While a cut-rod program runs, each step is one of it.
LEMMA RodAlone ==
  [ProgramsNext]_vars =>
    /\ UNCHANGED program
    /\ program = "cut-rod" => [CR!Next]_rod
<1>1. ASSUME ProgramsNext
      PROVE  UNCHANGED program /\ (program = "cut-rod" => [CR!Next]_rod)
  BY <1>1 DEF ProgramsNext, QueueStep, HeapSortStep, MergeSortStep, QuickSortStep,
              QsortStep, CutRodStep, UthashStep, ScsiStep, RetStep
<1>2. ASSUME UNCHANGED vars PROVE UNCHANGED <<program, rod>>
  BY <1>2 DEF vars, algorithms
<1>. QED
  BY <1>1, <1>2

(* memoized_cut_rod_aux goes no deeper than the rod is long, and both      *)
(* programs stay inside profits (cut-rod-memoized.c 28-49).                *)
THEOREM RodTypes == ProgramsSpec => [](program = "cut-rod" => CR!TypeOK)
<1> DEFINE Inv == program = "cut-rod" => CR!IInv
<1>1. ProgramsInit => Inv
  <2>1. ProgramsInit /\ program = "cut-rod" => CR!Init
    BY DEF ProgramsInit, RunsAlgorithm, RunsProbe, RunsQueue, RunsHeapSort, RunsMergeSort,
           RunsQuickSort, RunsQsort, RunsCutRod, RunsUthash
  <2>. QED
    BY <2>1, RodInit
<1>2. Inv /\ [ProgramsNext]_vars => Inv'
  BY RodAlone, RodSteps
<1>3. Inv => (program = "cut-rod" => CR!TypeOK)
  BY DEF CR!IInv
<1>. QED
  BY <1>1, <1>2, <1>3, PTL DEF ProgramsSpec

(***************************************************************************)
(* The cut-rod programs: the most money for a rod. A way to cut a rod is   *)
(* one for what a last piece leaves, and that piece.                       *)
(***************************************************************************)

(* s[1] + ... + s[m], added up one by one.                                 *)
Summed(f, s, m) ==
  /\ f \in [0..m -> Int]
  /\ f[0] = 0
  /\ \A k \in 1..m : f[k] = f[k - 1] + s[k]
  /\ CR!Total(s) = f[m]

LEMMA SumOf ==
  ASSUME NEW m \in Nat, NEW s \in [1..m -> Int]
  PROVE  \E f : Summed(f, s, m)
<1> DEFINE step == [k \in 1..m |-> [x \in Int |-> x + s[k]]]
           Adds(f) == f = [k \in 0..m |-> IF k = 0 THEN 0 ELSE f[k - 1] + s[k]]
<1>1. Len(s) = m
  <2>1. [k \in 1..m |-> s[k]] = s
    OBVIOUS
  <2>2. \A k \in 1..m : s[k] \in Int
    OBVIOUS
  <2>3. s \in Seq(Int) /\ Len([k \in 1..m |-> s[k]]) = m
    BY <2>1, <2>2, IsASeq
  <2>. QED
    BY <2>1, <2>3
<1>2. step \in [1..m -> [Int -> Int]]
  OBVIOUS
<1>3. \A k \in 1..m, x \in Int : step[k][x] = x + s[k]
  OBVIOUS
<1>. HIDE DEF step
<1>4. PICK g : Computed(g, Int, 0, m, step)
  <2>1. 0 \in Int
    OBVIOUS
  <2>. QED
    BY ONLY <1>2, <2>1, m \in Nat, Recursion
<1>5. g \in [0..m -> Int] /\ g[0] = 0 /\ \A k \in 1..m : g[k] = step[k][g[k - 1]]
  BY <1>4 DEF Computed
<1>6. \A k \in 1..m : g[k] = g[k - 1] + s[k]
  <2>1. \A k \in 1..m : k \in 0..m /\ k - 1 \in 0..m
    OBVIOUS
  <2>2. \A k \in 1..m : g[k] = step[k][g[k - 1]] /\ g[k - 1] \in Int
    BY <1>5, <2>1
  <2>. QED
    BY <1>3, <2>2
<1>7. Adds(g)
  <2>1. g = [k \in 0..m |-> g[k]]
    BY <1>5
  <2>2. \A k \in 0..m : g[k] = IF k = 0 THEN 0 ELSE g[k - 1] + s[k]
    BY <1>5, <1>6
  <2>. QED
    BY <2>1, <2>2
<1> DEFINE f == CHOOSE f : Adds(f)
<1>8. Adds(f)
  BY <1>7
<1>9. CR!Total(s) = f[m]
  BY <1>1 DEF CR!Total
<1>. HIDE DEF f
<1>10. /\ \A U : (\A k \in 0..m : f[k] \in U) => f \in [0..m -> U]
       /\ \A k \in 0..m : f[k] = IF k = 0 THEN 0 ELSE f[k - 1] + s[k]
  <2> DEFINE h == [k \in 0..m |-> IF k = 0 THEN 0 ELSE f[k - 1] + s[k]]
  <2>1. f = h
    BY <1>8
  <2>2. /\ \A U : (\A k \in 0..m : h[k] \in U) => h \in [0..m -> U]
        /\ \A k \in 0..m : h[k] = IF k = 0 THEN 0 ELSE f[k - 1] + s[k]
    OBVIOUS
  <2>. HIDE DEF h
  <2>. QED
    BY <2>1, <2>2
<1>. HIDE DEF Adds
<1> DEFINE Typed == {k \in 0..m : f[k] \in Int}
<1>11. 0 \in Typed /\ \A k \in 0 + 1..m : k - 1 \in Typed => k \in Typed
  BY <1>10
<1>12. \A k \in Typed : f[k] \in Int
  OBVIOUS
<1>. HIDE DEF Typed
<1>13. \A k \in 0..m : k \in Typed
  BY <1>11, StepByStep
<1>14. f \in [0..m -> Int]
  BY <1>10, <1>12, <1>13
<1>15. f[0] = 0 /\ \A k \in 1..m : f[k] = f[k - 1] + s[k]
  BY <1>10
<1>. QED
  BY <1>9, <1>14, <1>15 DEF Summed

LEMMA SumIsInt ==
  ASSUME NEW m \in Nat, NEW s \in [1..m -> Int]
  PROVE  CR!Total(s) \in Int /\ (m = 0 => CR!Total(s) = 0)
<1>1. PICK f : Summed(f, s, m)
  BY SumOf
<1>. QED
  BY <1>1 DEF Summed

(* One more adds what it is.                                               *)
LEMMA SumWithOneMore ==
  ASSUME NEW m \in Nat, NEW s \in [1..m -> Int], NEW t \in [1..m + 1 -> Int],
         \A k \in 1..m : t[k] = s[k]
  PROVE  CR!Total(t) = CR!Total(s) + t[m + 1]
<1>1. PICK f : Summed(f, s, m)
  BY SumOf
<1>2. PICK g : Summed(g, t, m + 1)
  <2>1. m + 1 \in Nat
    OBVIOUS
  <2>. QED
    BY <2>1, SumOf
<1> DEFINE Same == {k \in 0..m : f[k] = g[k]}
<1>3. 0 \in Same /\ \A k \in 0 + 1..m : k - 1 \in Same => k \in Same
  <2>1. f[0] = g[0]
    BY <1>1, <1>2 DEF Summed
  <2>2. ASSUME NEW k \in 0 + 1..m, f[k - 1] = g[k - 1] PROVE f[k] = g[k]
    <3>1. k \in 1..m /\ k \in 1..m + 1
      OBVIOUS
    <3>2. f[k] = f[k - 1] + s[k]
      BY <1>1, <3>1 DEF Summed
    <3>3. g[k] = g[k - 1] + t[k]
      BY <1>2, <3>1 DEF Summed
    <3>4. t[k] = s[k]
      BY <3>1
    <3>. QED
      BY <2>2, <3>2, <3>3, <3>4
  <2>. QED
    BY <2>1, <2>2
<1>4. \A k \in Same : f[k] = g[k]
  OBVIOUS
<1>. HIDE DEF Same
<1>5. \A k \in 0..m : k \in Same
  BY <1>3, StepByStep
<1>6. g[m + 1] = g[m] + t[m + 1]
  BY <1>2 DEF Summed
<1>7. g[m] = f[m]
  BY <1>4, <1>5
<1>. QED
  BY <1>1, <1>2, <1>6, <1>7 DEF Summed

(* Pieces are no more than the rod is long, and each is no longer.         *)
LEMMA SumOfPieces ==
  ASSUME NEW m \in Nat, NEW s \in [1..m -> Nat \ {0}]
  PROVE  CR!Total(s) >= m /\ \A k \in 1..m : s[k] <= CR!Total(s)
<1>1. s \in [1..m -> Int]
  OBVIOUS
<1>2. PICK f : Summed(f, s, m)
  BY <1>1, SumOf
<1>3. /\ f \in [0..m -> Int] /\ f[0] = 0 /\ CR!Total(s) = f[m]
      /\ \A k \in 1..m : f[k] = f[k - 1] + s[k]
  BY <1>2 DEF Summed
<1> DEFINE Many == {k \in 0..m : f[k] >= k}
<1>4. 0 \in Many /\ \A k \in 0 + 1..m : k - 1 \in Many => k \in Many
  <2>1. ASSUME NEW k \in 1..m, f[k - 1] >= k - 1 PROVE f[k] >= k
    <3>1. f[k] = f[k - 1] + s[k] /\ s[k] \in Nat \ {0} /\ f[k - 1] \in Int
      BY <1>3
    <3>. QED
      BY <2>1, <3>1
  <2>. QED
    BY <1>3, <2>1
<1>5. \A k \in Many : f[k] >= k
  OBVIOUS
<1>. HIDE DEF Many
<1>6. \A k \in 0..m : k \in Many
  BY <1>4, StepByStep
<1>7. ASSUME NEW k \in 1..m PROVE s[k] <= f[m]
  <2> DEFINE Longer == {q \in k..m : s[k] <= f[q]}
  <2>0. k \in Nat /\ s[k] \in Nat
    OBVIOUS
  <2>1. k \in Longer
    <3>1. f[k] = f[k - 1] + s[k]
      BY <1>3
    <3>2. k - 1 \in 0..m
      OBVIOUS
    <3>3. f[k - 1] >= k - 1 /\ f[k - 1] \in Int
      BY <1>3, <1>5, <1>6, <3>2
    <3>4. s[k] <= f[k]
      BY <2>0, <3>1, <3>3
    <3>. QED
      BY <3>4
  <2>2. ASSUME NEW q \in k + 1..m, q - 1 \in Longer PROVE q \in Longer
    <3>1. q \in 1..m /\ q - 1 \in 0..m /\ q \in k..m
      OBVIOUS
    <3>2. f[q] = f[q - 1] + s[q] /\ f[q - 1] \in Int /\ s[q] \in Nat
      BY <1>3, <3>1
    <3>3. s[k] <= f[q - 1]
      BY <2>2
    <3>4. s[k] <= f[q]
      BY <2>0, <3>2, <3>3
    <3>. QED
      BY <3>1, <3>4
  <2>3. m \in Longer => s[k] <= f[m]
    OBVIOUS
  <2>. HIDE DEF Longer
  <2>4. \A q \in k..m : q \in Longer
    BY <2>0, <2>1, <2>2, StepByStep
  <2>. QED
    BY <2>3, <2>4
<1>8. f[m] >= m
  BY <1>5, <1>6
<1>. QED
  BY <1>3, <1>7, <1>8

\* cut consists of m pieces, which make up a rod of length n.
Pieces(cut, m, n) == cut \in [1..m -> Nat \ {0}] /\ CR!Total(cut) = n

LEMMA CutsOf ==
  ASSUME NEW n \in 0..RodLength, RodLength \in Nat
  PROVE  \A cut : cut \in CR!Cuts[n] <=> \E m \in Nat : Pieces(cut, m, n)
<1>1. CR!Cuts[n] = {cut \in CR!BoundedSeq(1..n, n) : CR!Total(cut) = n}
  BY DEF CR!Cuts
<1>2. \A cut : cut \in CR!BoundedSeq(1..n, n) <=> \E m \in 0..n : cut \in [1..m -> 1..n]
  BY DEF CR!BoundedSeq, CR!SeqOf
<1>3. ASSUME NEW cut, NEW m \in 0..n, cut \in [1..m -> 1..n], CR!Total(cut) = n
      PROVE  \E k \in Nat : Pieces(cut, k, n)
  <2>1. m \in Nat /\ cut \in [1..m -> Nat \ {0}]
    BY <1>3
  <2>. QED
    BY <1>3, <2>1 DEF Pieces
<1>4. ASSUME NEW cut, NEW m \in Nat, Pieces(cut, m, n)
      PROVE  m \in 0..n /\ cut \in [1..m -> 1..n] /\ CR!Total(cut) = n
  <2>1. cut \in [1..m -> Nat \ {0}] /\ CR!Total(cut) = n
    BY <1>4 DEF Pieces
  <2>2. n >= m /\ \A k \in 1..m : cut[k] <= n
    BY <2>1, SumOfPieces
  <2>. QED
    BY <2>1, <2>2
<1>. QED
  BY <1>1, <1>2, <1>3, <1>4

(* The largest of a list of numbers is there.                              *)
LEMMA LargestOf ==
  ASSUME NEW n \in Nat, n > 0, NEW v \in [1..n -> Int]
  PROVE  \E j \in 1..n : \A l \in 1..n : v[l] <= v[j]
<1> DEFINE Good == {m \in 1..n : \E j \in 1..m : \A l \in 1..m : v[l] <= v[j]}
<1>1. 1 \in Good
  OBVIOUS
<1>2. ASSUME NEW m \in 1 + 1..n, m - 1 \in Good PROVE m \in Good
  <2>1. PICK j \in 1..m - 1 : \A l \in 1..m - 1 : v[l] <= v[j]
    BY <1>2
  <2>2. m \in 1..n /\ v[m] \in Int /\ v[j] \in Int
    OBVIOUS
  <2>3. \A l \in 1..m : v[l] \in Int /\ (l \in 1..m - 1 \/ l = m)
    OBVIOUS
  <2>4. CASE v[m] <= v[j]
    <3>1. j \in 1..m /\ \A l \in 1..m : v[l] <= v[j]
      BY <2>1, <2>3, <2>4
    <3>. QED
      BY <2>2, <3>1
  <2>5. CASE v[j] <= v[m]
    <3>1. m \in 1..m /\ \A l \in 1..m : v[l] <= v[m]
      BY <2>1, <2>2, <2>3, <2>5
    <3>. QED
      BY <2>2, <3>1
  <2>. QED
    BY <2>2, <2>4, <2>5
<1>3. n \in Good => \E j \in 1..n : \A l \in 1..n : v[l] <= v[j]
  OBVIOUS
<1>. HIDE DEF Good
<1>4. \A m \in 1..n : m \in Good
  BY <1>1, <1>2, StepByStep
<1>. QED
  BY <1>3, <1>4

LEMMA MaxIs ==
  ASSUME NEW S \in SUBSET Int, NEW b \in S, \A x \in S : x <= b
  PROVE  CR!Max(S) = b
<1>1. \A x \in S : (\A y \in S : x >= y) => x = b
  OBVIOUS
<1>2. \A y \in S : b >= y
  OBVIOUS
<1>. QED
  BY <1>1, <1>2 DEF CR!Max

LEMMA RodConstants ==
  RodLength \in Nat \ {0} /\ Price \subseteq Int /\ MinusInfinity \in Int
BY ProgramsAssumption DEF ProgramsAssumption, CR!RodAssumption

LEMMA LessThanAnyMoney ==
  \A p \in Price, pieces \in 0..RodLength : MinusInfinity < pieces * p
BY ProgramsAssumption DEF ProgramsAssumption, CR!RodAssumption

PriceList(prices) == prices \in [1..RodLength -> Price]
Fits(n) == n \in 0..RodLength
Numbers(s, m) == s \in [1..m -> Int]

\* INT_MIN, what is not known yet, is no money that can be made.
LEMMA MinusInfinityIsLess ==
  ASSUME NEW prices, PriceList(prices)
  PROVE  MinusInfinity < 0
<1>1. 1 \in 1..RodLength /\ 0 \in 0..RodLength /\ Price \subseteq Int
  BY RodConstants
<1>2. prices[1] \in Price
  BY <1>1 DEF PriceList
<1>3. PICK none \in 0..RodLength : none = 0
  BY <1>1
<1>4. MinusInfinity < none * prices[1]
  BY <1>2, LessThanAnyMoney
<1>5. none * prices[1] = 0
  <2>1. prices[1] \in Int
    BY <1>1, <1>2
  <2>2. \A money \in Int : 0 * money = 0
    OBVIOUS
  <2>. QED
    BY <1>3, <2>1, <2>2
<1>. QED
  BY <1>4, <1>5

LEMMA PiecesBring ==
  ASSUME NEW prices, PriceList(prices), NEW n, Fits(n), NEW m \in Nat,
         NEW cut, Pieces(cut, m, n)
  PROVE  /\ Numbers([k \in DOMAIN cut |-> prices[cut[k]]], m)
         /\ CR!Money(prices, cut) \in Int
<1>0. n \in 0..RodLength /\ prices \in [1..RodLength -> Price]
  BY DEF PriceList, Fits
<1>1. cut \in [1..m -> Nat \ {0}] /\ CR!Total(cut) = n
  BY DEF Pieces
<1>2. cut \in [1..m -> 1..n]
  BY <1>0, <1>1, SumOfPieces
<1>3. [k \in DOMAIN cut |-> prices[cut[k]]] \in [1..m -> Int]
  <2>1. \A k \in 1..m : cut[k] \in 1..RodLength
    BY <1>0, <1>2, RodConstants
  <2>2. \A j \in 1..RodLength : prices[j] \in Int
    BY <1>0, RodConstants
  <2>3. DOMAIN cut = 1..m
    BY <1>1
  <2>. QED
    BY <2>1, <2>2, <2>3
<1>. QED
  BY <1>3, SumIsInt DEF CR!Money, Numbers

\* longer is cut and one more piece, which brings its price.
OneMore(longer, cut, m) == \A q \in 1..m : longer[q] = cut[q]
Pays(prices, longer, cut, j) ==
  CR!Money(prices, longer) = CR!Money(prices, cut) + prices[j]

LEMMA OneMorePiece ==
  ASSUME NEW prices, PriceList(prices), NEW n, Fits(n), NEW m \in Nat,
         NEW k, Fits(k), NEW cut, NEW longer,
         Pieces(cut, m, k), Pieces(longer, m + 1, n),
         OneMore(longer, cut, m)
  PROVE  Pays(prices, longer, cut, longer[m + 1])
<1> DEFINE s == [q \in DOMAIN cut |-> prices[cut[q]]]
           t == [q \in DOMAIN longer |-> prices[longer[q]]]
<1>0. m + 1 \in Nat
  OBVIOUS
<1>1. Numbers(s, m) /\ Numbers(t, m + 1)
  BY <1>0, PiecesBring, Zenon
<1>2. DOMAIN cut = 1..m /\ DOMAIN longer = 1..m + 1
  BY DEF Pieces
<1>3. (\A q \in 1..m : t[q] = s[q]) /\ t[m + 1] = prices[longer[m + 1]]
  BY <1>2 DEF OneMore
<1>4. CR!Money(prices, longer) = CR!Total(t) /\ CR!Money(prices, cut) = CR!Total(s)
  BY DEF CR!Money
<1>. HIDE DEF s, t
<1>. QED
  BY <1>1, <1>3, <1>4, SumWithOneMore DEF Numbers, Pays

LEMMA AddPiece ==
  ASSUME NEW prices, PriceList(prices), NEW n, Fits(n), NEW j \in 1..n,
         NEW m \in Nat, NEW cut, Pieces(cut, m, n - j)
  PROVE  \E longer : Pieces(longer, m + 1, n) /\ Pays(prices, longer, cut, j)
<1> DEFINE longer == [q \in 1..m + 1 |-> IF q = m + 1 THEN j ELSE cut[q]]
<1>0. Fits(n - j) /\ n \in Nat
  BY RodConstants DEF Fits
<1>1. cut \in [1..m -> Nat \ {0}] /\ CR!Total(cut) = n - j
  BY DEF Pieces
<1>2. longer \in [1..m + 1 -> Nat \ {0}] /\ longer[m + 1] = j
  BY <1>1
<1>3. \A q \in 1..m : longer[q] = cut[q]
  OBVIOUS
<1>. HIDE DEF longer
<1>4. CR!Total(longer) = CR!Total(cut) + j
  <2>1. cut \in [1..m -> Int] /\ longer \in [1..m + 1 -> Int]
    BY <1>1, <1>2
  <2>. QED
    BY <1>2, <1>3, <2>1, SumWithOneMore
<1>5. Pieces(longer, m + 1, n)
  BY <1>0, <1>1, <1>2, <1>4 DEF Pieces
<1>6. Pays(prices, longer, cut, longer[m + 1])
  <2>1. OneMore(longer, cut, m)
    BY <1>3 DEF OneMore
  <2>. QED
    BY <1>0, <1>5, <2>1, OneMorePiece, Zenon
<1>. QED
  BY <1>2, <1>5, <1>6

LEMMA TakePiece ==
  ASSUME NEW prices, PriceList(prices), NEW n, Fits(n), n # 0,
         NEW m \in Nat, NEW longer, Pieces(longer, m, n)
  PROVE  \E j \in 1..n, k \in Nat : \E cut :
           Pieces(cut, k, n - j) /\ Pays(prices, longer, cut, j)
<1>1. longer \in [1..m -> Nat \ {0}] /\ CR!Total(longer) = n /\ n \in Nat
  BY DEF Pieces, Fits
<1>2. m # 0
  BY <1>1, SumIsInt
<1>3. PICK k \in Nat : m = k + 1
  BY <1>2
<1> DEFINE cut == [q \in 1..k |-> longer[q]]  j == longer[k + 1]
<1>4. /\ cut \in [1..k -> Nat \ {0}] /\ j \in Nat \ {0}
      /\ \A q \in 1..k : longer[q] = cut[q]
      /\ longer \in [1..k + 1 -> Int] /\ cut \in [1..k -> Int]
  BY <1>1, <1>3
<1>. HIDE DEF cut
<1>5. CR!Total(longer) = CR!Total(cut) + j
  BY <1>4, SumWithOneMore
<1>6. CR!Total(cut) \in Int /\ CR!Total(cut) >= k
  BY <1>4, SumIsInt, SumOfPieces
<1>7. j \in 1..n /\ CR!Total(cut) = n - j
  BY <1>1, <1>4, <1>5, <1>6
<1>8. Pieces(cut, k, n - j)
  BY <1>4, <1>7 DEF Pieces
<1>9. Pays(prices, longer, cut, j)
  <2>1. Fits(n - j)
    BY <1>1, <1>7, RodConstants DEF Fits
  <2>2. Pieces(longer, k + 1, n)
    BY <1>3
  <2>3. OneMore(longer, cut, k)
    BY <1>4 DEF OneMore
  <2>. QED
    BY <1>8, <2>1, <2>2, <2>3, OneMorePiece, Zenon
<1>. QED
  BY <1>7, <1>8, <1>9

\* No way to cut brings more than b, and one brings that.
IsBest(prices, n, b) ==
  /\ b \in Int
  /\ \E m \in Nat : \E cut : Pieces(cut, m, n) /\ CR!Money(prices, cut) = b
  /\ \A m \in Nat : \A cut : Pieces(cut, m, n) => CR!Money(prices, cut) <= b

LEMMA BestIs ==
  ASSUME NEW prices, PriceList(prices), NEW n, Fits(n), NEW b, IsBest(prices, n, b)
  PROVE  CR!Best(prices, n) = b
<1> DEFINE S == {CR!Money(prices, cut) : cut \in CR!Cuts[n]}
<1>1. \A cut : cut \in CR!Cuts[n] <=> \E m \in Nat : Pieces(cut, m, n)
  BY CutsOf, RodConstants DEF Fits
<1>2. \A m \in Nat : \A cut : Pieces(cut, m, n) => CR!Money(prices, cut) \in Int
  BY PiecesBring, Zenon
<1>3. S \in SUBSET Int /\ b \in S /\ \A x \in S : x <= b
  BY <1>1, <1>2 DEF IsBest
<1>. HIDE DEF S
<1>4. CR!Max(S) = b
  BY <1>3, MaxIs
<1>. QED
  BY <1>4 DEF S, CR!Best

LEMMA NothingToCut == \A prices : PriceList(prices) => IsBest(prices, 0, 0)
<1>. SUFFICES ASSUME NEW prices, PriceList(prices) PROVE IsBest(prices, 0, 0)
  OBVIOUS
<1>1. Fits(0)
  BY RodConstants DEF Fits
<1>2. ASSUME NEW m \in Nat, NEW cut, Pieces(cut, m, 0) PROVE CR!Money(prices, cut) = 0
  <2> DEFINE s == [k \in DOMAIN cut |-> prices[cut[k]]]
  <2>1. cut \in [1..m -> Nat \ {0}] /\ CR!Total(cut) = 0
    BY <1>2 DEF Pieces
  <2>2. m = 0
    BY <2>1, SumOfPieces
  <2>3. Numbers(s, m)
    BY <1>1, <1>2, PiecesBring, Zenon
  <2>4. CR!Money(prices, cut) = CR!Total(s)
    BY DEF CR!Money
  <2>. HIDE DEF s
  <2>. QED
    BY <2>2, <2>3, <2>4, SumIsInt DEF Numbers
<1>3. \E cut : Pieces(cut, 0, 0)
  <2> DEFINE cut == [q \in 1..0 |-> 1]
  <2>1. cut \in [1..0 -> Nat \ {0}] /\ cut \in [1..0 -> Int]
    OBVIOUS
  <2>. HIDE DEF cut
  <2>2. CR!Total(cut) = 0
    BY <2>1, SumIsInt
  <2>. QED
    BY <2>1, <2>2 DEF Pieces
<1>. QED
  BY <1>2, <1>3 DEF IsBest

(* The best is that of the best last piece.                                *)
LEMMA BestLastPiece ==
  ASSUME NEW prices, PriceList(prices), NEW n, Fits(n), n # 0,
         NEW v \in [1..n -> Int], \A j \in 1..n : IsBest(prices, n - j, v[j])
  PROVE  \E j \in 1..n : /\ IsBest(prices, n, prices[j] + v[j])
                         /\ \A l \in 1..n : prices[l] + v[l] <= prices[j] + v[j]
<1>1. n \in Nat /\ n > 0 /\ n <= RodLength /\ RodLength \in Nat
  BY RodConstants DEF Fits
<1>2. \A j \in 1..n : prices[j] \in Int
  <2>1. \A j \in 1..n : j \in 1..RodLength
    BY <1>1
  <2>2. \A j \in 1..RodLength : prices[j] \in Price
    BY DEF PriceList
  <2>. QED
    BY <2>1, <2>2, RodConstants
<1> DEFINE w == [j \in 1..n |-> prices[j] + v[j]]
<1>3. w \in [1..n -> Int] /\ \A j \in 1..n : w[j] = prices[j] + v[j]
  BY <1>2
<1>. HIDE DEF w
<1>4. PICK j \in 1..n : \A l \in 1..n : w[l] <= w[j]
  BY <1>1, <1>3, LargestOf
<1>5. PICK m \in Nat :
        \E cut : Pieces(cut, m, n - j) /\ CR!Money(prices, cut) = v[j]
  BY DEF IsBest
<1>6. PICK cut : Pieces(cut, m, n - j) /\ CR!Money(prices, cut) = v[j]
  BY <1>5
<1>7. PICK longer : Pieces(longer, m + 1, n) /\ Pays(prices, longer, cut, j)
  BY <1>6, AddPiece, Zenon
<1>8. CR!Money(prices, longer) = w[j] /\ m + 1 \in Nat
  BY <1>2, <1>3, <1>6, <1>7 DEF Pays
<1>9. ASSUME NEW k \in Nat, NEW other, Pieces(other, k, n)
      PROVE  CR!Money(prices, other) <= w[j]
  <2>1. PICK l \in 1..n, q \in Nat :
          \E first : Pieces(first, q, n - l) /\ Pays(prices, other, first, l)
    BY <1>9, TakePiece, Zenon
  <2>2. PICK first : Pieces(first, q, n - l) /\ Pays(prices, other, first, l)
    BY <2>1
  <2>3. CR!Money(prices, first) <= v[l]
    BY <2>2 DEF IsBest
  <2>4. CR!Money(prices, first) \in Int
    <3>1. Fits(n - l)
      BY <1>1 DEF Fits
    <3>. QED
      BY <2>2, <3>1, PiecesBring, Zenon
  <2>5. CR!Money(prices, other) = CR!Money(prices, first) + prices[l]
    BY <2>2 DEF Pays
  <2>6. CR!Money(prices, other) <= w[l] /\ CR!Money(prices, other) \in Int
    BY <1>2, <1>3, <2>3, <2>4, <2>5
  <2>. QED
    BY <1>3, <1>4, <2>6
<1>10. IsBest(prices, n, w[j])
  BY <1>3, <1>7, <1>8, <1>9 DEF IsBest
<1>. QED
  BY <1>3, <1>4, <1>10

LEMMA BestThere ==
  ASSUME NEW prices, PriceList(prices), NEW n, Fits(n)
  PROVE  IsBest(prices, n, CR!Best(prices, n))
<1> DEFINE Good == {k \in 0..RodLength : \A j \in 0..k : IsBest(prices, j, CR!Best(prices, j))}
<1>0. RodLength \in Nat /\ n \in 0..RodLength
  BY RodConstants DEF Fits
<1>1. 0 \in Good
  <2>1. Fits(0) /\ IsBest(prices, 0, 0)
    BY <1>0, NothingToCut DEF Fits
  <2>2. CR!Best(prices, 0) = 0
    BY <2>1, BestIs
  <2>. QED
    BY <1>0, <2>1, <2>2
<1>2. ASSUME NEW k \in 0 + 1..RodLength, k - 1 \in Good PROVE k \in Good
  <2> DEFINE v == [j \in 1..k |-> CR!Best(prices, k - j)]
  <2>1. k \in 0..RodLength /\ k # 0 /\ k \in Nat
    BY <1>0
  <2>2. \A j \in 0..k - 1 : IsBest(prices, j, CR!Best(prices, j))
    BY <1>2
  <2>3. \A j \in 1..k : IsBest(prices, k - j, CR!Best(prices, k - j))
    BY <2>1, <2>2
  <2>4. v \in [1..k -> Int] /\ \A j \in 1..k : IsBest(prices, k - j, v[j])
    BY <2>3 DEF IsBest
  <2>. HIDE DEF v
  <2>5. Fits(k)
    BY <2>1 DEF Fits
  <2>6. PICK b : IsBest(prices, k, b)
    BY <2>1, <2>4, <2>5, BestLastPiece
  <2>7. IsBest(prices, k, CR!Best(prices, k))
    BY <2>5, <2>6, BestIs
  <2>8. \A j \in 0..k : j \in 0..k - 1 \/ j = k
    BY <2>1
  <2>. QED
    BY <2>1, <2>2, <2>7, <2>8
<1>3. n \in Good => IsBest(prices, n, CR!Best(prices, n))
  BY <1>0
<1>. HIDE DEF Good
<1>4. \A k \in 0..RodLength : k \in Good
  BY <1>0, <1>1, <1>2, StepByStep
<1>. QED
  BY <1>0, <1>3, <1>4

\* What the programs go by.
BestByPieces(prices, n) ==
  /\ CR!Best(prices, n) \in Int
  /\ n = 0 => CR!Best(prices, n) = 0
  /\ n # 0 => \E j \in 1..n : CR!Best(prices, n) = prices[j] + CR!Best(prices, n - j)
  /\ \A j \in 1..n : prices[j] + CR!Best(prices, n - j) <= CR!Best(prices, n)
  /\ MinusInfinity < CR!Best(prices, n)

LEMMA BestByFirstPiece ==
  ASSUME NEW prices, PriceList(prices), NEW n, Fits(n), n # 0
  PROVE  /\ \E j \in 1..n : CR!Best(prices, n) = prices[j] + CR!Best(prices, n - j)
         /\ \A j \in 1..n : prices[j] + CR!Best(prices, n - j) <= CR!Best(prices, n)
<1> DEFINE v == [j \in 1..n |-> CR!Best(prices, n - j)]
<1>1. ASSUME NEW j \in 1..n PROVE IsBest(prices, n - j, CR!Best(prices, n - j))
  <2>1. Fits(n - j)
    BY RodConstants DEF Fits
  <2>. QED
    BY <2>1, BestThere
<1>2. /\ v \in [1..n -> Int] /\ \A j \in 1..n : IsBest(prices, n - j, v[j])
      /\ \A j \in 1..n : v[j] = CR!Best(prices, n - j)
  BY <1>1 DEF IsBest
<1>. HIDE DEF v
<1>3. PICK j \in 1..n : /\ IsBest(prices, n, prices[j] + v[j])
                         /\ \A l \in 1..n : prices[l] + v[l] <= prices[j] + v[j]
  BY <1>2, BestLastPiece
<1>4. CR!Best(prices, n) = prices[j] + v[j]
  BY <1>3, BestIs
<1>. QED
  BY <1>2, <1>3, <1>4

LEMMA BestProperties ==
  ASSUME NEW prices, PriceList(prices), NEW n, Fits(n)
  PROVE  BestByPieces(prices, n)
<1>1. \A k : Fits(k) => CR!Best(prices, k) \in Int
  BY BestThere DEF IsBest
<1>2. CR!Best(prices, 0) = 0
  <2>1. Fits(0) /\ IsBest(prices, 0, 0)
    BY RodConstants, NothingToCut DEF Fits
  <2>. QED
    BY <2>1, BestIs
<1> DEFINE p == prices[1]
           Good == {k \in 0..RodLength : k * p <= CR!Best(prices, k)}
<1>3. RodLength \in Nat \ {0} /\ p \in Price /\ p \in Int
  <2>1. RodLength \in Nat \ {0} /\ Price \subseteq Int
    BY RodConstants
  <2>2. 1 \in 1..RodLength
    BY <2>1
  <2>3. p \in Price
    BY <2>2 DEF PriceList
  <2>. QED
    BY <2>1, <2>3
<1>4. 0 \in Good
  BY <1>2, <1>3
<1>5. ASSUME NEW k \in 0 + 1..RodLength, k - 1 \in Good PROVE k \in Good
  <2>1. Fits(k) /\ Fits(k - 1) /\ k # 0 /\ 1 \in 1..k /\ k \in Int
    BY <1>3 DEF Fits
  <2>2. p + CR!Best(prices, k - 1) <= CR!Best(prices, k)
    BY <2>1, BestByFirstPiece
  <2>3. CR!Best(prices, k) \in Int /\ CR!Best(prices, k - 1) \in Int
    BY <1>1, <2>1
  <2>4. (k - 1) * p <= CR!Best(prices, k - 1)
    BY <1>5
  <2>5. k * p = (k - 1) * p + p /\ k * p \in Int /\ (k - 1) * p \in Int
    BY <1>3, <2>1
  <2>6. k * p <= CR!Best(prices, k)
    <3>1. \A a, b, c, d, e \in Int : a = b + c /\ b <= d /\ c + d <= e => a <= e
      OBVIOUS
    <3>. QED
      BY <1>3, <2>2, <2>3, <2>4, <2>5, <3>1
  <2>. QED
    BY <2>6
<1>6. n \in Good => n * p <= CR!Best(prices, n)
  OBVIOUS
<1>. HIDE DEF Good
<1>7. n * p <= CR!Best(prices, n)
  <2>1. \A k \in 0..RodLength : k \in Good
    BY <1>3, <1>4, <1>5, StepByStep
  <2>. QED
    BY <1>6, <2>1 DEF Fits
<1>8. MinusInfinity < CR!Best(prices, n)
  <2>1. MinusInfinity < n * p /\ n * p \in Int /\ MinusInfinity \in Int
    BY <1>3, RodConstants, LessThanAnyMoney DEF Fits
  <2>. QED
    BY <1>1, <1>7, <2>1
<1>9. n # 0 => /\ \E j \in 1..n : CR!Best(prices, n) = prices[j] + CR!Best(prices, n - j)
               /\ \A j \in 1..n : prices[j] + CR!Best(prices, n - j) <= CR!Best(prices, n)
  BY BestByFirstPiece
<1>10. n = 0 => 1..n = {}
  OBVIOUS
<1>. QED
  BY <1>1, <1>2, <1>8, <1>9, <1>10 DEF BestByPieces

\* CR!TriedSoFar and CR!CallsWait of any prices and calls.
HasTried(prices, frame) ==
  LET tried == {prices[piece] + CR!Best(prices, frame.len - piece) : piece \in 1..frame.i - 1}
      least == IF frame.len = 0 THEN 0 ELSE MinusInfinity
  IN frame.ret \in tried \cup {least} /\ \A money \in tried : money <= frame.ret

RightCalls(prices, stack, n) ==
  /\ \A p \in 1..Len(stack) : HasTried(prices, stack[p])
  /\ stack # <<>> => stack[Len(stack)].len = n
  /\ \A p \in 1..Len(stack) - 1 : stack[p + 1].len - stack[p + 1].i = stack[p].len

LEMMA HasTriedSays ==
  ASSUME NEW prices, NEW frame
  PROVE  HasTried(prices, frame) <=>
           /\ \/ frame.ret = IF frame.len = 0 THEN 0 ELSE MinusInfinity
              \/ \E j \in 1..frame.i - 1 :
                   frame.ret = prices[j] + CR!Best(prices, frame.len - j)
           /\ \A j \in 1..frame.i - 1 :
                prices[j] + CR!Best(prices, frame.len - j) <= frame.ret
BY DEF HasTried

(* A call that begins, one that gets what it waits for, and one that ends. *)
LEMMA FirstTried ==
  ASSUME NEW prices, NEW n \in Nat
  PROVE  HasTried(prices, CR!Frame(n))
<1>1. /\ CR!Frame(n).i = 1 /\ CR!Frame(n).len = n
      /\ CR!Frame(n).ret = IF n = 0 THEN 0 ELSE MinusInfinity
  BY DEF CR!Frame
<1>2. 1..1 - 1 = {}
  OBVIOUS
<1>. QED
  BY <1>1, <1>2, HasTriedSays

LEMMA OneMoreTried ==
  ASSUME NEW V, NEW frame \in FramesOf(V), PriceList(price_array), Fits(frame.len),
         frame.i \in 1..frame.len, HasTried(price_array, frame),
         NEW value, value = CR!Best(price_array, frame.len - frame.i)
  PROVE  HasTried(price_array, CR!Returned(frame, value))
<1> DEFINE n == frame.len  k == frame.i  old == frame.ret
           worth(j) == price_array[j] + CR!Best(price_array, n - j)
           new == CR!Returned(frame, value)
<1>1. n \in Nat /\ k \in 1..n /\ n <= RodLength /\ k - 1 \in Nat
  BY RodConstants DEF Fits
<1>2. \A j \in 1..n : worth(j) \in Int
  <2>. SUFFICES ASSUME NEW j \in 1..n PROVE worth(j) \in Int
    OBVIOUS
  <2>1. Fits(n - j) /\ j \in 1..RodLength
    BY <1>1, RodConstants DEF Fits
  <2>2. CR!Best(price_array, n - j) \in Int
    BY <2>1, BestProperties DEF BestByPieces
  <2>3. price_array[j] \in Int
    <3>1. price_array[j] \in Price
      BY <2>1 DEF PriceList
    <3>. QED
      BY <3>1, RodConstants
  <2>. QED
    BY <2>2, <2>3
<1>3. /\ \/ old = IF n = 0 THEN 0 ELSE MinusInfinity
         \/ \E j \in 1..k - 1 : old = worth(j)
      /\ \A j \in 1..k - 1 : worth(j) <= old
  BY HasTriedSays
<1>4. old \in Int
  BY <1>1, <1>2, <1>3, RodConstants
<1>5. /\ new.len = n /\ new.i = k + 1
      /\ new.ret = IF old > worth(k) THEN old ELSE worth(k)
  BY DEF CR!Returned, CR!Larger, FramesOf
<1>. HIDE DEF new, worth, n, k, old
<1>6. worth(k) \in Int /\ new.ret \in Int /\ worth(k) <= new.ret /\ old <= new.ret
  BY <1>1, <1>2, <1>4, <1>5
<1>7. \A j \in 1..k : worth(j) <= new.ret
  <2>. SUFFICES ASSUME NEW j \in 1..k PROVE worth(j) <= new.ret
    OBVIOUS
  <2>1. CASE j = k
    BY <1>6, <2>1
  <2>2. CASE j # k
    <3>1. j \in 1..k - 1 /\ j \in 1..n
      BY <1>1, <2>2
    <3>2. worth(j) <= old /\ worth(j) \in Int
      BY <1>2, <1>3, <3>1
    <3>. QED
      BY <1>4, <1>6, <3>2
  <2>. QED
    BY <2>1, <2>2
<1>8. \/ new.ret = IF n = 0 THEN 0 ELSE MinusInfinity
      \/ \E j \in 1..k : new.ret = worth(j)
  <2>1. new.ret = worth(k) \/ new.ret = old
    BY <1>5
  <2>2. \A j \in 1..k - 1 : j \in 1..k
    BY <1>1
  <2>3. k \in 1..k
    BY <1>1
  <2>. QED
    BY <1>3, <2>1, <2>2, <2>3
<1>9. new.i - 1 = k
  BY <1>1, <1>5
<1>. QED
  BY <1>5, <1>7, <1>8, <1>9, HasTriedSays DEF new, worth, n

LEMMA AllTried ==
  ASSUME NEW prices, PriceList(prices), NEW frame, Fits(frame.len),
         frame.i = frame.len + 1, HasTried(prices, frame)
  PROVE  frame.ret = CR!Best(prices, frame.len)
<1> DEFINE n == frame.len  old == frame.ret  worth(j) == prices[j] + CR!Best(prices, n - j)
           best == CR!Best(prices, n)
<1>1. n \in Nat /\ frame.i - 1 = n
  BY RodConstants DEF Fits
<1>2. /\ old = (IF n = 0 THEN 0 ELSE MinusInfinity) \/ \E j \in 1..n : old = worth(j)
      /\ \A j \in 1..n : worth(j) <= old
  BY <1>1, HasTriedSays
<1>3. BestByPieces(prices, n)
  BY BestProperties
<1>4. /\ best \in Int
      /\ n = 0 => best = 0
      /\ n # 0 => \E j \in 1..n : best = worth(j)
      /\ \A j \in 1..n : worth(j) <= best
      /\ MinusInfinity < best
  BY <1>3 DEF BestByPieces
<1>5. \A j \in 1..n : worth(j) \in Int
  <2>. SUFFICES ASSUME NEW j \in 1..n PROVE worth(j) \in Int
    OBVIOUS
  <2>1. j \in 1..RodLength /\ Fits(n - j)
    BY RodConstants DEF Fits
  <2>2. prices[j] \in Int
    <3>1. prices[j] \in Price
      BY <2>1 DEF PriceList
    <3>. QED
      BY <3>1, RodConstants
  <2>3. CR!Best(prices, n - j) \in Int
    BY <2>1, BestProperties DEF BestByPieces
  <2>. QED
    BY <2>2, <2>3
<1>. HIDE DEF n, old, worth, best
<1>6. CASE n = 0
  <2>1. old = best
    BY <1>2, <1>4, <1>6
  <2>. QED
    BY <2>1 DEF old, best, n
<1>7. CASE n # 0
  <2>1. PICK j \in 1..n : best = worth(j)
    BY <1>4, <1>7
  <2>2. best <= old
    BY <1>2, <2>1
  <2>3. old # MinusInfinity
    BY <1>4, <2>2, RodConstants
  <2>4. PICK q \in 1..n : old = worth(q)
    BY <1>2, <1>7, <2>3
  <2>5. old <= best /\ old \in Int
    BY <1>4, <1>5, <2>4
  <2>6. old = best
    BY <1>4, <2>2, <2>5
  <2>. QED
    BY <2>6 DEF old, best, n
<1>. QED
  BY <1>6, <1>7

(* A call in front of those that wait.                                     *)
LEMMA FrontIsRight ==
  ASSUME NEW V, NEW frame \in FramesOf(V), NEW behind \in Seq(FramesOf(V)),
         NEW prices, NEW n, HasTried(prices, frame), RightCalls(prices, behind, n),
         behind = <<>> => frame.len = n,
         behind # <<>> => behind[1].len - behind[1].i = frame.len
  PROVE  RightCalls(prices, <<frame>> \o behind, n)
<1> DEFINE both == <<frame>> \o behind  m == Len(behind)
<1>1. /\ Len(both) = m + 1 /\ both[1] = frame
      /\ \A p \in 1..m : both[p + 1] = behind[p]
  BY CallInFront
<1>2. m \in Nat /\ (m = 0 <=> behind = <<>>)
  BY LenProperties, EmptySeq
<1>3. /\ \A p \in 1..m : HasTried(prices, behind[p])
      /\ m # 0 => behind[m].len = n
      /\ \A p \in 1..m - 1 : behind[p + 1].len - behind[p + 1].i = behind[p].len
      /\ m = 0 => frame.len = n
      /\ m # 0 => behind[1].len - behind[1].i = frame.len
  BY <1>2 DEF RightCalls
<1>. HIDE DEF both, m
<1>4. ASSUME NEW p \in 1..m + 1 PROVE HasTried(prices, both[p])
  <2>1. CASE p = 1
    BY <1>1, <2>1
  <2>2. CASE p # 1
    <3>1. p - 1 \in 1..m /\ (p - 1) + 1 = p
      BY <1>2, <2>2
    <3>2. both[p] = behind[p - 1]
      BY <1>1, <3>1
    <3>. QED
      BY <1>3, <3>1, <3>2
  <2>. QED
    BY <2>1, <2>2
<1>5. both[m + 1].len = n
  <2>1. CASE m = 0
    BY <1>1, <1>3, <2>1
  <2>2. CASE m # 0
    <3>1. m \in 1..m
      BY <1>2, <2>2
    <3>. QED
      BY <1>1, <1>3, <2>2, <3>1
  <2>. QED
    BY <2>1, <2>2
<1>6. ASSUME NEW p \in 1..m PROVE both[p + 1].len - both[p + 1].i = both[p].len
  <2>0. both[p + 1] = behind[p]
    BY <1>1
  <2>1. CASE p = 1
    BY <1>1, <1>2, <1>3, <2>0, <2>1
  <2>2. CASE p # 1
    <3>1. p - 1 \in 1..m /\ (p - 1) + 1 = p /\ p - 1 \in 1..m - 1
      BY <1>2, <2>2
    <3>2. both[p] = behind[p - 1] /\ behind[p].len - behind[p].i = behind[p - 1].len
      BY <1>1, <1>3, <3>1
    <3>. QED
      BY <2>0, <3>2
  <2>. QED
    BY <2>1, <2>2
<1>7. Len(both) - 1 = m
  BY <1>1, <1>2
<1>. QED
  BY <1>1, <1>4, <1>5, <1>6, <1>7 DEF RightCalls, both

LEMMA BehindIsRight ==
  ASSUME NEW V, NEW stack \in Seq(FramesOf(V)), stack # <<>>, NEW prices, NEW n,
         RightCalls(prices, stack, n)
  PROVE  /\ HasTried(prices, Head(stack))
         /\ RightCalls(prices, Tail(stack), n)
         /\ Tail(stack) = <<>> => Head(stack).len = n
         /\ Tail(stack) # <<>> => Head(Tail(stack)).len - Head(Tail(stack)).i = Head(stack).len
<1> DEFINE F == FramesOf(V)  behind == Tail(stack)  m == Len(behind)
<1>. HIDE DEF F
<1>0. stack \in Seq(F)
  BY DEF F
<1>1. /\ behind \in Seq(F) /\ Len(behind) = Len(stack) - 1 /\ Head(stack) = stack[1]
      /\ \A p \in 1..m : behind[p] = stack[p + 1]
  BY <1>0, HeadTailProperties
<1>2. m \in Nat /\ Len(stack) \in Nat /\ Len(stack) = m + 1 /\ (m = 0 <=> behind = <<>>)
  <2>1. m \in Nat /\ Len(stack) \in Nat
    BY <1>0, <1>1, LenProperties
  <2>2. m = 0 <=> behind = <<>>
    BY <1>1, <2>1, EmptySeq
  <2>3. Len(stack) = m + 1
    <3>. HIDE DEF m
    <3>. QED
      BY ONLY <1>1, <2>1 DEF m
  <2>. QED
    BY <2>1, <2>2, <2>3
<1>3. behind # <<>> => Head(behind) = behind[1]
  BY <1>1
<1>. HIDE DEF behind, m
<1>4. /\ \A p \in 1..m + 1 : HasTried(prices, stack[p])
      /\ stack[m + 1].len = n
      /\ \A p \in 1..m : stack[p + 1].len - stack[p + 1].i = stack[p].len
  <2>1. Len(stack) = m + 1 /\ Len(stack) - 1 = m
    BY ONLY <1>2
  <2>2. /\ \A p \in 1..Len(stack) : HasTried(prices, stack[p])
        /\ stack[Len(stack)].len = n
        /\ \A p \in 1..Len(stack) - 1 : stack[p + 1].len - stack[p + 1].i = stack[p].len
    BY DEF RightCalls
  <2>. QED
    BY ONLY <2>1, <2>2
<1>5. HasTried(prices, stack[1])
  BY <1>2, <1>4
<1>6. ASSUME NEW p \in 1..m PROVE HasTried(prices, behind[p])
  <2>1. p + 1 \in 1..m + 1
    BY <1>2
  <2>. QED
    BY <1>1, <1>4, <2>1
<1>7. m # 0 => behind[m].len = n
  <2>1. m # 0 => m \in 1..m
    BY <1>2
  <2>. QED
    BY <1>1, <1>4, <2>1
<1>8. ASSUME NEW p \in 1..m - 1 PROVE behind[p + 1].len - behind[p + 1].i = behind[p].len
  <2>1. p \in 1..m /\ p + 1 \in 1..m
    BY <1>2
  <2>2. behind[p + 1] = stack[p + 1 + 1] /\ behind[p] = stack[p + 1]
    BY <1>1, <2>1
  <2>3. stack[p + 1 + 1].len - stack[p + 1 + 1].i = stack[p + 1].len
    BY <1>4, <2>1
  <2>. QED
    BY <2>2, <2>3
<1>9. m = 0 => stack[1].len = n
  BY <1>4
<1>10. m # 0 => behind[1].len - behind[1].i = stack[1].len
  <2>1. m # 0 => 1 \in 1..m
    BY <1>2
  <2>. QED
    BY <1>1, <1>4, <2>1
<1>11. RightCalls(prices, behind, n)
  BY <1>2, <1>6, <1>7, <1>8 DEF RightCalls, m
<1>. QED
  BY <1>1, <1>2, <1>3, <1>5, <1>9, <1>10, <1>11 DEF behind

\* What is kept and printed is right, of any prices and profits.
RightProfits(prices, kept, n, shown) ==
  /\ shown # MinusInfinity => shown = CR!Best(prices, n)
  /\ \A k \in DOMAIN kept : kept[k] # MinusInfinity => kept[k] = CR!Best(prices, k)

LEMMA OptimalInvSays ==
  CR!OptimalInv <=>
    /\ CR!IInv
    /\ PriceList(price_array) /\ len \in 1..RodLength
    /\ RightCalls(price_array, calls, len)
    /\ RightProfits(price_array, profits, len, ret)
    /\ CR!FilledSoFar
BY DEF CR!OptimalInv, CR!TriedSoFar, CR!CallsWait, CR!Optimal, PriceList, HasTried,
       RightCalls, RightProfits

LEMMA OptimalInvSaysNext ==
  CR!OptimalInv' <=>
    /\ CR!IInv'
    /\ PriceList(price_array') /\ len' \in 1..RodLength
    /\ RightCalls(price_array', calls', len')
    /\ RightProfits(price_array', profits', len', ret')
    /\ CR!FilledSoFar'
BY DEF CR!OptimalInv, CR!TriedSoFar, CR!CallsWait, CR!Optimal, PriceList, HasTried,
       RightCalls, RightProfits

LEMMA RodBegins == CR!Init => CR!OptimalInv
<1>. SUFFICES ASSUME CR!Init PROVE CR!OptimalInv
  OBVIOUS
<1>1. PriceList(price_array) /\ len \in 1..RodLength /\ len \in Nat /\ ret = MinusInfinity
  <2>1. CR!Start
    BY Zenon DEF CR!Init, CR!BottomUp, CR!Memoized
  <2>. QED
    BY <2>1, RodConstants DEF CR!Start, PriceList
<1>2. CR!Best(price_array, 0) = 0
  <2>1. Fits(0)
    BY RodConstants DEF Fits
  <2>. QED
    BY <1>1, <2>1, BestProperties DEF BestByPieces
<1>3. RightProfits(price_array, profits, len, ret)
  <2>1. profits \in {[k \in 0..len |-> IF k = 0 THEN 0 ELSE MinusInfinity],
                     [k \in 0..len |-> MinusInfinity]}
    BY Zenon DEF CR!Init, CR!BottomUp, CR!Memoized
  <2>. QED
    BY <1>1, <1>2, <2>1 DEF RightProfits
<1>4. RightCalls(price_array, <<>>, len)
  BY DEF RightCalls
<1>5. RightCalls(price_array, <<CR!Frame(len)>>, len)
  <2> DEFINE frame == CR!Frame(len)  one == <<frame>>
  <2>1. HasTried(price_array, frame) /\ frame.len = len
    BY <1>1, FirstTried DEF CR!Frame
  <2>. HIDE DEF frame
  <2>2. Len(one) = 1 /\ one[1] = frame
    OBVIOUS
  <2>. HIDE DEF one
  <2>3. RightCalls(price_array, one, len)
    BY <2>1, <2>2 DEF RightCalls
  <2>. QED
    BY <2>3 DEF one, frame
<1>6. RightCalls(price_array, calls, len)
  <2>1. calls = <<>> \/ calls = <<CR!Frame(len)>>
    BY Zenon DEF CR!Init, CR!BottomUp, CR!Memoized
  <2>. QED
    BY <1>4, <1>5, <2>1, Zenon
<1>7. CR!FilledSoFar
  <2>1. CASE CR!BottomUp
    <3>1. calls = <<>> /\ i = 1 /\ profits = [k \in 0..len |-> IF k = 0 THEN 0 ELSE MinusInfinity]
      BY <2>1, Zenon DEF CR!BottomUp
    <3>2. i > 0 /\ \A k \in 0..i - 1 : profits[k] = CR!Best(price_array, k)
      BY <1>1, <1>2, <3>1
    <3>. QED
      BY <3>1, <3>2, Zenon DEF CR!FilledSoFar
  <2>2. CASE CR!Memoized
    <3>1. method # "bottom up"
      <4>1. method = "memoized"
        BY <2>2, Zenon DEF CR!Memoized
      <4>. QED
        BY <4>1
    <3>. QED
      BY <3>1 DEF CR!FilledSoFar
  <2>. QED
    BY <2>1, <2>2 DEF CR!Init
<1>. QED
  BY <1>1, <1>3, <1>6, <1>7, RodInit, OptimalInvSays

LEMMA RodFillsRight == CR!OptimalInv /\ CR!Fill => CR!OptimalInv'
<1>. SUFFICES ASSUME CR!OptimalInv, CR!Fill PROVE CR!OptimalInv'
  OBVIOUS
<1>1. /\ CR!IInv /\ PriceList(price_array) /\ len \in 1..RodLength
      /\ RightCalls(price_array, calls, len)
      /\ RightProfits(price_array, profits, len, ret)
      /\ CR!FilledSoFar
  BY OptimalInvSays
<1>2. /\ i \in Nat \ {0} /\ i <= len /\ Fits(i) /\ DOMAIN profits = 0..len
      /\ \A k \in 0..i - 1 : profits[k] = CR!Best(price_array, k)
      /\ calls = <<>> /\ len \in Nat
  <2>1. i <= len
    BY Zenon DEF CR!Fill
  <2>2. i \in 0..len + 1 /\ len \in Nat /\ len <= RodLength /\ DOMAIN profits = 0..len
    BY <1>1, RodConstants DEF CR!IInv, CR!TypeOK
  <2>3. /\ calls = <<>> /\ i > 0
        /\ \A k \in 0..i - 1 : profits[k] = CR!Best(price_array, k)
    BY <1>1, Zenon DEF CR!FilledSoFar, CR!Fill
  <2>4. i \in Nat \ {0} /\ Fits(i)
    BY <2>1, <2>2, <2>3, RodConstants DEF Fits
  <2>. QED
    BY <2>1, <2>2, <2>3, <2>4
<1> DEFINE S == {price_array[j] + profits[i - j] : j \in 1..i}
           b == CR!Best(price_array, i)
<1>3. UNCHANGED <<price_array, len, method, calls, ret>> /\ i' = i + 1
      /\ profits' = [profits EXCEPT ![i] = CR!Max(S)]
  BY DEF CR!Fill
<1>4. CR!Max(S) = b
  <2>1. BestByPieces(price_array, i)
    BY <1>1, <1>2, BestProperties
  <2>2. \A j \in 1..i : profits[i - j] = CR!Best(price_array, i - j)
    BY <1>2
  <2>3. ASSUME NEW j \in 1..i PROVE price_array[j] + profits[i - j] \in Int
    <3>1. j \in 1..RodLength /\ Fits(i - j)
      BY <1>1, <1>2, RodConstants DEF Fits
    <3>2. price_array[j] \in Int
      <4>1. price_array[j] \in Price
        BY <1>1, <3>1 DEF PriceList
      <4>. QED
        BY <4>1, RodConstants
    <3>3. CR!Best(price_array, i - j) \in Int
      BY <1>1, <3>1, BestProperties DEF BestByPieces
    <3>. QED
      BY <2>2, <3>2, <3>3
  <2>4. S \in SUBSET Int
    BY <2>3
  <2>5. b \in S
    <3>1. PICK j \in 1..i : b = price_array[j] + CR!Best(price_array, i - j)
      BY <1>2, <2>1 DEF BestByPieces
    <3>. QED
      BY <2>2, <3>1
  <2>6. \A x \in S : x <= b
    BY <2>1, <2>2 DEF BestByPieces
  <2>. HIDE DEF S, b
  <2>. QED
    BY <2>4, <2>5, <2>6, MaxIs
<1>. HIDE DEF S
<1>5. /\ DOMAIN profits' = 0..len /\ profits'[i] = b
      /\ \A k \in 0..len : k # i => profits'[k] = profits[k]
  BY <1>2, <1>3, <1>4
<1>6. RightProfits(price_array', profits', len', ret')
  BY <1>1, <1>2, <1>3, <1>5 DEF RightProfits
<1>7. \A k \in 0..i : profits'[k] = CR!Best(price_array, k)
  <2>1. \A k \in 0..i : k = i \/ (k # i /\ k \in 0..i - 1 /\ k \in 0..len)
    BY <1>2
  <2>. QED
    BY <1>2, <1>5, <2>1
<1>8. CR!FilledSoFar'
  <2>1. i' > 0 /\ i' - 1 = i
    BY <1>2, <1>3
  <2>. QED
    BY <1>2, <1>3, <1>7, <2>1 DEF CR!FilledSoFar
<1>9. CR!IInv'
  BY <1>1, RodFills
<1>. QED
  BY <1>1, <1>3, <1>6, <1>8, <1>9, OptimalInvSaysNext

LEMMA RodFilledRight == CR!OptimalInv /\ CR!Filled => CR!OptimalInv'
<1>. SUFFICES ASSUME CR!OptimalInv, CR!Filled PROVE CR!OptimalInv'
  OBVIOUS
<1>1. /\ CR!IInv /\ PriceList(price_array) /\ len \in 1..RodLength
      /\ RightCalls(price_array, calls, len)
      /\ RightProfits(price_array, profits, len, ret)
      /\ CR!FilledSoFar
  BY OptimalInvSays
<1>2. /\ UNCHANGED <<price_array, len, method, profits, calls, i>>
      /\ method = "bottom up" /\ i = len + 1 /\ ret' = profits[len]
  BY DEF CR!Filled
<1>3. ret' = CR!Best(price_array, len)
  <2>1. \A k \in 0..i - 1 : profits[k] = CR!Best(price_array, k)
    BY <1>1, <1>2, Zenon DEF CR!FilledSoFar
  <2>2. i = len + 1
    BY <1>2, Zenon
  <2>3. len \in 0..i - 1
    BY <1>1, <2>2, RodConstants
  <2>. QED
    BY <1>2, <2>1, <2>3, Zenon
<1>4. RightProfits(price_array', profits', len', ret')
  BY <1>1, <1>2, <1>3 DEF RightProfits
<1>5. CR!FilledSoFar'
  BY <1>1, <1>2 DEF CR!FilledSoFar
<1>6. CR!IInv'
  BY <1>1, RodFills
<1>. QED
  BY <1>1, <1>2, <1>4, <1>5, <1>6, OptimalInvSaysNext

\* Where the call that goes on is, and what waits for it.
LEMMA RodGoesOn ==
  ASSUME CR!OptimalInv, calls # <<>>
  PROVE  \E V : /\ calls \in Seq(FramesOf(V)) /\ Head(calls) \in FramesOf(V)
                /\ Tail(calls) \in Seq(FramesOf(V))
                /\ Head(calls).len \in 0..len /\ Fits(Head(calls).len)
                /\ Head(calls).i \in 1..Head(calls).len + 1
                /\ Tail(calls) # <<>> =>
                     /\ Head(Tail(calls)).len \in 0..len
                     /\ Fits(Head(Tail(calls)).len)
                     /\ Head(Tail(calls)).i \in 1..Head(Tail(calls)).len
                     /\ Head(Tail(calls)) \in FramesOf(V)
                     /\ Tail(Tail(calls)) \in Seq(FramesOf(V))
<1>1. CR!CallsNest /\ len \in Nat /\ len <= RodLength /\ RodLength \in Nat
  BY RodConstants DEF CR!OptimalInv, CR!IInv
<1>2. PICK V : /\ calls \in Seq(FramesOf(V))
               /\ \A p \in 1..Len(calls) : Within(len, calls[p], Len(calls) - p, p > 1)
  BY <1>1, NestOfFrames
<1> DEFINE frame == Head(calls)  behind == Tail(calls)  n == Len(calls) - 1
<1>3. /\ n \in Nat /\ frame \in FramesOf(V)
      /\ Within(len, frame, n, FALSE)
      /\ behind \in Seq(FramesOf(V)) /\ Len(behind) = n
      /\ \A p \in 1..Len(behind) : Within(len, behind[p], Len(behind) - p, TRUE)
  <2>1. /\ Len(calls) \in Nat \ {0} /\ frame \in FramesOf(V)
        /\ Within(len, frame, n, FALSE)
        /\ behind \in Seq(FramesOf(V)) /\ Len(behind) = n
        /\ \A p \in 1..Len(behind) : Within(len, behind[p], Len(behind) - p, TRUE)
    BY <1>1, <1>2, RodHead
  <2>2. n \in Nat
    BY <2>1
  <2>. QED
    BY <2>1, <2>2
<1>. HIDE DEF frame, behind, n
<1>4. frame.len \in 0..len /\ Fits(frame.len) /\ frame.i \in 1..frame.len + 1
  <2>1. frame.len \in Nat
    BY <1>3 DEF FramesOf
  <2>. QED
    BY <1>1, <1>3, <2>1 DEF Within, Fits
<1>5. ASSUME behind # <<>>
      PROVE  /\ Head(behind).len \in 0..len /\ Fits(Head(behind).len)
             /\ Head(behind).i \in 1..Head(behind).len
             /\ Head(behind) \in FramesOf(V) /\ Tail(behind) \in Seq(FramesOf(V))
  <2> DEFINE caller == Head(behind)
  <2>1. /\ caller \in FramesOf(V) /\ Tail(behind) \in Seq(FramesOf(V))
        /\ caller = behind[1] /\ n # 0
    BY <1>3, <1>5, HeadTailProperties, EmptySeq
  <2>. HIDE DEF caller
  <2>2. 1 \in 1..n /\ n - 1 \in Nat
    BY ONLY <1>3, <2>1
  <2>3. Within(len, caller, n - 1, TRUE)
    BY ONLY <1>3, <2>1, <2>2
  <2>4. caller.len \in Nat /\ caller.i \in Nat
    BY <2>1 DEF FramesOf
  <2>5. /\ caller.len \in 0..len /\ Fits(caller.len)
        /\ caller.i \in 1..caller.len
    BY <1>1, <2>2, <2>3, <2>4 DEF Within, Fits
  <2>. QED
    BY <2>1, <2>5 DEF caller
<1>. QED
  BY <1>2, <1>3, <1>4, <1>5 DEF frame, behind

\* A call that gets what it waits for still waits where it is.
LEMMA AfterReturned ==
  ASSUME NEW V, NEW frame \in FramesOf(V), NEW behind \in Seq(FramesOf(V)), NEW value,
         frame.i \in 1..frame.len, NEW prices, NEW n,
         HasTried(prices, CR!Returned(frame, value)), RightCalls(prices, behind, n),
         behind = <<>> => frame.len = n,
         behind # <<>> => Head(behind).len - Head(behind).i = frame.len
  PROVE  RightCalls(prices, <<CR!Returned(frame, value)>> \o behind, n)
<1> DEFINE next_frame == CR!Returned(frame, value)  W == V \cup {next_frame.ret}
<1>1. /\ frame.len \in Nat /\ frame.i \in Nat
      /\ next_frame.len = frame.len /\ next_frame.i = frame.i + 1
      /\ next_frame = [len |-> frame.len, i |-> frame.i + 1, ret |-> next_frame.ret]
  <2> DEFINE most == CR!Larger(frame.ret, price_array[frame.i] + value)
  <2>1. next_frame = [frame EXCEPT !.ret = most, !.i = frame.i + 1]
    BY DEF CR!Returned
  <2>. HIDE DEF next_frame, most
  <2>2. /\ frame.len \in Nat /\ frame.i \in Nat
        /\ frame = [len |-> frame.len, i |-> frame.i, ret |-> frame.ret]
    BY ONLY frame \in FramesOf(V) DEF FramesOf
  <2>3. next_frame = [len |-> frame.len, i |-> frame.i + 1, ret |-> most]
    BY ONLY <2>1, <2>2
  <2>. QED
    BY ONLY <2>2, <2>3
<1>. HIDE DEF next_frame
<1>2. next_frame \in FramesOf(W)
  BY <1>1 DEF FramesOf
<1>3. behind \in Seq(FramesOf(W))
  BY MoreFrames
<1>4. behind # <<>> => Head(behind) = behind[1]
  OBVIOUS
<1>5. HasTried(prices, next_frame)
  BY DEF next_frame
<1>. HIDE DEF W
<1>6. RightCalls(prices, <<next_frame>> \o behind, n)
  BY <1>1, <1>2, <1>3, <1>4, <1>5, FrontIsRight
<1>. QED
  BY <1>6 DEF next_frame

LEMMA RodRecursesRight == CR!OptimalInv /\ CR!Recurse => CR!OptimalInv'
<1>. SUFFICES ASSUME CR!OptimalInv, CR!Recurse PROVE CR!OptimalInv'
  OBVIOUS
<1>1. /\ CR!IInv /\ PriceList(price_array) /\ len \in 1..RodLength
      /\ RightCalls(price_array, calls, len)
      /\ RightProfits(price_array, profits, len, ret)
      /\ CR!FilledSoFar
  BY OptimalInvSays
<1> DEFINE frame == Head(calls)  rest == frame.len - frame.i  behind == Tail(calls)
           next_frame == CR!Returned(frame, profits[rest])
<1>2. /\ calls # <<>> /\ frame.i <= frame.len
      /\ \/ profits[rest] >= 0 /\ calls' = <<next_frame>> \o behind
         \/ calls' = <<CR!Frame(rest)>> \o calls
      /\ UNCHANGED <<price_array, len, method, profits, i, ret>>
  BY Zenon DEF CR!Recurse
<1>3. PICK V : /\ calls \in Seq(FramesOf(V)) /\ frame \in FramesOf(V)
               /\ behind \in Seq(FramesOf(V))
               /\ frame.len \in 0..len /\ Fits(frame.len)
               /\ frame.i \in 1..frame.len + 1
  BY <1>2, RodGoesOn
<1>4. /\ HasTried(price_array, frame) /\ RightCalls(price_array, behind, len)
      /\ behind = <<>> => frame.len = len
      /\ behind # <<>> => Head(behind).len - Head(behind).i = frame.len
  BY <1>1, <1>2, <1>3, BehindIsRight
<1>. HIDE DEF frame, behind, next_frame
<1>5. frame.i \in 1..frame.len /\ rest \in 0..len /\ rest \in Nat
  BY <1>1, <1>2, <1>3, RodConstants
<1>6. RightCalls(price_array, calls', len)
  <2>1. CASE profits[rest] >= 0 /\ calls' = <<next_frame>> \o behind
    <3>1. profits[rest] # MinusInfinity
      <4>1. MinusInfinity < 0
        BY <1>1, MinusInfinityIsLess
      <4>. QED
        BY <2>1, <4>1, RodConstants
    <3>2. DOMAIN profits = 0..len
      BY <1>1 DEF CR!IInv, CR!TypeOK
    <3>3. profits[rest] = CR!Best(price_array, rest)
      BY <1>1, <1>5, <3>1, <3>2 DEF RightProfits
    <3>4. HasTried(price_array, next_frame)
      BY <1>1, <1>3, <1>4, <1>5, <3>3, OneMoreTried DEF next_frame
    <3>. QED
      BY <1>3, <1>4, <1>5, <2>1, <3>4, AfterReturned DEF next_frame
  <2>2. CASE calls' = <<CR!Frame(rest)>> \o calls
    <3>1. HasTried(price_array, CR!Frame(rest))
      BY <1>5, FirstTried
    <3>2. CR!Frame(rest).len = rest /\ CR!Frame(rest).i = 1
      BY DEF CR!Frame
    <3> DEFINE first == CR!Frame(rest)  W == V \cup {first.ret}
    <3>3. first \in FramesOf(W)
      BY <1>5 DEF CR!Frame, FramesOf
    <3>4. calls \in Seq(FramesOf(W))
      BY <1>3, MoreFrames
    <3>5. calls[1] = frame
      BY <1>2, <1>3 DEF frame
    <3>. HIDE DEF first, W
    <3>6. RightCalls(price_array, <<first>> \o calls, len)
      BY <1>1, <1>2, <3>1, <3>2, <3>3, <3>4, <3>5, FrontIsRight DEF first
    <3>. QED
      BY <2>2, <3>6 DEF first
  <2>. QED
    BY <1>2, <2>1, <2>2
<1>7. RightProfits(price_array', profits', len', ret')
  BY <1>1, <1>2
<1>8. CR!FilledSoFar'
  BY <1>1, <1>2, Zenon DEF CR!FilledSoFar
<1>9. CR!IInv'
  BY <1>1, RodRecurses
<1>. QED
  BY <1>1, <1>2, <1>6, <1>7, <1>8, <1>9, OptimalInvSaysNext

LEMMA RodReturnsRight == CR!OptimalInv /\ CR!Return => CR!OptimalInv'
<1>. SUFFICES ASSUME CR!OptimalInv, CR!Return PROVE CR!OptimalInv'
  OBVIOUS
<1>1. /\ CR!IInv /\ PriceList(price_array) /\ len \in 1..RodLength
      /\ RightCalls(price_array, calls, len)
      /\ RightProfits(price_array, profits, len, ret)
      /\ CR!FilledSoFar
  BY OptimalInvSays
<1> DEFINE frame == Head(calls)  behind == Tail(calls)  caller == Head(behind)
           next_frame == CR!Returned(caller, frame.ret)
<1>2. /\ calls # <<>> /\ frame.i > frame.len
      /\ profits' = [profits EXCEPT ![frame.len] = frame.ret]
      /\ behind = <<>> => calls' = <<>> /\ ret' = frame.ret
      /\ behind # <<>> => calls' = <<next_frame>> \o Tail(behind) /\ ret' = ret
      /\ UNCHANGED <<price_array, len, method, i>>
  BY Zenon DEF CR!Return
<1>3. PICK V : /\ calls \in Seq(FramesOf(V)) /\ frame \in FramesOf(V)
               /\ behind \in Seq(FramesOf(V))
               /\ frame.len \in 0..len /\ Fits(frame.len)
               /\ frame.i \in 1..frame.len + 1
               /\ behind # <<>> =>
                    /\ Fits(caller.len) /\ caller.i \in 1..caller.len
                    /\ caller \in FramesOf(V) /\ Tail(behind) \in Seq(FramesOf(V))
  BY <1>2, RodGoesOn
<1>4. /\ HasTried(price_array, frame) /\ RightCalls(price_array, behind, len)
      /\ behind = <<>> => frame.len = len
      /\ behind # <<>> => caller.len - caller.i = frame.len
  BY <1>1, <1>2, <1>3, BehindIsRight
<1>. HIDE DEF frame, behind, caller, next_frame
<1>5. frame.ret = CR!Best(price_array, frame.len)
  <2>1. frame.i = frame.len + 1
    BY <1>1, <1>2, <1>3, RodConstants
  <2>. QED
    BY <1>1, <1>3, <1>4, <2>1, AllTried
<1>6. RightProfits(price_array', profits', len', ret')
  <2>1. \A k \in DOMAIN profits' :
          profits'[k] # MinusInfinity => profits'[k] = CR!Best(price_array, k)
    <3>1. DOMAIN profits' = DOMAIN profits
      BY <1>2
    <3>2. \A k \in DOMAIN profits : profits'[k] = IF k = frame.len THEN frame.ret ELSE profits[k]
      BY <1>2
    <3>. QED
      BY <1>1, <1>5, <3>1, <3>2 DEF RightProfits
  <2>2. ret' # MinusInfinity => ret' = CR!Best(price_array, len)
    BY <1>1, <1>2, <1>4, <1>5 DEF RightProfits
  <2>. QED
    BY <1>2, <2>1, <2>2 DEF RightProfits
<1>7. RightCalls(price_array, calls', len)
  <2>1. CASE behind = <<>>
    <3>1. RightCalls(price_array, <<>>, len)
      BY DEF RightCalls
    <3>. QED
      BY <1>2, <2>1, <3>1
  <2>2. CASE behind # <<>>
    <3>1. /\ HasTried(price_array, caller) /\ RightCalls(price_array, Tail(behind), len)
          /\ Tail(behind) = <<>> => caller.len = len
          /\ Tail(behind) # <<>> => Head(Tail(behind)).len - Head(Tail(behind)).i = caller.len
      BY <1>3, <1>4, <2>2, BehindIsRight DEF caller
    <3>2. HasTried(price_array, next_frame)
      BY <1>1, <1>3, <1>4, <1>5, <2>2, <3>1, OneMoreTried DEF next_frame
    <3>3. RightCalls(price_array, <<next_frame>> \o Tail(behind), len)
      BY <1>3, <2>2, <3>1, <3>2, AfterReturned DEF next_frame
    <3>. QED
      BY <1>2, <2>2, <3>3
  <2>. QED
    BY <2>1, <2>2
<1>8. CR!FilledSoFar'
  <2>1. method # "bottom up"
    BY <1>1, <1>2, Zenon DEF CR!FilledSoFar
  <2>. QED
    BY <1>2, <2>1, Zenon DEF CR!FilledSoFar
<1>9. CR!IInv'
  BY <1>1, RodReturns
<1>. QED
  BY <1>1, <1>2, <1>6, <1>7, <1>8, <1>9, OptimalInvSaysNext

LEMMA RodStepsRight == CR!OptimalInv /\ [CR!Next]_rod => CR!OptimalInv'
<1>1. CR!OptimalInv /\ CR!Next => CR!OptimalInv'
  BY RodFillsRight, RodFilledRight, RodRecursesRight, RodReturnsRight DEF CR!Next
<1>2. CR!OptimalInv /\ UNCHANGED rod => CR!OptimalInv'
  <2>. SUFFICES ASSUME CR!OptimalInv, UNCHANGED rod PROVE CR!OptimalInv'
    OBVIOUS
  <2>1. UNCHANGED <<price_array, len, method, profits, calls, i, ret>>
    BY DEF rod
  <2>2. CR!IInv'
    BY RodSteps DEF CR!OptimalInv
  <2>3. CR!FilledSoFar'
    BY <2>1, Zenon DEF CR!OptimalInv, CR!FilledSoFar
  <2>. QED
    BY <2>1, <2>2, <2>3, OptimalInvSays, OptimalInvSaysNext
<1>. QED
  BY <1>1, <1>2

(* Both cut-rod programs print the most that any way to cut the rod        *)
(* brings, for any length and any prices, and the memo never holds a wrong *)
(* profit, a negative one included, which is computed again                *)
(* (cut-rod-memoized.c 20-42, cut-rod-bottom-up.c 19-37).                  *)
THEOREM RodsCutBest == ProgramsSpec => []RodsOptimal
<1> DEFINE Inv == program = "cut-rod" => CR!OptimalInv
<1>1. ProgramsInit => Inv
  <2>1. ProgramsInit /\ program = "cut-rod" => CR!Init
    BY DEF ProgramsInit, RunsAlgorithm, RunsProbe, RunsQueue, RunsHeapSort, RunsMergeSort,
           RunsQuickSort, RunsQsort, RunsCutRod, RunsUthash
  <2>. QED
    BY <2>1, RodBegins
<1>2. Inv /\ [ProgramsNext]_vars => Inv'
  BY RodAlone, RodStepsRight
<1>3. Inv => RodsOptimal
  BY DEF CR!OptimalInv, RodsOptimal
<1>. QED
  BY <1>1, <1>2, <1>3, PTL DEF ProgramsSpec

(***************************************************************************)
(* The types of all programs.                                              *)
(***************************************************************************)

LEMMA QueueTypes == ProgramsSpec => [](program = "priority_queue" => TypeOK)
<1> DEFINE Inv == program = "priority_queue" => IInv
<1>1. ProgramsInit => Inv
  <2>1. ProgramsInit /\ program = "priority_queue" => Init
    BY DEF ProgramsInit, RunsAlgorithm, RunsProbe, RunsQueue, RunsHeapSort, RunsMergeSort,
           RunsQuickSort, RunsQsort, RunsCutRod, RunsUthash
  <2>. QED
    BY <2>1, InitEstablishesIInv
<1>2. Inv /\ [ProgramsNext]_vars => Inv'
  <2>1. [ProgramsNext]_vars =>
          UNCHANGED program /\ (program = "priority_queue" => [Next]_queueVars)
    <3>1. ASSUME ProgramsNext
          PROVE  UNCHANGED program /\ (program = "priority_queue" => [Next]_queueVars)
      BY <3>1 DEF ProgramsNext, QueueStep, HeapSortStep, MergeSortStep, QuickSortStep,
                  QsortStep, CutRodStep, UthashStep, ScsiStep, RetStep
    <3>2. ASSUME UNCHANGED vars PROVE UNCHANGED <<program, queueVars>>
      BY <3>2 DEF vars, algorithms
    <3>. QED
      BY <3>1, <3>2
  <2>. QED
    BY <2>1, NextKeepsIInv
<1>3. Inv => (program = "priority_queue" => TypeOK)
  BY DEF IInv
<1>. QED
  BY <1>1, <1>2, <1>3, PTL DEF ProgramsSpec

LEMMA IndexInLoop == UT!FindsInv /\ UT!Begun /\ at \in 1..4 /\ [UT!Next]_table => at' \in 1..4
<1>. SUFFICES ASSUME UT!FindsInv, UT!Begun, at \in 1..4, [UT!Next]_table PROVE at' \in 1..4
  OBVIOUS
<1>1. \/ UNCHANGED at
      \/ UT!Loop(Len(keys.add)) \/ UT!Loop(Len(keys.find)) \/ UT!Loop(Len(keys.delete))
  BY DEF UT!Next, UT!Add, UT!Find, UT!Delete, UT!Iterate, UT!FreeOne, table
<1>2. UNCHANGED at \/ UT!Loop(3) \/ UT!Loop(4) \/ UT!Loop(1)
  BY <1>1, KeyArrays
<1>3. at' = at \/ (at' = at + 1 /\ at < 4) \/ at' = 1
  BY <1>2 DEF UT!Loop
<1>. QED
  BY ONLY <1>3, at \in 1..4

LEMMA TableTypes == ProgramsSpec => [](program = "uthash" => UT!TypeOK)
<1> DEFINE Keys == program = "uthash" => UT!Begun /\ UT!FindsInv
           Inv == Keys /\ (program = "uthash" => at \in 1..4)
<1>1. ProgramsInit => Inv
  <2>1. ProgramsInit => Keys
    BY FindsInvInit
  <2>2. ProgramsInit /\ program = "uthash" => at \in 1..4
    BY DEF ProgramsInit, RunsAlgorithm, RunsProbe, RunsQueue, RunsHeapSort, RunsMergeSort,
           RunsQuickSort, RunsQsort, RunsCutRod, RunsUthash, UT!Init
  <2>. QED
    BY <2>1, <2>2
<1>2. Inv /\ [ProgramsNext]_vars => Inv'
  BY FindsInvKept, IndexInLoop, UthashAlone
<1>3. Inv => (program = "uthash" => UT!TypeOK)
  <2>. SUFFICES ASSUME UT!IInv, at \in 1..4 PROVE UT!TypeOK
    BY DEF UT!FindsInv
  <2>1. head_table \in Seq(Address) /\ UT!ToSet(head_table) = DOMAIN memory
    BY DEF UT!IInv
  <2>2. Len(head_table) \in Nat /\ DOMAIN head_table = 1..Len(head_table)
    BY <2>1, LenProperties
  <2>3. \A p \in DOMAIN head_table : head_table[p] \in Address
    BY <2>1, <2>2, ElementOfSeq
  <2>4. DOMAIN memory \subseteq Address
    BY <2>1, <2>3 DEF UT!ToSet
  <2>5. {el, tmp_table} \ {NULL} \subseteq DOMAIN memory
    BY TableIInvSuffices DEF UT!HoldsLive
  <2>. QED
    BY <2>4, <2>5 DEF UT!IInv, UT!TypeOK
<1>. QED
  BY <1>1, <1>2, <1>3, PTL DEF ProgramsSpec

LEMMA ScsiTypes == ProgramsSpec => []SP!TypeOK
<1>1. ProgramsInit => SP!Init
  BY DEF ProgramsInit, RunsAlgorithm, RunsProbe
<1>2. SP!IInv => SP!TypeOK
  BY DEF SP!IInv
<1>. QED
  BY <1>1, <1>2, ScsiInit, ScsiNextKeepsIInv, ProgramsStepScsi, PTL DEF ProgramsSpec

(* Whichever program runs keeps its variables within their ranges, among   *)
(* them the indices into arrays, copies and profits, the depth of the      *)
(* recursion on a rod, and the length of the probe's buffer.               *)
THEOREM ProgramsTypeCorrect == ProgramsSpec => []ProgramsTypeOK
<1>1. KR!IInv => KR!TypeOK
  BY DEF KR!IInv
<1>. QED
  BY <1>1, QueueTypes, HeapSortSorts, MergeSortSorts, QuickSortSorts, QsortSorts, RodTypes,
     TableTypes, RetInvariant, ScsiTypes, PTL DEF ProgramsTypeOK
=============================================================================
