---------------------------- MODULE Strip_proofs ----------------------------
(***************************************************************************)
(* Proofs about the commands that strip a document, for documents of any   *)
(* length.  IInv of Strip is the inductive invariant: it says which lines  *)
(* each command leaves.                                                    *)
(***************************************************************************)
EXTENDS Strip, SequenceTheorems, WellFoundedInduction, TLAPS

(***************************************************************************)
(* sed's ranges                                                            *)
(***************************************************************************)

(* Whatever is true of a natural number is true of a smallest one.         *)
LEMMA SmallestNumber ==
  ASSUME NEW S \in SUBSET Nat, S # {}
  PROVE  \E m \in S : \A n \in S : m <= n
<1>1. IsWellFoundedOn(OpToRel(<, Nat), Nat)
  BY ONLY NatLessThanWellFounded, Zenon
<1>2. PICK m \in S : \A n \in S : <<n, m>> \notin OpToRel(<, Nat)
  BY <1>1, WFMin
<1>3. \A n \in S : ~ (n < m)
  BY <1>2 DEF OpToRel
<1>. QED
  BY <1>3

(* A range that is open behind line i was opened by a line, and no line    *)
(* after that one has closed it.                                           *)
LEMMA OpenRange ==
  ASSUME NEW n \in Nat, NEW file, DOMAIN file \subseteq 1..n, NEW first, NEW last,
         \A i \in DOMAIN file : ~(file[i] \in first /\ file[i] \in last)
  PROVE  LET open[i \in 0..n] ==
               IF i = 0 THEN FALSE
               ELSE IF i \notin DOMAIN file THEN open[i - 1]
               ELSE IF open[i - 1] THEN file[i] \notin last
               ELSE file[i] \in first
         IN  \A i \in 0..n :
               open[i] <=> \E b \in DOMAIN file :
                             /\ b <= i /\ file[b] \in first
                             /\ \A k \in DOMAIN file : b <= k /\ k <= i => file[k] \notin last
<1> DEFINE Opened(i) ==
             \E b \in DOMAIN file :
               /\ b <= i /\ file[b] \in first
               /\ \A k \in DOMAIN file : b <= k /\ k <= i => file[k] \notin last
           Reads(o) ==
             o = [i \in 0..n |->
                    IF i = 0 THEN FALSE
                    ELSE IF i \notin DOMAIN file THEN o[i - 1]
                    ELSE IF o[i - 1] THEN file[i] \notin last
                    ELSE file[i] \in first]
           open == CHOOSE o : Reads(o)
           opened == [i \in 0..n |-> Opened(i)]
<1>1. ASSUME NEW i \in 1..n
      PROVE  Opened(i) <=> IF i \notin DOMAIN file THEN Opened(i - 1)
                           ELSE IF Opened(i - 1) THEN file[i] \notin last
                           ELSE file[i] \in first
  <2>1. ASSUME i \notin DOMAIN file PROVE Opened(i) <=> Opened(i - 1)
    BY <2>1
  <2>2. ASSUME i \in DOMAIN file, Opened(i - 1) PROVE Opened(i) <=> file[i] \notin last
    BY <2>2
  <2>3. ASSUME i \in DOMAIN file, ~Opened(i - 1) PROVE Opened(i) <=> file[i] \in first
    BY <2>3
  <2>. QED
    BY <2>1, <2>2, <2>3
<1>2. ~Opened(0) /\ \A i \in 0..n : Opened(i) \in BOOLEAN
  OBVIOUS
<1>. HIDE DEF Opened
<1>3. Reads(opened)
  <2>1. ASSUME NEW i \in 0..n
        PROVE  opened[i] = IF i = 0 THEN FALSE
                           ELSE IF i \notin DOMAIN file THEN opened[i - 1]
                           ELSE IF opened[i - 1] THEN file[i] \notin last
                           ELSE file[i] \in first
    <3>1. opened[i] = Opened(i)
      BY Zenon
    <3>2. CASE i = 0
      <4>1. Opened(0) = FALSE
        BY <1>2, <3>2
      <4>. QED
        BY <3>1, <3>2, <4>1, Zenon
    <3>3. CASE i # 0
      <4>1. i \in 1..n /\ i - 1 \in 0..n
        BY <3>3
      <4>2. opened[i - 1] = Opened(i - 1)
        BY <4>1, Zenon
      <4>3. Opened(i) = IF i \notin DOMAIN file THEN Opened(i - 1)
                        ELSE IF Opened(i - 1) THEN file[i] \notin last
                        ELSE file[i] \in first
        <5>1. Opened(i) \in BOOLEAN /\ Opened(i - 1) \in BOOLEAN
          BY <1>2, <4>1
        <5>2. CASE i \notin DOMAIN file
          BY <1>1, <4>1, <5>1, <5>2
        <5>3. CASE i \in DOMAIN file /\ Opened(i - 1)
          BY <1>1, <4>1, <5>1, <5>3
        <5>4. CASE i \in DOMAIN file /\ ~Opened(i - 1)
          BY <1>1, <4>1, <5>1, <5>4
        <5>. QED
          BY <5>2, <5>3, <5>4
      <4>. QED
        BY <3>1, <3>3, <4>2, <4>3, Zenon
    <3>. QED
      BY <3>2, <3>3, Zenon
  <2>2. opened = [i \in 0..n |-> opened[i]]
    BY Zenon
  <2>. HIDE DEF opened
  <2>. QED
    BY <2>1, <2>2, Zenon
<1>4. Reads(open)
  BY <1>3, Zenon
<1>. HIDE DEF open
<1>5. ASSUME NEW i \in 0..n PROVE open[i] <=> Opened(i)
  <2> DEFINE Differ == {j \in 0..n : ~(open[j] <=> Opened(j))}
  <2>1. ASSUME Differ # {} PROVE FALSE
    <3>1. Differ \in SUBSET Nat
      <4>1. 0..n \subseteq Nat
        OBVIOUS
      <4>. QED
        BY <4>1, Zenon
    <3>2. PICK m \in Differ : \A j \in Differ : m <= j
      <4>. HIDE DEF Differ
      <4>. QED
        BY <2>1, <3>1, SmallestNumber
    <3>3. m \in 0..n /\ ~(open[m] <=> Opened(m))
      BY <3>2, Zenon
    <3>4. CASE m = 0
      BY <1>2, <1>4, <3>3, <3>4, Zenon
    <3>5. CASE m # 0
      <4>1. m \in 1..n /\ m - 1 \in 0..n /\ ~(m <= m - 1)
        BY <3>3, <3>5
      <4>2. open[m - 1] <=> Opened(m - 1)
        BY <3>2, <4>1, Zenon
      <4>. QED
        BY <1>1, <1>2, <1>4, <3>3, <3>5, <4>1, <4>2, Zenon
    <3>. QED
      BY <3>4, <3>5
  <2>. QED
    BY <2>1, Zenon
<1>. QED
  BY <1>5 DEF open, Opened

\* A range of the file is open before line i.
OpenBefore(i, file, first, last) ==
  \E b \in DOMAIN file :
    /\ b < i /\ file[b] \in first
    /\ \A k \in DOMAIN file : b <= k /\ k < i => file[k] \notin last

(* What sed's range command leaves: the lines that are kept anyway, and    *)
(* those that are no first and have no open range before them.             *)
LEMMA DeletesRanges ==
  ASSUME doc \in Seq(Kind), NEW file, DOMAIN file \subseteq DOMAIN doc,
         NEW first, NEW last, NEW kept,
         \A i \in DOMAIN file : ~(file[i] \in first /\ file[i] \in last),
         NEW left, left = DeleteRanges(file, first, last, kept)
  PROVE  /\ \A i : i \in DOMAIN left <=>
                   /\ i \in DOMAIN file
                   /\ \/ file[i] \in kept
                      \/ file[i] \notin first /\ ~OpenBefore(i, file, first, last)
         /\ \A i \in DOMAIN left : left[i] = file[i]
<1> DEFINE Reads(o) ==
             o = [i \in 0..Len(doc) |->
                    IF i = 0 THEN FALSE
                    ELSE IF i \notin DOMAIN file THEN o[i - 1]
                    ELSE IF o[i - 1] THEN file[i] \notin last
                    ELSE file[i] \in first]
           open == CHOOSE o : Reads(o)
           Left == {i \in DOMAIN file : file[i] \in kept \/ ~(open[i - 1] \/ file[i] \in first)}
<1>1. Len(doc) \in Nat /\ DOMAIN doc = 1..Len(doc)
  BY LenProperties
<1>2. \A i \in 0..Len(doc) :
        open[i] <=> \E b \in DOMAIN file :
                      /\ b <= i /\ file[b] \in first
                      /\ \A k \in DOMAIN file : b <= k /\ k <= i => file[k] \notin last
  BY <1>1, OpenRange, Zenon
<1>3. left = [i \in Left |-> file[i]]
  BY Zenon DEF DeleteRanges, Restrict
<1>. HIDE DEF open
<1>4. ASSUME NEW i \in DOMAIN file PROVE open[i - 1] <=> OpenBefore(i, file, first, last)
  <2>1. i - 1 \in 0..Len(doc) /\ \A k \in DOMAIN file : k <= i - 1 <=> k < i
    BY <1>1
  <2>. QED
    BY <1>2, <2>1, Zenon DEF OpenBefore
<1>. QED
  BY <1>3, <1>4, Zenon

(* comm_rm_mid_lines keeps the two lines around what it deletes.           *)
LEMMA MidLinesDeleted ==
  ASSUME doc \in Seq(Kind), NEW file, DOMAIN file \subseteq DOMAIN doc,
         NEW begin, NEW end, begin # end, \A i \in DOMAIN file : file[i] = doc[i],
         NEW left, left = RmMidLines(file, begin, end)
  PROVE  /\ \A i : i \in DOMAIN left <=>
                   /\ i \in DOMAIN file
                   /\ doc[i] \in {begin, end} \/ ~Within(DOMAIN file, i, begin, end)
         /\ \A i \in DOMAIN left : left[i] = file[i]
<1> DEFINE first == {begin}
           last == {end}
           kept == {begin, end}
<1>1. /\ \A i : i \in first <=> i = begin
      /\ \A i : i \in last <=> i = end
      /\ \A i : i \in kept <=> i \in {begin, end}
  OBVIOUS
<1>2. left = DeleteRanges(file, first, last, kept)
  BY DEF RmMidLines
<1>. HIDE DEF first, last, kept
<1>3. /\ \A i : i \in DOMAIN left <=>
                /\ i \in DOMAIN file
                /\ \/ file[i] \in kept
                   \/ file[i] \notin first /\ ~OpenBefore(i, file, first, last)
      /\ \A i \in DOMAIN left : left[i] = file[i]
  <2>1. \A i \in DOMAIN file : ~(file[i] \in first /\ file[i] \in last)
    BY <1>1
  <2>. QED
    BY <1>2, <2>1, DeletesRanges
<1>4. \A i : OpenBefore(i, file, first, last) <=> Within(DOMAIN file, i, begin, end)
  BY <1>1 DEF Within, OpenBefore
<1>. QED
  BY <1>1, <1>3, <1>4

-----------------------------------------------------------------------------
(* The commands                                                            *)

LEMMA StripInit == Init => IInv
<1>. SUFFICES ASSUME Init PROVE IInv
  OBVIOUS
<1>1. doc \in Seq(Kind) /\ lines = doc
  BY DEF Init
<1>2. pc \in {"blocks", "unfinished", "copy"} /\ (output = "site" => pc = "blocks")
  BY DEF Init, FirstCommand
<1>. QED
  BY <1>1, <1>2 DEF IInv, TypeOK, NotesAt, LeftForSite

(* A command that deletes lines keeps the types, and the lines it leaves.  *)
LEMMA LinesKept ==
  ASSUME IInv, NEW from, NEW to, NEW file, Rewrite(from, to, file),
         DOMAIN file \subseteq DOMAIN lines, \A i \in DOMAIN file : file[i] = lines[i],
         <<from, to>> \in {<<"blocks", "markers">>, <<"markers", "unfinished">>,
                          <<"unfinished", "unfinished markers">>,
                          <<"unfinished markers", "notes">>, <<"comments", "done">>}
  PROVE  TypeOK' /\ NotesAt' /\ (output = "site" => pc' # "copy")
<1>1. lines' = file /\ pc = from /\ pc' = to /\ UNCHANGED <<doc, output, isPublic>>
  BY DEF Rewrite
<1>2. TypeOK'
  BY <1>1 DEF IInv, TypeOK
<1>3. NotesAt'
  BY <1>1 DEF IInv, NotesAt
<1>. QED
  BY <1>1, <1>2, <1>3

\* The properties of a document stay what they are.
LEMMA SameDocument ==
  ASSUME UNCHANGED <<doc, isPublic>>
  PROVE  /\ Begin' = Begin /\ End' = End
         /\ \A i, first, last : Inside(i, first, last)' <=> Inside(i, first, last)
         /\ Shown' = Shown /\ Finished' = Finished /\ Uncommented' = Uncommented
<1>1. Begin' = Begin /\ End' = End
  BY DEF Begin, End
<1>2. \A left, i, first, last : Within(left, i, first, last)' <=> Within(left, i, first, last)
  BY DEF Within
<1>3. Shown' = Shown
  BY <1>1 DEF Shown, Inside, Within
<1>4. Finished' = Finished
  BY <1>3 DEF Finished, Within
<1>5. Uncommented' = Uncommented
  BY <1>4 DEF Uncommented, Within
<1>. QED
  BY <1>1, <1>2, <1>3, <1>4, <1>5 DEF Inside

LEMMA RmBlocksLeaves == IInv /\ RmBlocks => IInv'
<1>. SUFFICES ASSUME IInv, RmBlocks PROVE IInv'
  OBVIOUS
<1> DEFINE file == RmMidLines(lines, Begin, End)
<1>1. Rewrite("blocks", "markers", file) /\ pc = "blocks" /\ pc' = "markers" /\ lines' = file
      /\ UNCHANGED <<doc, output, isPublic>>
  BY DEF RmBlocks, Rewrite
<1>2. doc \in Seq(Kind) /\ DOMAIN lines \subseteq DOMAIN doc
      /\ \A i \in DOMAIN lines : lines[i] = doc[i]
  BY <1>1 DEF IInv, TypeOK, NotesAt
<1>3. Begin # End
  BY DEF Begin, End
<1>4. /\ \A i : i \in DOMAIN file <=>
                /\ i \in DOMAIN lines
                /\ doc[i] \in {Begin, End} \/ ~Within(DOMAIN lines, i, Begin, End)
      /\ \A i \in DOMAIN file : file[i] = lines[i]
  BY <1>2, <1>3, MidLinesDeleted
<1>. HIDE DEF file
<1>5. TypeOK' /\ NotesAt' /\ pc' # "copy"
  BY <1>1, <1>4, LinesKept
<1>6. ASSUME output = "site" PROVE LeftForSite'
  <2>1. DOMAIN lines = DOMAIN doc
    BY <1>1, <1>6 DEF IInv, LeftForSite
  <2>2. DOMAIN file = {i \in DOMAIN doc : doc[i] \in {Begin, End} \/ ~Inside(i, Begin, End)}
    BY <1>2, <1>4, <2>1 DEF Inside
  <2>. QED
    BY <1>1, <2>2, SameDocument DEF LeftForSite
<1>. QED
  BY <1>1, <1>5, <1>6 DEF IInv

LEMMA RmMarkersLeaves == IInv /\ RmMarkers => IInv'
<1>. SUFFICES ASSUME IInv, RmMarkers PROVE IInv'
  OBVIOUS
<1> DEFINE Markers == {"public begin", "public end", "private begin", "private end"}
           file == RmLines(lines, Markers)
<1>1. Rewrite("markers", "unfinished", file) /\ pc = "markers" /\ pc' = "unfinished"
      /\ lines' = file /\ UNCHANGED <<doc, output, isPublic>>
  BY DEF RmMarkers, Rewrite
<1>2. /\ DOMAIN file = {i \in DOMAIN lines : lines[i] \notin Markers}
      /\ \A i \in DOMAIN file : file[i] = lines[i]
  BY DEF RmLines, Restrict
<1>3. DOMAIN lines \subseteq DOMAIN doc /\ \A i \in DOMAIN lines : lines[i] = doc[i]
  BY <1>1 DEF IInv, TypeOK, NotesAt
<1>. HIDE DEF file
<1>4. TypeOK' /\ NotesAt' /\ pc' # "copy"
  BY <1>1, <1>2, LinesKept
<1>5. ASSUME output = "site" PROVE LeftForSite'
  <2>1. DOMAIN lines = {i \in DOMAIN doc : doc[i] \in {Begin, End} \/ ~Inside(i, Begin, End)}
    BY <1>1, <1>5 DEF IInv, LeftForSite
  <2>2. Begin \in Markers /\ End \in Markers
    BY DEF Begin, End
  <2>3. DOMAIN file = Shown
    BY <1>2, <1>3, <2>1, <2>2 DEF Shown
  <2>. QED
    BY <1>1, <2>3, SameDocument DEF LeftForSite
<1>. QED
  BY <1>1, <1>4, <1>5 DEF IInv

LEMMA RmUnfinishedLeaves == IInv /\ RmUnfinished => IInv'
<1>. SUFFICES ASSUME IInv, RmUnfinished PROVE IInv'
  OBVIOUS
<1> DEFINE file == RmMidLines(lines, "ing begin", "ing end")
<1>1. Rewrite("unfinished", "unfinished markers", file) /\ pc = "unfinished"
      /\ pc' = "unfinished markers" /\ lines' = file /\ UNCHANGED <<doc, output, isPublic>>
  BY DEF RmUnfinished, Rewrite
<1>2. doc \in Seq(Kind) /\ DOMAIN lines \subseteq DOMAIN doc
      /\ \A i \in DOMAIN lines : lines[i] = doc[i]
  BY <1>1 DEF IInv, TypeOK, NotesAt
<1>3. /\ \A i : i \in DOMAIN file <=>
                /\ i \in DOMAIN lines
                /\ \/ doc[i] \in {"ing begin", "ing end"}
                   \/ ~Within(DOMAIN lines, i, "ing begin", "ing end")
      /\ \A i \in DOMAIN file : file[i] = lines[i]
  <2>1. ASSUME NEW begin, NEW end, begin # end
        PROVE  /\ \A i : i \in DOMAIN RmMidLines(lines, begin, end) <=>
                        /\ i \in DOMAIN lines
                        /\ doc[i] \in {begin, end} \/ ~Within(DOMAIN lines, i, begin, end)
               /\ \A i \in DOMAIN RmMidLines(lines, begin, end) :
                    RmMidLines(lines, begin, end)[i] = lines[i]
    BY <1>2, <2>1, MidLinesDeleted
  <2>2. "ing begin" # "ing end"
    OBVIOUS
  <2>. QED
    BY ONLY <2>1, <2>2, Zenon
<1>. HIDE DEF file
<1>4. TypeOK' /\ NotesAt' /\ pc' # "copy"
  BY <1>1, <1>3, LinesKept
<1>5. ASSUME output = "site" PROVE LeftForSite'
  <2>1. DOMAIN lines = Shown /\ Shown \subseteq DOMAIN doc
    BY <1>1, <1>5 DEF IInv, LeftForSite, Shown
  <2>2. DOMAIN file = {i \in Shown : \/ doc[i] \in {"ing begin", "ing end"}
                                     \/ ~Within(Shown, i, "ing begin", "ing end")}
    BY <1>2, <1>3, <2>1
  <2>3. (\A i : Within(Shown, i, "ing begin", "ing end")' <=>
               Within(Shown, i, "ing begin", "ing end")) /\ Shown' = Shown
    BY <1>1, SameDocument DEF Within
  <2>. QED
    BY <1>1, <2>2, <2>3 DEF LeftForSite
<1>. QED
  BY <1>1, <1>4, <1>5 DEF IInv

LEMMA RmUnfinishedMarkersLeaves == IInv /\ RmUnfinishedMarkers => IInv'
<1>. SUFFICES ASSUME IInv, RmUnfinishedMarkers PROVE IInv'
  OBVIOUS
<1> DEFINE file == RmLines(lines, {"ing begin", "ing end"})
<1>1. Rewrite("unfinished markers", "notes", file) /\ pc = "unfinished markers"
      /\ pc' = "notes" /\ lines' = file /\ UNCHANGED <<doc, output, isPublic>>
  BY DEF RmUnfinishedMarkers, Rewrite
<1>2. /\ DOMAIN file = {i \in DOMAIN lines : lines[i] \notin {"ing begin", "ing end"}}
      /\ \A i \in DOMAIN file : file[i] = lines[i]
  BY DEF RmLines, Restrict
<1>3. \A i \in DOMAIN lines : lines[i] = doc[i]
  BY <1>1 DEF IInv, NotesAt
<1>. HIDE DEF file
<1>4. TypeOK' /\ NotesAt' /\ pc' # "copy"
  BY <1>1, <1>2, LinesKept
<1>5. ASSUME output = "site" PROVE LeftForSite'
  <2>1. DOMAIN lines = {i \in Shown : \/ doc[i] \in {"ing begin", "ing end"}
                                      \/ ~Within(Shown, i, "ing begin", "ing end")}
    BY <1>1, <1>5 DEF IInv, LeftForSite
  <2>2. DOMAIN file = Finished
    BY <1>2, <1>3, <2>1 DEF Finished
  <2>. QED
    BY <1>1, <2>2, SameDocument DEF LeftForSite
<1>. QED
  BY <1>1, <1>4, <1>5 DEF IInv

LEMMA RmNotesLeaves == IInv /\ RmNotes => IInv'
<1>. SUFFICES ASSUME IInv, RmNotes PROVE IInv'
  OBVIOUS
<1>1. pc = "notes" /\ pc' = "comments" /\ UNCHANGED <<doc, output, isPublic>>
      /\ lines' = [i \in DOMAIN lines |->
                     IF lines[i] \in {"open", "close"} THEN lines[i] ELSE "text"]
  BY DEF RmNotes, Rewrite
<1>2. \A i \in DOMAIN lines : lines[i] = doc[i]
  BY <1>1 DEF IInv, NotesAt
<1>3. DOMAIN lines' = DOMAIN lines
      /\ \A i \in DOMAIN lines :
           lines'[i] = IF doc[i] \in {"open", "close"} THEN doc[i] ELSE "text"
  BY <1>1, <1>2
<1>4. TypeOK'
  BY <1>1, <1>3 DEF IInv, TypeOK
<1>5. NotesAt'
  BY <1>1, <1>3 DEF NotesAt
<1>6. ASSUME output = "site" PROVE LeftForSite'
  <2>1. DOMAIN lines = Finished
    BY <1>1, <1>6 DEF IInv, LeftForSite
  <2>. QED
    BY <1>1, <1>3, <2>1, SameDocument DEF LeftForSite
<1>. QED
  BY <1>1, <1>4, <1>5, <1>6 DEF IInv

LEMMA RmCommentsLeaves == IInv /\ RmComments => IInv'
<1>. SUFFICES ASSUME IInv, RmComments PROVE IInv'
  OBVIOUS
<1> DEFINE first == Kind \ {"close", "text"}
           last == Kind \ {"open", "text"}
           file == DeleteRanges(lines, first, last, {})
<1>1. Rewrite("comments", "done", file) /\ pc = "comments" /\ pc' = "done" /\ lines' = file
      /\ UNCHANGED <<doc, output, isPublic>>
  BY DEF RmComments, Rewrite
<1>2. doc \in Seq(Kind) /\ DOMAIN lines \subseteq DOMAIN doc
      /\ \A i \in DOMAIN lines :
           lines[i] = IF doc[i] \in {"open", "close"} THEN doc[i] ELSE "text"
  BY <1>1 DEF IInv, TypeOK, NotesAt
<1>3. \A i \in DOMAIN lines : /\ lines[i] \in first <=> doc[i] = "open"
                              /\ lines[i] \in last <=> doc[i] = "close"
  BY <1>2 DEF Kind
<1>. HIDE DEF first, last
<1>4. /\ \A i : i \in DOMAIN file <=>
                /\ i \in DOMAIN lines
                /\ lines[i] \notin first /\ ~OpenBefore(i, lines, first, last)
      /\ \A i \in DOMAIN file : file[i] = lines[i]
  <2>1. \A i \in DOMAIN lines : ~(lines[i] \in first /\ lines[i] \in last)
    BY <1>3
  <2>. QED
    BY <1>2, <2>1, DeletesRanges
<1>. HIDE DEF file
<1>5. TypeOK' /\ NotesAt' /\ pc' # "copy"
  BY <1>1, <1>4, LinesKept
<1>6. ASSUME output = "site" PROVE LeftForSite'
  <2>1. DOMAIN lines = Finished
    BY <1>1, <1>6 DEF IInv, LeftForSite
  <2>2. DOMAIN file = Uncommented
    <3>1. \A i : OpenBefore(i, lines, first, last) <=> Within(Finished, i, "open", "close")
      BY <1>3, <2>1 DEF OpenBefore, Within
    <3>. QED
      BY <1>3, <1>4, <2>1, <3>1 DEF Uncommented
  <2>. QED
    BY <1>1, <2>2, SameDocument DEF LeftForSite
<1>. QED
  BY <1>1, <1>5, <1>6 DEF IInv

LEMMA CopyLeaves == IInv /\ CopyCsdn => IInv'
<1>. SUFFICES ASSUME IInv, CopyCsdn PROVE IInv'
  OBVIOUS
<1>1. pc = "copy" /\ pc' = "done" /\ UNCHANGED <<doc, output, isPublic, lines>>
  BY DEF CopyCsdn, Rewrite
<1>2. TypeOK'
  BY <1>1 DEF IInv, TypeOK
<1>3. NotesAt' /\ output' # "site"
  BY <1>1 DEF IInv, NotesAt
<1>. QED
  BY <1>2, <1>3 DEF IInv

LEMMA StripStep == IInv /\ [Next]_stripVars => IInv'
<1>. SUFFICES ASSUME IInv, [Next]_stripVars PROVE IInv'
  OBVIOUS
<1>1. CASE Next
  BY <1>1, RmBlocksLeaves, RmMarkersLeaves, RmUnfinishedLeaves, RmUnfinishedMarkersLeaves,
     RmNotesLeaves, RmCommentsLeaves, CopyLeaves DEF Next
<1>2. CASE UNCHANGED stripVars
  <2>1. UNCHANGED <<doc, output, isPublic, lines, pc>>
    BY <1>2 DEF stripVars
  <2>2. TypeOK' /\ NotesAt'
    BY <2>1 DEF IInv, TypeOK, NotesAt
  <2>3. LeftForSite <=> LeftForSite'
    <3>1. \A left, i, first, last : Within(left, i, first, last)' <=> Within(left, i, first, last)
      BY <2>1 DEF Within
    <3>. QED
      BY <2>1, <3>1, SameDocument DEF LeftForSite
  <2>. QED
    BY <2>1, <2>2, <2>3 DEF IInv
<1>. QED
  BY <1>1, <1>2

-----------------------------------------------------------------------------
(* Documents with proper blocks                                            *)

LEMMA Closers ==
  /\ DOMAIN Closes = {"private begin", "public begin", "ing begin", "open"}
  /\ Closes["private begin"] = "private end" /\ Closes["public begin"] = "public end"
  /\ Closes["ing begin"] = "ing end" /\ Closes["open"] = "close"
BY DEF Closes

(* A line is inside if and only if it is in a block.                       *)
LEMMA InsideBlock ==
  ASSUME doc \in Seq(Kind), WellFormed, NEW begin \in DOMAIN Closes, NEW i \in DOMAIN doc
  PROVE  Inside(i, begin, Closes[begin]) <=>
           \E b, e \in DOMAIN doc : Block(b, e) /\ doc[b] = begin /\ b < i /\ i <= e
<1>1. DOMAIN doc \subseteq Nat
  BY LenProperties
<1>2. Closes[begin] # begin
  BY Closers
<1>3. ASSUME Inside(i, begin, Closes[begin])
      PROVE  \E b, e \in DOMAIN doc : Block(b, e) /\ doc[b] = begin /\ b < i /\ i <= e
  <2>1. PICK b \in DOMAIN doc : /\ b < i /\ doc[b] = begin
                               /\ \A k \in DOMAIN doc : b <= k /\ k < i => doc[k] # Closes[begin]
    BY <1>3 DEF Inside, Within
  <2>2. PICK e \in DOMAIN doc : Block(b, e)
    BY <2>1 DEF WellFormed
  <2>3. b < e /\ doc[e] = Closes[begin]
    BY <2>1, <2>2 DEF Block
  <2>4. i <= e
    BY <1>1, <2>1, <2>3
  <2>. QED
    BY <2>1, <2>2, <2>4
<1>4. ASSUME NEW b \in DOMAIN doc, NEW e \in DOMAIN doc, Block(b, e), doc[b] = begin,
             b < i, i <= e
      PROVE  Inside(i, begin, Closes[begin])
  <2>1. ASSUME NEW k \in DOMAIN doc, b <= k, k < i PROVE doc[k] # Closes[begin]
    <3>1. k = b \/ k \in b + 1..e - 1
      BY <1>1, <1>4, <2>1
    <3>. QED
      BY <1>2, <1>4, <3>1 DEF Block
  <2>. QED
    BY <1>4, <2>1 DEF Inside, Within
<1>. QED
  BY <1>3, <1>4

(* Either both ends of a block are inside one of another kind, or neither  *)
(* is; and with the ends what is between them.                             *)
LEMMA SameSide ==
  ASSUME doc \in Seq(Kind), WellFormed, NEW begin \in DOMAIN Closes,
         NEW b \in DOMAIN doc, NEW e \in DOMAIN doc, Block(b, e), doc[b] # begin
  PROVE  /\ Inside(b, begin, Closes[begin]) <=> Inside(e, begin, Closes[begin])
         /\ \A i \in DOMAIN doc : b < i /\ i < e /\ Inside(b, begin, Closes[begin]) =>
               Inside(i, begin, Closes[begin])
<1>1. DOMAIN doc \subseteq Nat
  BY LenProperties
<1>2. /\ b < e /\ doc[b] \in DOMAIN Closes /\ doc[e] = Closes[doc[b]]
      /\ doc[b] # Closes[begin] /\ doc[e] # Closes[begin] /\ doc[e] # begin
  BY Closers DEF Block
<1>3. ASSUME NEW p \in DOMAIN doc, NEW q \in DOMAIN doc, Block(p, q), doc[p] = begin
      PROVE  /\ doc[q] = Closes[begin] /\ p # b /\ q # e /\ q # b /\ p # e
             /\ ~(p < b /\ b < q /\ q < e) /\ ~(b < p /\ p < e /\ e < q)
  <2>1. doc[q] = Closes[begin]
    BY <1>3 DEF Block
  <2>2. p # b /\ q # e /\ q # b /\ p # e
    BY <1>2, <1>3, <2>1, Closers
  <2>. QED
    BY <1>3, <2>1, <2>2 DEF WellFormed
<1>4. ASSUME Inside(b, begin, Closes[begin]), NEW i \in DOMAIN doc, b < i, i <= e
      PROVE  Inside(i, begin, Closes[begin])
  <2>1. PICK p, q \in DOMAIN doc : Block(p, q) /\ doc[p] = begin /\ p < b /\ b <= q
    BY <1>4, InsideBlock
  <2>2. p < i /\ i <= q
    BY <1>1, <1>2, <1>3, <1>4, <2>1
  <2>. QED
    BY <2>1, <2>2, InsideBlock
<1>5. ASSUME Inside(e, begin, Closes[begin]) PROVE Inside(b, begin, Closes[begin])
  <2>1. PICK p, q \in DOMAIN doc : Block(p, q) /\ doc[p] = begin /\ p < e /\ e <= q
    BY <1>5, InsideBlock
  <2>2. p < b /\ b <= q
    BY <1>1, <1>2, <1>3, <2>1
  <2>. QED
    BY <2>1, <2>2, InsideBlock
<1>. QED
  BY <1>1, <1>2, <1>4, <1>5

(* The lines in left hold both ends of a block or neither, and nothing of  *)
(* it without them.                                                        *)
Whole(left, begin) ==
  \A b, e \in DOMAIN doc : Block(b, e) /\ doc[b] = begin =>
    /\ b \in left <=> e \in left
    /\ \A i \in left : b < i /\ i < e => b \in left

(* Of such lines, the command that strips a kind of block sees the same    *)
(* lines inside as in the whole document.                                  *)
LEMMA SeenAsWhole ==
  ASSUME doc \in Seq(Kind), WellFormed, NEW begin \in DOMAIN Closes,
         NEW left, left \subseteq DOMAIN doc, Whole(left, begin), NEW i \in left
  PROVE  Within(left, i, begin, Closes[begin]) <=> Inside(i, begin, Closes[begin])
<1>1. DOMAIN doc \subseteq Nat
  BY LenProperties
<1>2. ASSUME Within(left, i, begin, Closes[begin]) PROVE Inside(i, begin, Closes[begin])
  <2>1. PICK b \in left : /\ b < i /\ doc[b] = begin
                         /\ \A k \in left : b <= k /\ k < i => doc[k] # Closes[begin]
    BY <1>2 DEF Within
  <2>2. PICK e \in DOMAIN doc : Block(b, e)
    BY <2>1 DEF WellFormed
  <2>3. e \in left /\ b < e /\ doc[e] = Closes[begin]
    BY <2>1, <2>2 DEF Whole, Block
  <2>4. i <= e
    BY <1>1, <2>1, <2>3
  <2>. QED
    BY <2>1, <2>2, <2>4, InsideBlock
<1>3. ASSUME Inside(i, begin, Closes[begin]) PROVE Within(left, i, begin, Closes[begin])
  <2>1. PICK b, e \in DOMAIN doc : Block(b, e) /\ doc[b] = begin /\ b < i /\ i <= e
    BY <1>3, InsideBlock
  <2>2. b \in left
    BY <1>1, <2>1 DEF Whole
  <2>3. \A k \in left : b <= k /\ k < i => doc[k] # Closes[begin]
    <3>1. ASSUME NEW k \in left, b <= k, k < i PROVE doc[k] # Closes[begin]
      <4>1. k = b \/ k \in b + 1..e - 1
        BY <1>1, <2>1, <3>1
      <4>. QED
        BY <2>1, <4>1, Closers DEF Block
    <3>. QED
      BY <3>1
  <2>. QED
    BY <2>1, <2>2, <2>3 DEF Within
<1>. QED
  BY <1>2, <1>3

LEMMA OpeningKind ==
  ASSUME NEW b, NEW e, Block(b, e)
  PROVE  /\ doc[b] = "ing begin" => doc[e] = "ing end"
         /\ doc[b] = "open" => doc[e] = "close"
BY Closers DEF Block

LEMMA BlocksStripped == Begin \in {"private begin", "public begin"} /\ End = Closes[Begin]
BY Closers DEF Begin, End

(* Stripping the blocks and the unfinished parts takes no end of another   *)
(* block away.                                                             *)
LEMMA ShownWhole ==
  ASSUME doc \in Seq(Kind), WellFormed, NEW begin \in {"ing begin", "open"}
  PROVE  Whole(Shown, begin)
<1>. SUFFICES ASSUME NEW b \in DOMAIN doc, NEW e \in DOMAIN doc, Block(b, e), doc[b] = begin
              PROVE  /\ b \in Shown <=> e \in Shown
                     /\ \A i \in Shown : b < i /\ i < e => b \in Shown
  BY DEF Whole
<1>1. /\ Inside(b, Begin, End) <=> Inside(e, Begin, End)
      /\ \A i \in DOMAIN doc : b < i /\ i < e /\ Inside(b, Begin, End) => Inside(i, Begin, End)
  BY BlocksStripped, Closers, SameSide
<1>2. /\ doc[b] \notin {"public begin", "public end", "private begin", "private end"}
      /\ doc[e] \notin {"public begin", "public end", "private begin", "private end"}
  BY OpeningKind
<1>. QED
  BY <1>1, <1>2 DEF Shown

LEMMA FinishedIs ==
  ASSUME doc \in Seq(Kind), WellFormed
  PROVE  Finished = {i \in Shown : /\ ~Inside(i, "ing begin", "ing end")
                                   /\ doc[i] \notin {"ing begin", "ing end"}}
<1>1. Shown \subseteq DOMAIN doc
  BY DEF Shown
<1>2. \A i \in Shown : Within(Shown, i, "ing begin", "ing end") <=> Inside(i, "ing begin", "ing end")
  BY <1>1, ShownWhole, Closers, SeenAsWhole
<1>. QED
  BY <1>2 DEF Finished

LEMMA FinishedWhole ==
  ASSUME doc \in Seq(Kind), WellFormed
  PROVE  Whole(Finished, "open")
<1>. SUFFICES ASSUME NEW b \in DOMAIN doc, NEW e \in DOMAIN doc, Block(b, e), doc[b] = "open"
              PROVE  /\ b \in Finished <=> e \in Finished
                     /\ \A i \in Finished : b < i /\ i < e => b \in Finished
  BY DEF Whole
<1>1. /\ b \in Shown <=> e \in Shown
      /\ \A i \in Shown : b < i /\ i < e => b \in Shown
  BY ShownWhole DEF Whole
<1>2. /\ Inside(b, "ing begin", "ing end") <=> Inside(e, "ing begin", "ing end")
      /\ \A i \in DOMAIN doc : b < i /\ i < e /\ Inside(b, "ing begin", "ing end") =>
           Inside(i, "ing begin", "ing end")
  BY Closers, SameSide
<1>3. doc[b] \notin {"ing begin", "ing end"} /\ doc[e] \notin {"ing begin", "ing end"}
  BY OpeningKind
<1>. QED
  BY <1>1, <1>2, <1>3, FinishedIs DEF Shown

LEMMA UncommentedIs ==
  ASSUME doc \in Seq(Kind), WellFormed
  PROVE  Uncommented = {i \in DOMAIN doc : doc[i] \in {"text", "note"} /\ ~Hidden(i)}
<1>1. Finished \subseteq Shown /\ Shown \subseteq DOMAIN doc
  BY DEF Finished, Shown
<1>2. \A i \in Finished : Within(Finished, i, "open", "close") <=> Inside(i, "open", "close")
  BY <1>1, FinishedWhole, Closers, SeenAsWhole
<1>3. ASSUME NEW i \in DOMAIN doc, doc[i] = "close" PROVE Inside(i, "open", "close")
  <2>1. \E k \in DOMAIN Closes : doc[i] = Closes[k]
    BY <1>3, Closers
  <2>2. PICK b \in DOMAIN doc : Block(b, i)
    BY <2>1 DEF WellFormed
  <2>3. doc[b] = "open" /\ b < i /\ i <= i
    <3>1. DOMAIN doc \subseteq Nat
      BY LenProperties
    <3>2. b < i /\ doc[b] \in DOMAIN Closes /\ Closes[doc[b]] = "close"
      BY <1>3, <2>2 DEF Block
    <3>3. doc[b] = "open"
      BY <3>2, Closers
    <3>. QED
      BY <3>1, <3>2, <3>3
  <2>4. "open" \in DOMAIN Closes /\ Closes["open"] = "close"
    BY Closers
  <2>5. Inside(i, "open", Closes["open"])
    BY <2>2, <2>3, <2>4, InsideBlock
  <2>. QED
    BY <2>4, <2>5
<1>4. \A i \in DOMAIN doc : doc[i] \in Kind
  BY LenProperties, ElementOfSeq
<1>5. ASSUME NEW i \in DOMAIN doc
      PROVE  i \in Uncommented <=> doc[i] \in {"text", "note"} /\ ~Hidden(i)
  <2>1. i \in Uncommented <=>
          /\ i \in Finished /\ ~Inside(i, "open", "close") /\ doc[i] # "open"
    BY <1>2 DEF Uncommented
  <2>2. i \in Finished <=>
          /\ i \in Shown /\ ~Inside(i, "ing begin", "ing end")
          /\ doc[i] \notin {"ing begin", "ing end"}
    BY FinishedIs
  <2>3. i \in Shown <=>
          /\ ~Inside(i, Begin, End)
          /\ doc[i] \notin {"public begin", "public end", "private begin", "private end"}
    BY DEF Shown
  <2>. QED
    BY <1>3, <1>4, <2>1, <2>2, <2>3 DEF Hidden, Kind
<1>. QED
  BY <1>1, <1>5 DEF Uncommented

-----------------------------------------------------------------------------
(* Theorems                                                                *)

LEMMA StripInvariant == Spec => []IInv
BY StripInit, StripStep, PTL DEF Spec

(* Every command leaves lines of the document, as they were or without the *)
(* comment within them (common-lib.sh 215-297).                            *)
THEOREM TypeCorrect == Spec => []TypeOK
<1>1. IInv => TypeOK
  BY DEF IInv
<1>. QED
  BY <1>1, StripInvariant, PTL

(* However many lines a document has and however its markers are           *)
(* misplaced, no line of a private block gets to the site (common-lib.sh   *)
(* 215-233).                                                               *)
THEOREM NothingPrivateLeaks == Spec => []NoBlockLeaks
<1>1. IInv => NoBlockLeaks
  BY DEF IInv, LeftForSite, NoBlockLeaks, Published, Uncommented, Finished, Shown
<1>. QED
  BY <1>1, StripInvariant, PTL

(* Whatever markers a document has, the site gets no begin of a comment,   *)
(* and no marker of a block (common-lib.sh 235-264).                       *)
THEOREM NoMarkerPublished == Spec => []NoMarkerLeft
<1>1. ASSUME IInv PROVE NoMarkerLeft
  <2>1. \A i \in DOMAIN doc : doc[i] \in Kind
    <3>1. doc \in Seq(Kind)
      BY <1>1 DEF IInv, TypeOK
    <3>. QED
      BY <3>1, LenProperties, ElementOfSeq
  <2>2. \A i \in Uncommented : doc[i] \in {"text", "note", "close"}
    BY <2>1 DEF Uncommented, Finished, Shown, Kind
  <2>. QED
    BY <1>1, <2>2 DEF IInv, LeftForSite, NoMarkerLeft, Published
<1>. QED
  BY <1>1, StripInvariant, PTL

(* A document whose blocks nest is published without them and without a    *)
(* marker, and no other line is lost, though each command only sees what   *)
(* the ones before it have left (common-lib.sh 252-297).                   *)
THEOREM PublishesExactly == Spec => []PublishedExactly
<1>1. ASSUME IInv PROVE PublishedExactly
  <2>. SUFFICES ASSUME pc = "done", output = "site", WellFormed
                PROVE  Published = {i \in DOMAIN doc : doc[i] \in {"text", "note"} /\ ~Hidden(i)}
    BY DEF PublishedExactly
  <2>1. Published = Uncommented
    BY <1>1 DEF IInv, LeftForSite, Published
  <2>. QED
    BY <1>1, <2>1, UncommentedIs DEF IInv, TypeOK
<1>. QED
  BY <1>1, StripInvariant, PTL
=============================================================================
