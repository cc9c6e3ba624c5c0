-------------------------------- MODULE Strip --------------------------------
(***************************************************************************)
(* comm_rm_private and comm_rm_public of common-lib.sh: which lines of a   *)
(* document are published.  Blocks are marked by comment lines; sed and    *)
(* perl delete them kind by kind, each command rewriting the whole file.   *)
(* create-html.sh puts a document through all of it, create-full-src.sh    *)
(* its copies for other platforms through less.                            *)
(*                                                                         *)
(* A line is the kind of line it is. What is left of the document is a     *)
(* function from where the lines stood in it.                              *)
(***************************************************************************)
EXTENDS Naturals, Sequences, Functions

CONSTANTS
  MaxLines      \* bound: the lines of a document

ASSUME StripAssumption == MaxLines \in Nat

\* "<!-- private begin -->" and so on; "open" is a line that begins a comment
\* of several lines and "close" one that ends it; "note" has text and, after
\* it, a comment on the same line.
Kind == {"private begin", "private end", "public begin", "public end",
         "ing begin", "ing end", "open", "close", "note", "text"}

VARIABLES
  doc,          \* the document: a sequence of kinds
  output,       \* what is made of it: a page of the "site", a "title"
                \* file (named after the title), or a "csdn" file
  isPublic,     \* is_public: strip what is meant for the public
  lines,        \* what is left of the document
  pc            \* the next command

stripVars == <<doc, output, isPublic, lines, pc>>

-----------------------------------------------------------------------------

\* sed '/first/,/last/ ...': a range is open from a line that matches first,
\* over at least the next line, to one that matches last or to the end of
\* the file; its lines are deleted unless they are kept.
DeleteRanges(file, first, last, kept) ==
  LET open[i \in 0..Len(doc)] ==   \* behind line i
        IF i = 0 THEN FALSE
        ELSE IF i \notin DOMAIN file THEN open[i - 1]
        ELSE IF open[i - 1] THEN file[i] \notin last
        ELSE file[i] \in first
  IN Restrict(file, {i \in DOMAIN file :
                       file[i] \in kept \/ ~(open[i - 1] \/ file[i] \in first)})

\* Mutation: a block that does not end is left, as perl's begin.*?end would.
RmMidLinesOfEnded(file, begin, end) ==
  IF \E i \in DOMAIN file : file[i] = end
    THEN DeleteRanges(file, {begin}, {end}, {begin, end})
    ELSE file

\* comm_rm_mid_lines
RmMidLines(file, begin, end) ==
  DeleteRanges(file, {begin}, {end}, {begin, end})

\* comm_rm_line
RmLines(file, kinds) == Restrict(file, {i \in DOMAIN file : file[i] \notin kinds})

Begin == IF isPublic THEN "public begin" ELSE "private begin"
End == IF isPublic THEN "public end" ELSE "private end"

\* create-full-src.sh strips a copy, but takes the documents from the
\* checkout (lines 21-25, 75-76); of those, my_exit strips the title files.
FirstCommand(out) ==
  CASE out = "site" -> "blocks"
    [] out = "title" -> "unfinished"
    [] out = "csdn" -> "copy"

Init ==
  /\ \E n \in 0..MaxLines : doc \in [1..n -> Kind]
  /\ output \in {"site", "title", "csdn"}
  /\ isPublic \in (IF output = "site" THEN BOOLEAN ELSE {FALSE})
  /\ lines = doc
  /\ pc = FirstCommand(output)

Rewrite(from, to, file) ==
  /\ pc = from
  /\ pc' = to
  /\ lines' = file
  /\ UNCHANGED <<doc, output, isPublic>>

RmBlocks == Rewrite("blocks", "markers", RmMidLines(lines, Begin, End))

\* Mutation: only the markers of the blocks that were stripped go.
RmMarkersStripped ==
  Rewrite("markers", "unfinished", RmLines(lines, {Begin, End}))

\* comm_rm_comment_lines: the blocks that stay lose their markers.
RmMarkers ==
  Rewrite("markers", "unfinished",
          RmLines(lines, {"public begin", "public end", "private begin",
                          "private end"}))

RmUnfinished ==
  Rewrite("unfinished", "unfinished markers",
          RmMidLines(lines, "ing begin", "ing end"))

RmUnfinishedMarkers ==
  Rewrite("unfinished markers", "notes",
          RmLines(lines, {"ing begin", "ing end"}))

\* Mutation: the comments within a line are left to the sed command.
RmNotesNot == Rewrite("notes", "comments", lines)

\* Mutation: perl reads the whole file at once, as in comm_rm_line.
RmNotesAcross == Rewrite("notes", "comments", [i \in DOMAIN lines |-> "text"])

\* perl -pe 's/<!--.*?-->//g'
RmNotes ==
  Rewrite("notes", "comments",
          [i \in DOMAIN lines |->
             IF lines[i] \in {"open", "close"} THEN lines[i] ELSE "text"])

\* sed '/<!--/,/-->/d'
RmComments ==
  Rewrite("comments", "done",
          DeleteRanges(lines, Kind \ {"close", "text"}, Kind \ {"open", "text"},
                       {}))

\* my_exit leaves the csdn files alone (create-full-src.sh:31).
CopyCsdn == Rewrite("copy", "done", lines)

Next ==
  \/ RmBlocks \/ RmMarkers \/ RmUnfinished \/ RmUnfinishedMarkers \/ RmNotes
  \/ RmComments \/ CopyCsdn

Spec == Init /\ [][Next]_stripVars

-----------------------------------------------------------------------------
(* Properties *)

\* Types; a line that is left is what it was, less the comment within it.
TypeOK ==
  /\ doc \in Seq(Kind)
  /\ pc \in {"blocks", "markers", "unfinished", "unfinished markers", "notes",
             "comments", "copy", "done"}
  /\ DOMAIN lines \subseteq DOMAIN doc
  /\ \A i \in DOMAIN lines :
       \/ lines[i] = doc[i]
       \/ /\ lines[i] = "text"
          /\ doc[i] \notin {"open", "close"}
          /\ pc \in {"comments", "done"}

\* Of the lines in left, line i comes after a first and no later than the
\* next last.
Within(left, i, first, last) ==
  \E b \in left :
    /\ b < i /\ doc[b] = first
    /\ \A k \in left : b <= k /\ k < i => doc[k] # last

Inside(i, first, last) == Within(DOMAIN doc, i, first, last)

Hidden(i) ==
  \/ Inside(i, Begin, End)
  \/ Inside(i, "ing begin", "ing end")
  \/ Inside(i, "open", "close")

Closes == [k \in {"private begin", "public begin", "ing begin", "open"} |->
             CASE k = "private begin" -> "private end"
               [] k = "public begin" -> "public end"
               [] k = "ing begin" -> "ing end"
               [] k = "open" -> "close"]

\* A block from line b to line e, with no begin or end of its kind inside.
Block(b, e) ==
  /\ b < e
  /\ doc[b] \in DOMAIN Closes
  /\ doc[e] = Closes[doc[b]]
  /\ \A k \in b + 1..e - 1 : doc[k] \notin {doc[b], doc[e]}

\* Every marker belongs to a block, and blocks nest.
WellFormed ==
  /\ \A i \in DOMAIN doc : doc[i] \in DOMAIN Closes => \E e \in DOMAIN doc : Block(i, e)
  /\ \A i \in DOMAIN doc :
       (\E k \in DOMAIN Closes : doc[i] = Closes[k]) => \E b \in DOMAIN doc : Block(b, i)
  /\ \A b, e, c, f \in DOMAIN doc :
       Block(b, e) /\ Block(c, f) => ~(b < c /\ c < e /\ e < f)

Published == DOMAIN lines

\* However the author has misplaced the markers, nothing that follows the
\* begin of a private block is published before that block ends: an end that
\* is missing hides the rest of the document (common-lib.sh 215-233).
NoBlockLeaks ==
  pc = "done" /\ output = "site" => \A i \in Published : ~Inside(i, Begin, End)

\* A document with proper blocks is published without them, and with every
\* other line of text (common-lib.sh 252-297).
PublishedExactly ==
  pc = "done" /\ output = "site" /\ WellFormed =>
    Published = {i \in DOMAIN doc : doc[i] \in {"text", "note"} /\ ~Hidden(i)}

\* No marker is left to be seen as an empty line, nor an open comment that
\* would hide the rest of the page (common-lib.sh 235-264).
NoMarkerLeft ==
  pc = "done" /\ output = "site" =>
    \A i \in Published : doc[i] \in {"text", "note", "close"}

-----------------------------------------------------------------------------
(* What each command leaves of a document for the site, whatever markers   *)
(* it has: the inductive invariant                                         *)

\* The lines outside the blocks that are stripped, without the markers.
Shown ==
  {i \in DOMAIN doc :
     /\ ~Inside(i, Begin, End)
     /\ doc[i] \notin {"public begin", "public end", "private begin", "private end"}}

\* Of those, the ones outside the unfinished parts.
Finished ==
  {i \in Shown : /\ ~Within(Shown, i, "ing begin", "ing end")
                 /\ doc[i] \notin {"ing begin", "ing end"}}

\* Of those, the ones outside the comments of several lines.
Uncommented ==
  {i \in Finished : ~Within(Finished, i, "open", "close") /\ doc[i] # "open"}

LeftForSite ==
  /\ pc = "blocks" => DOMAIN lines = DOMAIN doc
  /\ pc = "markers" =>
       DOMAIN lines = {i \in DOMAIN doc : doc[i] \in {Begin, End} \/ ~Inside(i, Begin, End)}
  /\ pc = "unfinished" => DOMAIN lines = Shown
  /\ pc = "unfinished markers" =>
       DOMAIN lines = {i \in Shown : \/ doc[i] \in {"ing begin", "ing end"}
                                     \/ ~Within(Shown, i, "ing begin", "ing end")}
  /\ pc \in {"notes", "comments"} => DOMAIN lines = Finished
  /\ pc = "done" => DOMAIN lines = Uncommented

\* Before its last command a line has the comment within it, or none.
NotesAt ==
  \A i \in DOMAIN lines :
    /\ pc \notin {"comments", "done"} => lines[i] = doc[i]
    /\ pc = "comments" =>
         lines[i] = IF doc[i] \in {"open", "close"} THEN doc[i] ELSE "text"

IInv ==
  /\ TypeOK
  /\ NotesAt
  /\ output = "site" => LeftForSite /\ pc # "copy"
=============================================================================
