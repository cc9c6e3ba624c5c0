---------------------------- MODULE MCCreateHtml ----------------------------
(***************************************************************************)
(* Two callers on one machine: the restart loop, which builds /var/www/html *)
(* for the local network, and push-github.sh, which builds the public      *)
(* github.io directory.  A document is dropped by a commit and another one *)
(* is added; the pictures change by a commit of their own.                 *)
(***************************************************************************)
EXTENDS CreateHtml

CONSTANTS restart, push, www, io, index, video, fs

MCHtmlPath == [b \in {restart, push} |-> IF b = restart THEN www ELSE io]

MCReplaceIp == [b \in {restart, push} |-> b = restart]

MCCommits == [blog |-> 1, tmp |-> 1]

\* course/, picture/ and godot/
MCDirectories == {{video, fs}, {Picture}, {Godot}}

MCRank ==
  [i \in Item |->
     CASE i \in CourseDoc -> 1 [] i = Godot -> 2 [] i = index -> 3
       [] i = Picture -> 4 [] i = SignFile -> 5 [] i = StyleSheet -> 6]

MCListed(v) == IF v = 0 THEN {index, video} ELSE {index, fs}
=============================================================================
