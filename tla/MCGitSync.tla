----------------------------- MODULE MCGitSync -----------------------------
(* Two repositories; the author has a commit that gitee lacks, or has not, *)
(* and other machines may push two at any moment.                          *)
EXTENDS GitSync

CONSTANTS blog, tmp

MCOrder == <<blog, tmp>>
=============================================================================
