--------------------------- MODULE MCRestartLoop ---------------------------
(* One commit in each repository.  How many accidents: see the cfg files. *)
EXTENDS RestartLoop

MCCommits == [r \in Repo |-> 1]
=============================================================================
