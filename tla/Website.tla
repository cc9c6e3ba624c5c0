------------------------------- MODULE Website -------------------------------
(***************************************************************************)
(* What the publishing scripts promise a visitor, without saying how: each *)
(* site shows all pages of one edition of the sources, or it is down; what *)
(* comes up is the newest edition.  An edition is a pair of commits, of    *)
(* the repository with the articles and of the one with the pictures.      *)
(***************************************************************************)
EXTENDS Naturals

CONSTANTS
  Site,        \* the published directories
  Edition      \* a set of records [blog, tmp] of commit numbers

VARIABLES
  newest,      \* the edition that is checked out
  shown        \* shown[s]: {e} while s shows edition e, {} while it is down

vars == <<newest, shown>>

Init ==
  /\ newest \in Edition
  /\ shown = [s \in Site |-> {newest}]

\* The sources move on; no site changes by that.
Advance ==
  /\ newest' \in Edition
  /\ newest'.blog >= newest.blog
  /\ newest'.tmp >= newest.tmp
  /\ UNCHANGED shown

TakeDown(s) ==
  /\ shown' = [shown EXCEPT ![s] = {}]
  /\ UNCHANGED newest

BringUp(s) ==
  /\ shown[s] = {}
  /\ shown' = [shown EXCEPT ![s] = {newest}]
  /\ UNCHANGED newest

Next ==
  \/ Advance
  \/ \E s \in Site : TakeDown(s) \/ BringUp(s)

Spec == Init /\ [][Next]_vars
=============================================================================
