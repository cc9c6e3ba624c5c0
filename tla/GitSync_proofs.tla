--------------------------- MODULE GitSync_proofs ---------------------------
(***************************************************************************)
(* Proofs about check-gitee.sh, for any repositories and any commits: every *)
(* checked repository is listed, what is listed as ok was in step, and      *)
(* nothing is ever merged.                                                 *)
(*                                                                         *)
(* IInv of GitSync is the inductive invariant.  It says besides that what   *)
(* is listed has been checked: the script comes to each repository once, so *)
(* no later step makes a list untrue.                                      *)
(***************************************************************************)
EXTENDS GitSync, TLAPS

(* The repository being checked is one of the script's                     *)
(* (check-gitee.sh 21-31).                                                 *)
LEMMA CurrentIsRepo ==
  ASSUME done \in 0..Len(Order), done < Len(Order)
  PROVE  Current \in Repo
BY SyncAssumption DEF SyncAssumption, Current

(* It has not been checked before: no repository is named twice.           *)
LEMMA CurrentIsNew ==
  ASSUME done \in 0..Len(Order), done < Len(Order)
  PROVE  Current \notin Checked
<1>1. SUFFICES ASSUME NEW i \in 1..done, Order[i] = Order[done + 1]
               PROVE  FALSE
  BY DEF Current, Checked
<1>2. i \in 1..Len(Order) /\ done + 1 \in 1..Len(Order) /\ i # done + 1
  BY SyncAssumption DEF SyncAssumption
<1>. QED
  BY <1>1, <1>2, SyncAssumption DEF SyncAssumption

(* When a call of check_git returns, its repository has been checked.      *)
LEMMA CheckedGrows ==
  ASSUME done \in 0..Len(Order), done < Len(Order), done' = done + 1
  PROVE  Checked' = Checked \cup {Current}
<1>1. Checked' = {Order[i] : i \in 1..(done + 1)}
  BY DEF Checked
<1>2. 1..(done + 1) = (1..done) \cup {done + 1}
  BY SyncAssumption DEF SyncAssumption
<1>. QED
  BY <1>1, <1>2 DEF Checked, Current

LEMMA InitEstablishesIInv == Init => IInv
<1>. SUFFICES ASSUME Init PROVE IInv
  OBVIOUS
<1>1. Checked = {}
  BY DEF Init, Checked
<1>2. TypeOK
  <2>1. {exists, dirty, elsewhere} \subseteq SUBSET Repo
    BY DEF Init
  <2>2. master \in [Repo -> SUBSET Commit]
    <3>1. Mine \subseteq Commit
      BY DEF Commit
    <3>. QED
      BY <3>1 DEF Init
  <2>3. /\ track \in [Repo -> SUBSET Commit] /\ remote \in [Repo -> SUBSET Commit]
        /\ \A r \in Repo : track[r] \subseteq remote[r]
    BY DEF Init
  <2>4. /\ done \in 0..Len(Order)
        /\ pc = "check" /\ isClean \in BOOLEAN
        /\ {notExist, notClean, notSync, ok, failed} \subseteq SUBSET Repo
    <3>1. Len(Order) \in Nat
      BY SyncAssumption DEF SyncAssumption
    <3>2. done \in 0..Len(Order)
      BY <3>1 DEF Init
    <3>. QED
      BY <3>2 DEF Init
  <2>. QED
    BY <2>1, <2>2, <2>3, <2>4 DEF TypeOK
<1>3. ListsAreTrue /\ EveryRepoListed /\ OkMeansInStep
  BY <1>1 DEF Init, ListsAreTrue, EveryRepoListed, OkMeansInStep, Examining
<1>. QED
  BY <1>2, <1>3 DEF IInv

-----------------------------------------------------------------------------
(* The steps before a repository is listed *)

LEMMA NoDirectoryPreserves == ASSUME IInv, NoDirectory PROVE IInv'
<1>. USE DEF NoDirectory
<1>1. Current \in Repo /\ Current \notin Checked /\ Checked' = Checked \cup {Current}
  BY CurrentIsRepo, CurrentIsNew, CheckedGrows DEF IInv, TypeOK
<1>2. TypeOK'
  BY <1>1, SyncAssumption DEF IInv, TypeOK, SyncAssumption, Commit
<1>3. ListsAreTrue'
  BY <1>1 DEF IInv, ListsAreTrue, Examining
<1>4. EveryRepoListed'
  BY <1>1 DEF IInv, ListsAreTrue, EveryRepoListed
<1>5. OkMeansInStep'
  BY DEF IInv, OkMeansInStep
<1>. QED
  BY <1>2, <1>3, <1>4, <1>5 DEF IInv

LEMMA StatusPreserves == ASSUME IInv, Status PROVE IInv'
<1>. USE DEF Status
<1>1. Current \in Repo /\ Current' = Current /\ Checked' = Checked
  BY CurrentIsRepo DEF IInv, TypeOK, Current, Checked
<1>2. TypeOK'
  BY <1>1 DEF IInv, TypeOK, Commit
<1>3. ListsAreTrue'
  BY <1>1 DEF IInv, ListsAreTrue, Examining
<1>4. EveryRepoListed'
  BY <1>1 DEF IInv, ListsAreTrue, EveryRepoListed
<1>5. OkMeansInStep'
  BY DEF IInv, OkMeansInStep
<1>. QED
  BY <1>2, <1>3, <1>4, <1>5 DEF IInv

LEMMA FetchPreserves == ASSUME IInv, Fetch PROVE IInv'
<1>. USE DEF Fetch, lists
<1>1. Current \in Repo /\ Current' = Current /\ Current \notin Checked /\ Checked' = Checked
  BY CurrentIsRepo, CurrentIsNew DEF IInv, TypeOK, Current, Checked
<1>2. TypeOK'
  BY <1>1 DEF IInv, TypeOK, Commit
<1>3. ListsAreTrue'
  BY <1>1 DEF IInv, ListsAreTrue, Examining
<1>4. EveryRepoListed'
  BY <1>1 DEF IInv, EveryRepoListed
<1>5. OkMeansInStep'
  BY <1>1 DEF IInv, TypeOK, OkMeansInStep, ListsAreTrue
<1>. QED
  BY <1>2, <1>3, <1>4, <1>5 DEF IInv

-----------------------------------------------------------------------------
(* The steps that list a repository after it was compared with gitee *)

(* What the four of them have in common.                                   *)
LEMMA Comparing ==
  ASSUME IInv, pc = "compare", Finish
  PROVE  /\ Current \in Repo /\ Current \in exists
         /\ Current \notin Checked /\ Checked' = Checked \cup {Current}
         /\ isClean = (Current \notin dirty)
         /\ ~isClean => Current \in notClean
         /\ done' \in 0..Len(Order) /\ pc' = "check"
<1>1. done \in 0..Len(Order) /\ done < Len(Order) /\ done' = done + 1
  BY DEF IInv, TypeOK, Finish
<1>2. Current \in Repo /\ Current \notin Checked /\ Checked' = Checked \cup {Current}
  BY <1>1, CurrentIsRepo, CurrentIsNew, CheckedGrows
<1>3. done' \in 0..Len(Order)
  BY <1>1, SyncAssumption DEF SyncAssumption
<1>. QED
  BY <1>2, <1>3 DEF IInv, TypeOK, ListsAreTrue, Examining, Finish

(* The lists stay true when ListAsOk puts the repository in the one of     *)
(* those in step (common-lib.sh 527-530, 547-553).                         *)
LEMMA ListAsOkKeepsLists ==
  ASSUME IInv, pc = "compare", Finish, ListAsOk,
         UNCHANGED <<exists, dirty, elsewhere, isClean, notExist, notClean, notSync>>
  PROVE  ListsAreTrue' /\ EveryRepoListed' /\ ok' \subseteq ok \cup {Current}
<1>1. ok' \subseteq ok \cup {Current}
  BY DEF ListAsOk
<1>2. isClean => Current \in ok' /\ Current \notin dirty
  BY Comparing DEF ListAsOk
<1>3. Current \in notExist \cup notClean \cup notSync \cup ok'
  BY <1>2, Comparing
<1>4. ok \subseteq ok' /\ (Current \in ok' => Current \in ok \/ isClean)
  BY DEF ListAsOk
<1>5. Current \notin ok /\ Current \notin notSync
  BY Comparing DEF IInv, ListsAreTrue
<1>6. ok' \subseteq exists \ dirty /\ ok' \cap notSync = {}
  BY <1>1, <1>2, <1>4, <1>5, Comparing DEF IInv, ListsAreTrue
<1>7. ListsAreTrue'
  BY <1>1, <1>6, Comparing DEF IInv, ListsAreTrue, Examining
<1>8. EveryRepoListed'
  BY <1>3, <1>4, <1>6, Comparing DEF IInv, ListsAreTrue, EveryRepoListed
<1>. QED
  BY <1>1, <1>7, <1>8

LEMMA InStepPreserves == ASSUME IInv, InStep PROVE IInv'
<1>. USE DEF InStep
<1>1. ListsAreTrue' /\ EveryRepoListed' /\ ok' \subseteq ok \cup {Current}
  BY ListAsOkKeepsLists
<1>2. TypeOK'
  BY <1>1, Comparing DEF IInv, TypeOK, Commit
<1>3. OkMeansInStep'
  BY <1>1 DEF IInv, OkMeansInStep, ListsAreTrue
<1>. QED
  BY <1>1, <1>2, <1>3 DEF IInv

(* After a pull that went well the local branch is gitee's: it had nothing *)
(* that the fetched branch lacked (common-lib.sh 476-479, 531-538).        *)
LEMMA PullFastForwards ==
  ASSUME IInv, pc = "compare", ShouldPull, Current \in Repo
  PROVE  master[Current] \cup remote[Current] = remote[Current]
BY DEF IInv, TypeOK, ShouldPull

LEMMA PullPreserves == ASSUME IInv, Pull PROVE IInv'
<1>. USE DEF Pull
<1>1. ListsAreTrue' /\ EveryRepoListed' /\ ok' \subseteq ok \cup {Current}
  BY ListAsOkKeepsLists
<1>2. Current \in Repo /\ Current \notin ok
  BY Comparing DEF IInv, ListsAreTrue
<1>3. CASE /\ failed' = failed \cup {Current}
           /\ track' \in {track, [track EXCEPT ![Current] = remote[Current]]}
           /\ UNCHANGED master
  <2>1. TypeOK'
    BY <1>1, <1>2, <1>3, Comparing DEF IInv, TypeOK, Commit
  <2>2. \A r \in ok : track'[r] = track[r]
    BY <1>2, <1>3 DEF IInv, TypeOK
  <2>3. OkMeansInStep'
    BY <1>1, <1>2, <1>3, <2>2 DEF IInv, OkMeansInStep, ListsAreTrue
  <2>. QED
    BY <1>1, <2>1, <2>3 DEF IInv
<1>4. CASE /\ track' = [track EXCEPT ![Current] = remote[Current]]
           /\ master' = [master EXCEPT ![Current] = @ \cup remote[Current]]
           /\ UNCHANGED failed
  <2>1. TypeOK'
    BY <1>1, <1>2, <1>4, Comparing DEF IInv, TypeOK, Commit
  <2>2. master'[Current] = track'[Current]
    BY <1>2, <1>4, PullFastForwards DEF IInv, TypeOK
  <2>3. \A r \in ok : master'[r] = master[r] /\ track'[r] = track[r]
    BY <1>2, <1>4 DEF IInv, TypeOK
  <2>4. OkMeansInStep'
    BY <1>1, <1>4, <2>2, <2>3 DEF IInv, OkMeansInStep, ListsAreTrue
  <2>. QED
    BY <1>1, <2>1, <2>4 DEF IInv
<1>. QED
  BY <1>3, <1>4

LEMMA PushPreserves == ASSUME IInv, Push PROVE IInv'
<1>. USE DEF Push
<1>1. ListsAreTrue' /\ EveryRepoListed' /\ ok' \subseteq ok \cup {Current}
  BY ListAsOkKeepsLists
<1>2. Current \in Repo /\ Current \notin ok
  BY Comparing DEF IInv, ListsAreTrue
<1>3. CASE failed' = failed \cup {Current} /\ UNCHANGED <<remote, track>>
  <2>1. TypeOK'
    BY <1>1, <1>2, <1>3, Comparing DEF IInv, TypeOK, Commit
  <2>2. OkMeansInStep'
    BY <1>1, <1>2, <1>3 DEF IInv, OkMeansInStep, ListsAreTrue
  <2>. QED
    BY <1>1, <2>1, <2>2 DEF IInv
<1>4. CASE /\ remote' = [remote EXCEPT ![Current] = master[Current]]
           /\ track' = [track EXCEPT ![Current] = master[Current]]
           /\ UNCHANGED failed
  <2>1. TypeOK'
    BY <1>1, <1>2, <1>4, Comparing DEF IInv, TypeOK, Commit
  <2>2. master'[Current] = track'[Current]
    BY <1>2, <1>4 DEF IInv, TypeOK
  <2>3. \A r \in ok : master'[r] = master[r] /\ track'[r] = track[r]
    BY <1>2, <1>4 DEF IInv, TypeOK
  <2>4. OkMeansInStep'
    BY <1>1, <1>4, <2>2, <2>3 DEF IInv, OkMeansInStep, ListsAreTrue
  <2>. QED
    BY <1>1, <2>1, <2>4 DEF IInv
<1>. QED
  BY <1>3, <1>4

LEMMA ByHandPreserves == ASSUME IInv, ByHand PROVE IInv'
<1>. USE DEF ByHand
<1>1. TypeOK'
  BY Comparing DEF IInv, TypeOK, Commit
<1>2. ListsAreTrue'
  BY Comparing DEF IInv, ListsAreTrue, Examining
<1>3. EveryRepoListed'
  BY Comparing DEF IInv, ListsAreTrue, EveryRepoListed
<1>4. OkMeansInStep'
  BY DEF IInv, OkMeansInStep
<1>. QED
  BY <1>1, <1>2, <1>3, <1>4 DEF IInv

-----------------------------------------------------------------------------
(* The steps that touch no list *)

LEMMA EndPreserves == ASSUME IInv, FetchFails \/ PrintResult PROVE IInv'
<1>. USE DEF FetchFails, PrintResult, lists
<1>1. Checked' = Checked /\ pc' \in {"exited", "printed"}
  BY DEF Checked
<1>2. TypeOK'
  BY <1>1 DEF IInv, TypeOK, Commit
<1>3. ListsAreTrue'
  BY <1>1 DEF IInv, ListsAreTrue, Examining
<1>4. EveryRepoListed'
  BY <1>1 DEF IInv, EveryRepoListed
<1>5. OkMeansInStep'
  BY DEF IInv, OkMeansInStep
<1>. QED
  BY <1>2, <1>3, <1>4, <1>5 DEF IInv

LEMMA OtherPushesPreserves ==
  ASSUME IInv, NEW r \in Repo, NEW c \in Others, OtherPushes(r, c)
  PROVE  IInv'
<1>. USE DEF OtherPushes, lists
<1>1. Checked' = Checked /\ Current' = Current
  BY DEF Checked, Current
<1>2. TypeOK'
  BY <1>1 DEF IInv, TypeOK, Commit
<1>3. ListsAreTrue'
  BY <1>1 DEF IInv, ListsAreTrue, Examining
<1>4. EveryRepoListed'
  BY <1>1 DEF IInv, EveryRepoListed
<1>5. OkMeansInStep'
  BY DEF IInv, OkMeansInStep
<1>. QED
  BY <1>2, <1>3, <1>4, <1>5 DEF IInv

LEMMA StutterPreserves == ASSUME IInv, UNCHANGED syncVars PROVE IInv'
<1>. USE DEF syncVars, lists
<1>1. Checked' = Checked /\ Current' = Current
  BY DEF Checked, Current
<1>2. TypeOK'
  BY <1>1 DEF IInv, TypeOK
<1>3. ListsAreTrue'
  BY <1>1 DEF IInv, ListsAreTrue, Examining
<1>4. EveryRepoListed'
  BY <1>1 DEF IInv, EveryRepoListed
<1>5. OkMeansInStep'
  BY DEF IInv, OkMeansInStep
<1>. QED
  BY <1>2, <1>3, <1>4, <1>5 DEF IInv

(* Every step of the script and of other machines preserves IInv.          *)
LEMMA NextPreservesIInv == IInv /\ [Next]_syncVars => IInv'
<1>. SUFFICES ASSUME IInv, [Next]_syncVars PROVE IInv'
  OBVIOUS
<1>1. CASE NoDirectory       BY <1>1, NoDirectoryPreserves
<1>2. CASE Status            BY <1>2, StatusPreserves
<1>3. CASE Fetch             BY <1>3, FetchPreserves
<1>4. CASE FetchFails        BY <1>4, EndPreserves
<1>5. CASE InStep            BY <1>5, InStepPreserves
<1>6. CASE Pull              BY <1>6, PullPreserves
<1>7. CASE Push              BY <1>7, PushPreserves
<1>8. CASE ByHand            BY <1>8, ByHandPreserves
<1>9. CASE PrintResult       BY <1>9, EndPreserves
<1>10. CASE \E r \in Repo, c \in Others : OtherPushes(r, c)
  BY <1>10, OtherPushesPreserves
<1>11. CASE UNCHANGED syncVars
  BY <1>11, StutterPreserves
<1>. QED
  BY <1>1, <1>2, <1>3, <1>4, <1>5, <1>6, <1>7, <1>8, <1>9, <1>10, <1>11
  DEF Next, ScriptStep

LEMMA InductiveInvariant == Spec => []IInv
BY InitEstablishesIInv, NextPreservesIInv, PTL DEF Spec

-----------------------------------------------------------------------------

(* The types of the script's lists and of the branches, and that origin/master *)
(* never runs ahead of gitee's master (check-gitee.sh, common-lib.sh 489-553). *)
THEOREM TypeCorrect == Spec => []TypeOK
<1>1. IInv => TypeOK
  BY DEF IInv
<1>. QED
  BY <1>1, InductiveInvariant, PTL

(* comm_check_repo drops no repository, and lists as ok none that is also  *)
(* missing, unclean or to be merged by hand (common-lib.sh 489-553).       *)
THEOREM NoRepoForgotten == Spec => []EveryRepoListed
<1>1. IInv => EveryRepoListed
  BY DEF IInv
<1>. QED
  BY <1>1, InductiveInvariant, PTL

(* What comm_check_repo lists as ok has nothing uncommitted and was in     *)
(* step with gitee, unless git failed (common-lib.sh 522-553).             *)
THEOREM OkWasInStep == Spec => []OkMeansInStep
<1>1. IInv => OkMeansInStep
  BY DEF IInv
<1>. QED
  BY <1>1, InductiveInvariant, PTL

(* comm_check_pull_push decides for a pull or a push only where it is a    *)
(* fast-forward, whatever other machines push meanwhile                    *)
(* (common-lib.sh 442-487, 531-542).                                       *)
THEOREM NothingMerged == Spec => NeverMerges
<1>. DEFINE Extends ==
       \A r \in Repo : /\ master'[r] # master[r] => master'[r] = remote[r]
                       /\ remote'[r] # remote[r] => remote[r] \subseteq remote'[r]
<1>1. IInv /\ [Next]_syncVars => [Extends]_syncVars
  <2>. SUFFICES ASSUME IInv, Next PROVE Extends
    OBVIOUS
  <2>1. CASE UNCHANGED <<master, remote>>
    BY <2>1
  <2>2. CASE Pull
    <3>1. Current \in Repo
      BY <2>2, Comparing DEF Pull
    <3>2. UNCHANGED remote /\ \A r \in Repo \ {Current} : master'[r] = master[r]
      BY <2>2, <3>1 DEF Pull, IInv, TypeOK
    <3>3. master'[Current] # master[Current] => master'[Current] = remote[Current]
      BY <2>2, <3>1, PullFastForwards DEF Pull, IInv, TypeOK
    <3>. QED
      BY <3>2, <3>3
  <2>3. CASE Push
    <3>1. Current \in Repo
      BY <2>3, Comparing DEF Push
    <3>2. UNCHANGED master /\ \A r \in Repo \ {Current} : remote'[r] = remote[r]
      BY <2>3, <3>1 DEF Push, IInv, TypeOK
    <3>3. remote[Current] \subseteq remote'[Current]
      BY <2>3, <3>1 DEF Push, IInv, TypeOK
    <3>. QED
      BY <3>2, <3>3
  <2>4. CASE \E r \in Repo, c \in Others : OtherPushes(r, c)
    <3>1. PICK r \in Repo, c \in Others : OtherPushes(r, c)
      BY <2>4
    <3>2. UNCHANGED master /\ remote' = [remote EXCEPT ![r] = @ \cup {c}]
      BY <3>1 DEF OtherPushes
    <3>. QED
      BY <3>2 DEF IInv, TypeOK
  <2>. QED
    BY <2>1, <2>2, <2>3, <2>4
    DEF Next, ScriptStep, NoDirectory, Status, Fetch, FetchFails, InStep, ByHand,
        PrintResult
<1>. HIDE DEF Extends
<1>2. Spec => [][Extends]_syncVars
  BY <1>1, InductiveInvariant, PTL DEF Spec
<1>. QED
  BY <1>2 DEF NeverMerges, Extends
=============================================================================
