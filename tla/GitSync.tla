------------------------------- MODULE GitSync -------------------------------
(***************************************************************************)
(* check-gitee.sh: walks through the author's repositories, and pulls or   *)
(* pushes the ones that can be brought into step with gitee without a      *)
(* merge.  comm_check_repo and comm_check_pull_push of common-lib.sh do    *)
(* the work; every repository ends up in the lists that are printed.       *)
(*                                                                         *)
(* A branch is the set of the commits it contains.                         *)
(***************************************************************************)
EXTENDS Naturals, Sequences, FiniteSets

CONSTANTS
  Repo,        \* the repositories of the script
  Order,       \* the sequence in which it checks them
  Mine,        \* bound: the commits the author may make in one repository
  Others       \* bound: the commits other machines may push to it

ASSUME SyncAssumption ==
  /\ Order \in Seq(Repo)
  /\ \A i, j \in 1..Len(Order) : Order[i] = Order[j] => i = j
  /\ Mine \cap Others = {}

VARIABLES
  exists,      \* the repositories whose directory is there
  dirty,       \* those with uncommitted changes
  elsewhere,   \* those where another branch than master is checked out
  master,      \* master[r]: the commits of the local branch
  track,       \* track[r]: those of origin/master as last fetched
  remote,      \* remote[r]: those of master at gitee
  pc,          \* the next command of the script
  done,        \* how many calls of check_git have returned
  isClean,     \* is_repo_clean
  notExist, notClean, notSync, ok,   \* the four lists
  failed       \* history: the repositories whose pull or push failed

lists == <<notExist, notClean, notSync, ok>>
syncVars == <<exists, dirty, elsewhere, master, track, remote, pc, done, isClean,
              lists, failed>>

Commit == Mine \cup Others
Current == Order[done + 1]

-----------------------------------------------------------------------------

Init ==
  /\ exists \in SUBSET Repo
  /\ dirty \in SUBSET Repo
  /\ elsewhere \in SUBSET Repo
  /\ master \in [Repo -> SUBSET Mine]
  /\ track = [r \in Repo |-> {}]
  /\ remote = [r \in Repo |-> {}]
  /\ pc = "check"
  /\ done = 0
  /\ isClean = FALSE
  /\ notExist = {} /\ notClean = {} /\ notSync = {} /\ ok = {}
  /\ failed = {}

NoDirectory ==
  /\ pc = "check"
  /\ done < Len(Order)
  /\ Current \notin exists
  /\ notExist' = notExist \cup {Current}
  /\ done' = done + 1
  /\ UNCHANGED <<exists, dirty, elsewhere, master, track, remote, pc, isClean,
                 notClean, notSync, ok, failed>>

\* Mutation: a directory that is missing is not noticed.
StatusAnyway ==
  /\ pc = "check"
  /\ done < Len(Order)
  /\ pc' = "fetch"
  /\ isClean' = (Current \notin dirty)
  /\ notClean' = IF Current \in dirty THEN notClean \cup {Current} ELSE notClean
  /\ UNCHANGED <<exists, dirty, elsewhere, master, track, remote, done, notExist,
                 notSync, ok, failed>>

\* git status -s
Status ==
  /\ pc = "check"
  /\ done < Len(Order)
  /\ Current \in exists
  /\ pc' = "fetch"
  /\ isClean' = (Current \notin dirty)
  /\ notClean' = IF Current \in dirty THEN notClean \cup {Current} ELSE notClean
  /\ UNCHANGED <<exists, dirty, elsewhere, master, track, remote, done, notExist,
                 notSync, ok, failed>>

Fetch ==
  /\ pc = "fetch"
  /\ pc' = "compare"
  /\ track' = [track EXCEPT ![Current] = remote[Current]]
  /\ UNCHANGED <<exists, dirty, elsewhere, master, remote, done, isClean, lists,
                 failed>>

\* Mutation: the check of the repository starts over.
FetchFailsAgain ==
  /\ pc = "fetch"
  /\ pc' = "check"
  /\ UNCHANGED <<exists, dirty, elsewhere, master, track, remote, done, isClean,
                 lists, failed>>

\* The whole script ends here, and nothing is printed.
FetchFails ==
  /\ pc = "fetch"
  /\ pc' = "exited"
  /\ UNCHANGED <<exists, dirty, elsewhere, master, track, remote, done, isClean,
                 lists, failed>>

\* What comm_check_pull_push reads off git branch -a --contains: the local
\* branch counts only while it is the one that is checked out.  The patterns
\* of grep also fit a branch whose name begins with master; here there is none.
LocalContains(commits) ==
  commits \subseteq master[Current] /\ Current \notin elsewhere

\* Mutation: whether gitee contains the local commit is not asked.
ShouldPullAnyway ==
  /\ ~LocalContains(track[Current])
  /\ LocalContains(master[Current])

ShouldPull ==
  /\ ~LocalContains(track[Current])
  /\ master[Current] \subseteq track[Current]
  /\ LocalContains(master[Current])

ShouldPush ==
  /\ LocalContains(track[Current])
  /\ ~(master[Current] \subseteq track[Current])

Finish == pc' = "check" /\ done' = done + 1

\* Mutation: is_include_repo is not looked at.
ListAsOkAnyway == ok' = ok \cup {Current}

\* An unclean repository is in notClean already.
ListAsOk == ok' = IF isClean THEN ok \cup {Current} ELSE ok

InStep ==
  /\ pc = "compare"
  /\ master[Current] = track[Current]
  /\ Finish
  /\ ListAsOk
  /\ UNCHANGED <<exists, dirty, elsewhere, master, track, remote, isClean,
                 notExist, notClean, notSync, failed>>

\* git pull origin master fetches once more, and then moves master on.  Either
\* may fail, the second when it would overwrite uncommitted changes; nobody
\* looks at the exit status.
Pull ==
  /\ pc = "compare"
  /\ master[Current] # track[Current]
  /\ ShouldPull
  /\ \/ /\ track' = [track EXCEPT ![Current] = remote[Current]]
        /\ master' = [master EXCEPT ![Current] = @ \cup remote[Current]]
        /\ UNCHANGED failed
     \/ /\ track' \in {track, [track EXCEPT ![Current] = remote[Current]]}
        /\ UNCHANGED master
        /\ failed' = failed \cup {Current}
  /\ Finish
  /\ ListAsOk
  /\ UNCHANGED <<exists, dirty, elsewhere, remote, isClean, notExist, notClean,
                 notSync>>

\* git push origin master is refused when gitee has more by now.
Push ==
  /\ pc = "compare"
  /\ master[Current] # track[Current]
  /\ ShouldPush
  /\ \/ /\ remote[Current] \subseteq master[Current]
        /\ remote' = [remote EXCEPT ![Current] = master[Current]]
        /\ track' = [track EXCEPT ![Current] = master[Current]]
        /\ UNCHANGED failed
     \/ /\ UNCHANGED <<remote, track>>
        /\ failed' = failed \cup {Current}
  /\ Finish
  /\ ListAsOk
  /\ UNCHANGED <<exists, dirty, elsewhere, master, isClean, notExist, notClean,
                 notSync>>

\* Mutation: tmp_repos_ref keeps pointing to ok_repos.
ByHandAsOk ==
  /\ pc = "compare"
  /\ master[Current] # track[Current]
  /\ ~ShouldPull
  /\ ~ShouldPush
  /\ Finish
  /\ ListAsOk
  /\ UNCHANGED <<exists, dirty, elsewhere, master, track, remote, isClean,
                 notExist, notClean, notSync, failed>>

ByHand ==
  /\ pc = "compare"
  /\ master[Current] # track[Current]
  /\ ~ShouldPull
  /\ ~ShouldPush
  /\ Finish
  /\ notSync' = notSync \cup {Current}
  /\ UNCHANGED <<exists, dirty, elsewhere, master, track, remote, isClean,
                 notExist, notClean, ok, failed>>

PrintResult ==
  /\ pc = "check"
  /\ done = Len(Order)
  /\ pc' = "printed"
  /\ UNCHANGED <<exists, dirty, elsewhere, master, track, remote, done, isClean,
                 lists, failed>>

\* Another machine pushes, at any moment.
OtherPushes(r, c) ==
  /\ c \notin remote[r]
  /\ remote' = [remote EXCEPT ![r] = @ \cup {c}]
  /\ UNCHANGED <<exists, dirty, elsewhere, master, track, pc, done, isClean, lists,
                 failed>>

ScriptStep ==
  \/ NoDirectory \/ Status \/ Fetch \/ FetchFails \/ InStep \/ Pull \/ Push
  \/ ByHand \/ PrintResult

Next ==
  \/ ScriptStep
  \/ \E r \in Repo, c \in Others : OtherPushes(r, c)

Spec == Init /\ [][Next]_syncVars

FairSpec == Spec /\ WF_syncVars(ScriptStep)

-----------------------------------------------------------------------------
(* Properties *)

Checked == {Order[i] : i \in 1..done}

\* Types; the tracked branch never runs ahead of gitee.
TypeOK ==
  /\ {exists, dirty, elsewhere} \subseteq SUBSET Repo
  /\ master \in [Repo -> SUBSET Commit]
  /\ track \in [Repo -> SUBSET Commit]
  /\ remote \in [Repo -> SUBSET Commit]
  /\ \A r \in Repo : track[r] \subseteq remote[r]
  /\ pc \in {"check", "fetch", "compare", "exited", "printed"}
  /\ done \in 0..Len(Order)
  /\ pc \in {"fetch", "compare"} => done < Len(Order) /\ Current \in exists
  /\ isClean \in BOOLEAN
  /\ {notExist, notClean, notSync, ok, failed} \subseteq SUBSET Repo

\* Every repository that has been checked is in a list, and those that have
\* nothing wrong are in ok only (common-lib.sh 489-553).
EveryRepoListed ==
  /\ Checked \subseteq notExist \cup notClean \cup notSync \cup ok
  /\ ok \cap (notExist \cup notClean \cup notSync) = {}

\* A repository the script calls ok was in step with gitee when it was
\* checked, unless git failed, and had nothing uncommitted.
OkMeansInStep ==
  \A r \in ok : r \notin dirty /\ (master[r] = track[r] \/ r \in failed)

\* The script never merges: what it pulls extends the local branch, and what
\* it pushes extends gitee's (common-lib.sh 442-445).
NeverMerges ==
  [][\A r \in Repo :
       /\ master'[r] # master[r] => master'[r] = remote[r]
       /\ remote'[r] # remote[r] => remote[r] \subseteq remote'[r]]_syncVars

\* The script comes to an end.
Ends == <>(pc \in {"printed", "exited"})

\* check-gitee.sh:16 prints ok_repos as all settled.
OkMeansSettled ==
  pc = "printed" => \A r \in ok : master[r] = track[r]

-----------------------------------------------------------------------------
(* Why the invariants hold: what a list says of a repository stays true,   *)
(* because the script touches no repository that it has listed.            *)

Examining == pc \in {"fetch", "compare"}

ListsAreTrue ==
  /\ notExist \cup notSync \cup ok \subseteq Checked
  /\ notExist \cap exists = {}
  /\ notClean \subseteq dirty
  /\ ok \subseteq exists \ dirty
  /\ ok \cap notSync = {}
  /\ Examining => isClean = (Current \notin dirty)
  /\ Examining /\ ~isClean => Current \in notClean

IInv ==
  /\ TypeOK
  /\ ListsAreTrue
  /\ EveryRepoListed
  /\ OkMeansInStep
=============================================================================
