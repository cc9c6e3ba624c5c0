---------------------------- MODULE RestartLoop ----------------------------
(***************************************************************************)
(* restart.sh and do-restart.sh: "while true; do bash restart.sh; sleep    *)
(* 90; done" polls the repositories, and when one has changed it writes    *)
(* the nginx configuration again, builds the site and restarts nginx.      *)
(*                                                                         *)
(* The build is that of the abstract specification Website, which          *)
(* CreateHtml implements: it takes the site down, and brings it up with    *)
(* the edition that is checked out.                                        *)
(***************************************************************************)
EXTENDS Naturals, Sequences

CONSTANTS
  Commits,      \* bound: the commits of r are 0..Commits[r]
  MaxAccidents, \* bound: how often the loop is killed, the machine goes
                \* down, or reset-push-git.sh is run
  NoFile,       \* in place of a configuration file that is not there
  Mixed         \* in place of an edition: pages from more than one

Repos == <<"blog", "tmp", "private-blog">>
Repo == {"blog", "tmp", "private-blog"}

Version(r) == 0..Commits[r]
Edition == [blog : Version("blog"), tmp : Version("tmp")]
Config == [blog : Version("blog"), ssl : BOOLEAN]

ASSUME LoopAssumption ==
  /\ Commits \in [Repo -> Nat]
  /\ MaxAccidents \in Nat
  /\ NoFile \notin Config
  /\ Mixed \notin Edition

VARIABLES
  isReplaceIp,  \* this machine serves the local network; never changes
  origin,       \* origin[r]: the newest commit at gitee
  github,       \* the newest commit of blog at github
  track,        \* track[r]: origin/master as last fetched
  head,         \* head[r]: the commit that is checked out
  pc,           \* the next command of the loop
  repo,         \* how many calls of update_repo have returned
  isRestart,    \* is_restart
  full,         \* nginx-config.full, or NoFile
  config,       \* sites-enabled/default, or NoFile
  loaded,       \* the configuration that nginx runs
  shown,        \* what the site shows, see Website
  private,      \* the commit the private pages were made from
  seen,         \* history: the checkouts that do-restart.sh began with
  missed,       \* history: the checkouts have changed, no restart has been
                \* finished since, and no comparison will notice
  accidents

serverVars == <<full, config, loaded, shown, private>>
loopVars == <<isReplaceIp, origin, github, track, head, pc, repo, isRestart,
              full, config, loaded, shown, private, seen, missed, accidents>>

-----------------------------------------------------------------------------

Checkout == [blog |-> head["blog"], tmp |-> head["tmp"]]

ConfigOf(v, ssl) == [blog |-> v, ssl |-> ssl]

www == "/var/www/html"

W == INSTANCE Website WITH Site <- {www}, newest <- Checkout

-----------------------------------------------------------------------------
(* restart.sh *)

Goto(from, to) == pc = from /\ pc' = to

Init ==
  /\ isReplaceIp \in BOOLEAN
  /\ origin = [r \in Repo |-> 0]
  /\ github = 0
  /\ track = origin
  /\ head = origin
  /\ pc = "asleep"
  /\ repo = 0
  /\ isRestart = FALSE
  /\ full = NoFile
  /\ config = ConfigOf(0, ~isReplaceIp)
  /\ loaded = config
  /\ shown = [s \in {www} |-> {Checkout}]
  /\ private = 0
  /\ seen = head
  /\ missed = FALSE
  /\ accidents = 0

WakeUp ==
  /\ Goto("asleep", "update")
  /\ repo' = 0
  /\ isRestart' = FALSE
  /\ UNCHANGED <<isReplaceIp, origin, github, track, head, serverVars, seen,
                 missed, accidents>>

Current == Repos[repo + 1]

\* Mutation: the return is missing.
SkipUpdateNot ==
  /\ pc = "update"
  /\ repo < Len(Repos)
  /\ isReplaceIp
  /\ isRestart' = TRUE
  /\ pc' = "compare"
  /\ UNCHANGED <<isReplaceIp, origin, github, track, head, repo, serverVars, seen,
                 missed, accidents>>

\* Mutation: is_restart stays false.
SkipUpdateQuietly ==
  /\ pc = "update"
  /\ repo < Len(Repos)
  /\ isReplaceIp
  /\ repo' = repo + 1
  /\ UNCHANGED <<isReplaceIp, origin, github, track, head, pc, isRestart,
                 serverVars, seen, missed, accidents>>

\* In the local network the checkouts are left alone, and all is restarted.
SkipUpdate ==
  /\ pc = "update"
  /\ repo < Len(Repos)
  /\ isReplaceIp
  /\ isRestart' = TRUE
  /\ repo' = repo + 1
  /\ UNCHANGED <<isReplaceIp, origin, github, track, head, pc, serverVars, seen,
                 missed, accidents>>

\* Mutation: the fetch leaves origin/master where it was.
FetchedNothing == UNCHANGED track

\* timeout 20 git fetch origin
Fetched == track' = [track EXCEPT ![Current] = origin[Current]]

FetchThen(outcome) ==
  /\ Goto("update", "compare")
  /\ repo < Len(Repos)
  /\ ~isReplaceIp
  /\ outcome
  /\ UNCHANGED <<isReplaceIp, origin, github, head, repo, isRestart, serverVars,
                 seen, missed, accidents>>

Fetch == FetchThen(Fetched)
FetchFails == FetchThen(UNCHANGED track)

Unchanged ==
  /\ Goto("compare", "update")
  /\ head[Current] = track[Current]
  /\ repo' = repo + 1
  /\ UNCHANGED <<isReplaceIp, origin, github, track, head, isRestart, serverVars,
                 seen, missed, accidents>>

Changed ==
  /\ Goto("compare", "pull")
  /\ head[Current] # track[Current]
  /\ UNCHANGED <<isReplaceIp, origin, github, track, head, repo, isRestart,
                 serverVars, seen, missed, accidents>>

\* $2 of update_repo, as lines 38-40 pass it
IsGithub(r) == r = "blog" /\ isReplaceIp

\* Mutation: is_restart is set only for the first repository.
PullThenForBlog(outcome) ==
  /\ Goto("pull", "update")
  /\ outcome
  /\ isRestart' = (isRestart \/ Current = "blog")
  /\ github' \in IF IsGithub(Current) THEN {github, head'["blog"]} ELSE {github}
  /\ repo' = repo + 1
  /\ UNCHANGED <<isReplaceIp, origin, serverVars, seen, missed, accidents>>

\* timeout 20 git pull origin master.  A pull that is cut off may have
\* fetched; whatever becomes of it, is_restart is set.
PullThen(outcome) ==
  /\ Goto("pull", "update")
  /\ outcome
  /\ isRestart' = TRUE
  /\ github' \in IF IsGithub(Current) THEN {github, head'["blog"]} ELSE {github}
  /\ repo' = repo + 1
  /\ UNCHANGED <<isReplaceIp, origin, serverVars, seen, missed, accidents>>

Pull == PullThen(Fetched /\ head' = [head EXCEPT ![Current] = origin[Current]])
PullFails == PullThen((Fetched \/ UNCHANGED track) /\ UNCHANGED head)

-----------------------------------------------------------------------------
(* do-restart.sh *)

NoRestart ==
  /\ Goto("update", "asleep")
  /\ repo = Len(Repos)
  /\ ~isRestart
  /\ UNCHANGED <<isReplaceIp, origin, github, track, head, repo, isRestart,
                 serverVars, seen, missed, accidents>>

\* copy_config: rm ${config_file}
RmConfig ==
  /\ Goto("update", "create_full")
  /\ repo = Len(Repos)
  /\ isRestart
  /\ config' = NoFile
  /\ seen' = head
  /\ UNCHANGED <<isReplaceIp, origin, github, track, head, repo, isRestart, full,
                 loaded, shown, private, missed, accidents>>

\* create-nginx-404.sh: the template with the redirections put in
CreateFull ==
  /\ Goto("create_full", "mv_config")
  /\ full' = ConfigOf(head["blog"], TRUE)
  /\ UNCHANGED <<isReplaceIp, origin, github, track, head, repo, isRestart, config,
                 loaded, shown, private, seen, missed, accidents>>

MvConfig ==
  /\ Goto("mv_config", "strip_ssl")
  /\ config' = full
  /\ full' = NoFile
  /\ UNCHANGED <<isReplaceIp, origin, github, track, head, repo, isRestart,
                 loaded, shown, private, seen, missed, accidents>>

\* The local network has no certificate.
StripSsl ==
  /\ Goto("strip_ssl", "clear")
  /\ config' = IF isReplaceIp THEN ConfigOf(config.blog, FALSE) ELSE config
  /\ UNCHANGED <<isReplaceIp, origin, github, track, head, repo, isRestart, full,
                 loaded, shown, private, seen, missed, accidents>>

\* create-html.sh, up to the rm of my_exit
TakeDown ==
  /\ Goto("clear", "bring_up")
  /\ UNCHANGED <<track, head>>
  /\ W!TakeDown(www)
  /\ UNCHANGED <<isReplaceIp, origin, github, repo, isRestart, full, config,
                 loaded, private, seen, missed, accidents>>

\* The rest of it.  Checkouts that have changed since leave a mixed site,
\* unless they did so before the builder read them.
BringUp ==
  /\ Goto("bring_up", "private")
  /\ UNCHANGED <<track, head>>
  /\ \/ W!BringUp(www)
     \/ /\ head # seen
        /\ shown' = [shown EXCEPT ![www] = {Mixed}]
  /\ UNCHANGED <<isReplaceIp, origin, github, repo, isRestart, full, config,
                 loaded, private, seen, missed, accidents>>

RestartPrivate ==
  /\ Goto("private", "nginx")
  /\ private' = IF isReplaceIp THEN head["private-blog"] ELSE private
  /\ UNCHANGED <<isReplaceIp, origin, github, track, head, repo, isRestart, full,
                 config, loaded, shown, seen, missed, accidents>>

\* service nginx restart
RestartNginx ==
  /\ Goto("nginx", "asleep")
  /\ loaded' = config
  /\ missed' = (head # seen)
  /\ UNCHANGED <<isReplaceIp, origin, github, track, head, repo, isRestart, full,
                 config, shown, private, seen, accidents>>

-----------------------------------------------------------------------------
(* Around the loop *)

\* A commit is pushed to gitee.
Push(r) ==
  /\ origin[r] < Commits[r]
  /\ origin' = [origin EXCEPT ![r] = @ + 1]
  /\ UNCHANGED <<isReplaceIp, github, track, head, pc, repo, isRestart, serverVars,
                 seen, missed, accidents>>

\* In the local network the author brings the checkouts up to date.
Edit(r) ==
  /\ isReplaceIp
  /\ head[r] < origin[r]
  /\ head' = [head EXCEPT ![r] = @ + 1]
  /\ track' = head'
  /\ UNCHANGED <<isReplaceIp, origin, github, pc, repo, isRestart, serverVars, seen,
                 missed, accidents>>

Accident ==
  /\ accidents < MaxAccidents
  /\ accidents' = accidents + 1

\* One run of restart.sh is killed; the loop around it goes on.
Kill ==
  /\ Accident
  /\ pc # "asleep"
  /\ pc' = "asleep"
  /\ missed' = (missed \/ isRestart)
  /\ UNCHANGED <<isReplaceIp, origin, github, track, head, repo, isRestart,
                 serverVars, seen>>

\* The machine goes down, and nginx comes up with what is on the disk.
Reboot ==
  /\ Accident
  /\ pc' = "asleep"
  /\ missed' = (missed \/ (pc # "asleep" /\ isRestart))
  /\ loaded' = config
  /\ UNCHANGED <<isReplaceIp, origin, github, track, head, repo, isRestart, full,
                 config, shown, private, seen>>

\* reset-push-git.sh on the public server: git fetch, git reset --hard
ResetRepo(r) ==
  /\ Accident
  /\ ~isReplaceIp
  /\ track' = [track EXCEPT ![r] = origin[r]]
  /\ head' = [head EXCEPT ![r] = origin[r]]
  /\ missed' = (missed \/ head'[r] # head[r])
  /\ UNCHANGED <<isReplaceIp, origin, github, pc, repo, isRestart, serverVars, seen>>

LoopStep ==
  \/ WakeUp \/ SkipUpdate \/ Fetch \/ FetchFails \/ Unchanged \/ Changed
  \/ Pull \/ PullFails \/ NoRestart
  \/ RmConfig \/ CreateFull \/ MvConfig \/ StripSsl \/ TakeDown \/ BringUp
  \/ RestartPrivate \/ RestartNginx

Next ==
  \/ LoopStep
  \/ \E r \in Repo : Push(r) \/ Edit(r) \/ ResetRepo(r)
  \/ Kill
  \/ Reboot

Spec == Init /\ [][Next]_loopVars

At(r) == repo < Len(Repos) /\ Current = r

\* The loop does not stop, and the network is not for ever down when it is
\* the turn of blog.  Nothing else need happen.
Fairness ==
  /\ WF_loopVars(LoopStep)
  /\ SF_loopVars(At("blog") /\ Fetch)
  /\ SF_loopVars(At("blog") /\ Pull)

FairSpec == Spec /\ Fairness

-----------------------------------------------------------------------------
(* Properties *)

LoopPhase == {"asleep", "update", "compare", "pull", "create_full", "mv_config",
              "strip_ssl", "clear", "bring_up", "private", "nginx"}

\* Types; a pull is only reached with something to compare, and only a
\* restart that the loop has decided on touches the server.
TypeOK ==
  /\ isReplaceIp \in BOOLEAN
  /\ origin \in [Repo -> Nat] /\ \A r \in Repo : origin[r] \in Version(r)
  /\ github \in Version("blog")
  /\ track \in [Repo -> Nat] /\ head \in [Repo -> Nat]
  /\ \A r \in Repo : head[r] <= track[r] /\ track[r] <= origin[r]
  /\ pc \in LoopPhase
  /\ repo \in 0..Len(Repos)
  /\ isRestart \in BOOLEAN
  /\ {full, config, loaded} \subseteq Config \cup {NoFile}
  /\ shown \in [{www} -> SUBSET (Edition \cup {Mixed})]
  /\ private \in Version("private-blog")
  /\ seen \in [Repo -> Nat]
  /\ missed \in BOOLEAN
  /\ accidents \in 0..MaxAccidents
  /\ pc \in {"compare", "pull"} => repo < Len(Repos) /\ ~isReplaceIp

Whole ==
  /\ shown[www] = {Checkout}
  /\ config = ConfigOf(head["blog"], ~isReplaceIp)
  /\ loaded = config

\* When the public server sleeps, the site shows the commits that are
\* checked out and nginx runs their configuration, unless a kill or a reset
\* took the change from the loop (restart.sh 28-45, do-restart.sh 32-42):
\* it never goes back to sleep on a half-finished restart.
QuietMeansCurrent ==
  pc = "asleep" /\ ~isReplaceIp /\ ~missed => Whole

\* A commit that is pushed to gitee is shown to visitors some time later,
\* unless a kill or a reset took it from the loop (restart.sh 16-36).
Published ==
  \A v \in Version("blog") :
    origin["blog"] >= v
      ~> isReplaceIp \/ missed \/ \E e \in shown[www] : e \in Edition /\ e.blog >= v

\* In the local network every round restarts all (restart.sh 19-23), so
\* that once nobody edits or kills the whole server becomes current again.
LanRepairs ==
  isReplaceIp =>
    \A v \in Version("blog"), p \in Version("private-blog") :
      (head["blog"] = v /\ head["private-blog"] = p)
        ~> \/ head["blog"] # v \/ head["private-blog"] # p
           \/ Whole /\ private = p

\* restart.sh:38: the public server pushes to github what it has pulled.
PushedToGithub ==
  \A v \in Version("blog") : ~isReplaceIp /\ head["blog"] >= v ~> github >= v

-----------------------------------------------------------------------------
(* Why QuietMeansCurrent holds: the inductive invariant                    *)

Restarting ==
  pc \in {"create_full", "mv_config", "strip_ssl", "clear", "bring_up", "private",
          "nginx"}

\* A restart has been decided on, and the checkouts are where they were when
\* it began or ahead of that; if they are still there at the end they have
\* been there all the time.
SeenIsBehind ==
  Restarting => isRestart /\ \A r \in Repo : seen[r] <= head[r]

\* What a restart has done so far, unless the checkouts have changed since.
RestartSoFar ==
  /\ pc = "mv_config" => full # NoFile
  /\ pc = "strip_ssl" => config # NoFile
  /\ ~isReplaceIp /\ head = seen =>
       /\ pc = "mv_config" => full = ConfigOf(head["blog"], TRUE)
       /\ pc \in {"strip_ssl", "clear", "bring_up", "private", "nginx"} =>
            config = ConfigOf(head["blog"], TRUE)
       /\ pc \in {"private", "nginx"} => shown[www] = {Checkout}

\* As long as nothing is known to have changed, all is as it was.
UndecidedMeansCurrent ==
  pc \in {"update", "compare", "pull"} /\ ~isRestart /\ ~isReplaceIp /\ ~missed => Whole

IInv ==
  /\ TypeOK /\ QuietMeansCurrent
  /\ SeenIsBehind /\ RestartSoFar /\ UndecidedMeansCurrent
=============================================================================
