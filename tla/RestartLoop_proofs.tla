------------------------- MODULE RestartLoop_proofs -------------------------
(***************************************************************************)
(* Proofs about restart.sh and do-restart.sh, for any number of commits    *)
(* and accidents: a loop that sleeps has left everything current.  IInv of *)
(* RestartLoop is the inductive invariant.                                 *)
(***************************************************************************)
EXTENDS RestartLoop, TLAPS

LEMMA ReposLength == Len(Repos) = 3
BY DEF Repos

LEMMA CurrentIsRepo ==
  ASSUME repo \in 0..Len(Repos), repo < Len(Repos)
  PROVE  Current \in Repo /\ repo + 1 \in 0..Len(Repos)
<1>1. repo = 0 \/ repo = 1 \/ repo = 2
  BY ReposLength
<1>2. Current \in Repo
  BY <1>1 DEF Current, Repos, Repo
<1>. QED
  BY <1>1, <1>2, ReposLength

LEMMA HeadIsVersion ==
  ASSUME TypeOK, NEW r \in Repo
  PROVE  head[r] \in Version(r) /\ origin[r] \in Version(r)
BY LoopAssumption DEF LoopAssumption, TypeOK, Version

LEMMA CheckoutIsEdition ==
  ASSUME TypeOK
  PROVE  Checkout \in Edition
<1>1. "blog" \in Repo /\ "tmp" \in Repo
  BY DEF Repo
<1>. QED
  BY <1>1, HeadIsVersion DEF Checkout, Edition

LEMMA InitEstablishesIInv == Init => IInv
<1>. SUFFICES ASSUME Init PROVE IInv
  OBVIOUS
<1>1. TypeOK
  <2>1. \A r \in Repo : 0 \in Version(r)
    BY LoopAssumption DEF LoopAssumption, Version
  <2>2. "blog" \in Repo /\ "tmp" \in Repo /\ "private-blog" \in Repo
    BY DEF Repo
  <2>3. config \in Config
    BY <2>1, <2>2 DEF Init, ConfigOf, Config
  <2>4. Checkout \in Edition
    BY <2>1, <2>2 DEF Init, Checkout, Edition
  <2>5. shown \in [{www} -> SUBSET (Edition \cup {Mixed})]
    BY <2>4 DEF Init
  <2>6. 0 \in 0..Len(Repos) /\ 0 \in 0..MaxAccidents
    BY ReposLength, LoopAssumption DEF LoopAssumption
  <2>7. /\ origin \in [Repo -> Nat] /\ track = origin /\ head = origin /\ seen = origin
        /\ \A r \in Repo : origin[r] \in Version(r) /\ origin[r] = 0
    BY <2>1 DEF Init
  <2>8. isReplaceIp \in BOOLEAN /\ isRestart \in BOOLEAN /\ missed \in BOOLEAN
    BY DEF Init
  <2>. QED
    BY <2>1, <2>2, <2>3, <2>5, <2>6, <2>7, <2>8 DEF Init, TypeOK, LoopPhase
<1>2. Whole
  BY DEF Init, Whole, ConfigOf, Checkout, Repo
<1>. QED
  BY <1>1, <1>2
  DEF Init, IInv, QuietMeansCurrent, SeenIsBehind, Restarting, RestartSoFar,
      UndecidedMeansCurrent

LEMMA WakeUpKeepsIInv ==
  ASSUME IInv, WakeUp
  PROVE  IInv'
<1>. USE DEF IInv
<1>1. TypeOK'
  <2>1. isRestart' \in BOOLEAN
    BY DEF WakeUp
  <2>2. repo' \in 0..Len(Repos)
    BY ReposLength DEF WakeUp
  <2>. QED
    BY <2>1, <2>2 DEF WakeUp, Goto, TypeOK, LoopPhase, serverVars
<1>2. QuietMeansCurrent'
  BY DEF WakeUp, Goto, QuietMeansCurrent, TypeOK, Whole, Checkout, serverVars
<1>3. SeenIsBehind'
  BY DEF WakeUp, Goto, SeenIsBehind, TypeOK, Restarting, serverVars
<1>4. RestartSoFar'
  BY DEF WakeUp, Goto, RestartSoFar, TypeOK, Checkout, serverVars
<1>5. UndecidedMeansCurrent'
  BY DEF WakeUp, Goto, UndecidedMeansCurrent, TypeOK, QuietMeansCurrent, Whole, Checkout, serverVars
<1>. QED
  BY <1>1, <1>2, <1>3, <1>4, <1>5

LEMMA SkipUpdateKeepsIInv ==
  ASSUME IInv, SkipUpdate
  PROVE  IInv'
<1>. USE DEF IInv
<1>1. TypeOK'
  BY ReposLength, CurrentIsRepo DEF SkipUpdate, TypeOK, LoopPhase, serverVars
<1>2. QuietMeansCurrent'
  BY DEF SkipUpdate, QuietMeansCurrent, TypeOK, Whole, Checkout, serverVars
<1>3. SeenIsBehind'
  BY DEF SkipUpdate, SeenIsBehind, TypeOK, Restarting, serverVars
<1>4. RestartSoFar'
  BY DEF SkipUpdate, RestartSoFar, TypeOK, Checkout, serverVars
<1>5. UndecidedMeansCurrent'
  BY DEF SkipUpdate, UndecidedMeansCurrent, TypeOK, QuietMeansCurrent, Whole, Checkout, serverVars
<1>. QED
  BY <1>1, <1>2, <1>3, <1>4, <1>5

LEMMA FetchKeepsIInv ==
  ASSUME IInv, Fetch
  PROVE  IInv'
<1>. USE DEF IInv
<1>1. TypeOK'
  BY ReposLength, CurrentIsRepo DEF Fetch, FetchThen, Fetched, Goto, TypeOK, LoopPhase, serverVars
<1>2. QuietMeansCurrent'
  BY DEF Fetch, FetchThen, Fetched, Goto, QuietMeansCurrent, TypeOK, Whole, Checkout, serverVars
<1>3. SeenIsBehind'
  BY DEF Fetch, FetchThen, Fetched, Goto, SeenIsBehind, TypeOK, Restarting, serverVars
<1>4. RestartSoFar'
  BY DEF Fetch, FetchThen, Fetched, Goto, RestartSoFar, TypeOK, Checkout, serverVars
<1>5. UndecidedMeansCurrent'
  BY DEF Fetch, FetchThen, Fetched, Goto, UndecidedMeansCurrent, TypeOK, QuietMeansCurrent, Whole, Checkout, serverVars
<1>. QED
  BY <1>1, <1>2, <1>3, <1>4, <1>5

LEMMA FetchFailsKeepsIInv ==
  ASSUME IInv, FetchFails
  PROVE  IInv'
<1>. USE DEF IInv
<1>1. TypeOK'
  BY ReposLength, CurrentIsRepo DEF FetchFails, FetchThen, Goto, TypeOK, LoopPhase, serverVars
<1>2. QuietMeansCurrent'
  BY DEF FetchFails, FetchThen, Goto, QuietMeansCurrent, TypeOK, Whole, Checkout, serverVars
<1>3. SeenIsBehind'
  BY DEF FetchFails, FetchThen, Goto, SeenIsBehind, TypeOK, Restarting, serverVars
<1>4. RestartSoFar'
  BY DEF FetchFails, FetchThen, Goto, RestartSoFar, TypeOK, Checkout, serverVars
<1>5. UndecidedMeansCurrent'
  BY DEF FetchFails, FetchThen, Goto, UndecidedMeansCurrent, TypeOK, QuietMeansCurrent, Whole, Checkout, serverVars
<1>. QED
  BY <1>1, <1>2, <1>3, <1>4, <1>5

LEMMA UnchangedKeepsIInv ==
  ASSUME IInv, Unchanged
  PROVE  IInv'
<1>. USE DEF IInv
<1>1. TypeOK'
  BY ReposLength, CurrentIsRepo DEF Unchanged, Goto, TypeOK, LoopPhase, serverVars
<1>2. QuietMeansCurrent'
  BY DEF Unchanged, Goto, QuietMeansCurrent, TypeOK, Whole, Checkout, serverVars
<1>3. SeenIsBehind'
  BY DEF Unchanged, Goto, SeenIsBehind, TypeOK, Restarting, serverVars
<1>4. RestartSoFar'
  BY DEF Unchanged, Goto, RestartSoFar, TypeOK, Checkout, serverVars
<1>5. UndecidedMeansCurrent'
  BY DEF Unchanged, Goto, UndecidedMeansCurrent, TypeOK, QuietMeansCurrent, Whole, Checkout, serverVars
<1>. QED
  BY <1>1, <1>2, <1>3, <1>4, <1>5

LEMMA ChangedKeepsIInv ==
  ASSUME IInv, Changed
  PROVE  IInv'
<1>. USE DEF IInv
<1>1. TypeOK'
  BY ReposLength, CurrentIsRepo DEF Changed, Goto, TypeOK, LoopPhase, serverVars
<1>2. QuietMeansCurrent'
  BY DEF Changed, Goto, QuietMeansCurrent, TypeOK, Whole, Checkout, serverVars
<1>3. SeenIsBehind'
  BY DEF Changed, Goto, SeenIsBehind, TypeOK, Restarting, serverVars
<1>4. RestartSoFar'
  BY DEF Changed, Goto, RestartSoFar, TypeOK, Checkout, serverVars
<1>5. UndecidedMeansCurrent'
  BY DEF Changed, Goto, UndecidedMeansCurrent, TypeOK, QuietMeansCurrent, Whole, Checkout, serverVars
<1>. QED
  BY <1>1, <1>2, <1>3, <1>4, <1>5

LEMMA PullKeepsIInv ==
  ASSUME IInv, Pull
  PROVE  IInv'
<1>. USE DEF IInv
<1>1. TypeOK'
  <2>1. /\ pc' = "update" /\ isRestart' = TRUE /\ repo' = repo + 1
        /\ track' = [track EXCEPT ![Current] = origin[Current]]
        /\ head' = [head EXCEPT ![Current] = origin[Current]]
        /\ github' \in {github, head'["blog"]}
        /\ UNCHANGED <<isReplaceIp, origin, serverVars, seen, missed, accidents>>
    BY DEF Pull, PullThen, Fetched, Goto
  <2>2. Current \in Repo /\ repo' \in 0..Len(Repos)
    BY <2>1, CurrentIsRepo DEF Pull, PullThen, Goto, TypeOK
  <2>3. /\ track' \in [Repo -> Nat] /\ head' \in [Repo -> Nat]
        /\ \A r \in Repo : head'[r] <= track'[r] /\ track'[r] <= origin[r]
    BY <2>1, <2>2 DEF TypeOK
  <2>4. github' \in Version("blog")
    <3>1. "blog" \in Repo /\ head'["blog"] \in {head["blog"], origin["blog"]}
      BY <2>1, <2>2 DEF TypeOK, Repo
    <3>. QED
      BY <2>1, <3>1, HeadIsVersion DEF TypeOK
  <2>. QED
    BY <2>1, <2>2, <2>3, <2>4 DEF TypeOK, LoopPhase, serverVars
<1>2. QuietMeansCurrent'
  BY DEF Pull, PullThen, Fetched, Goto, QuietMeansCurrent, TypeOK, Whole, Checkout, serverVars
<1>3. SeenIsBehind'
  BY DEF Pull, PullThen, Fetched, Goto, SeenIsBehind, TypeOK, Restarting, serverVars
<1>4. RestartSoFar'
  BY DEF Pull, PullThen, Fetched, Goto, RestartSoFar, TypeOK, Checkout, serverVars
<1>5. UndecidedMeansCurrent'
  BY DEF Pull, PullThen, Fetched, Goto, UndecidedMeansCurrent, TypeOK, QuietMeansCurrent, Whole, Checkout, serverVars
<1>. QED
  BY <1>1, <1>2, <1>3, <1>4, <1>5

LEMMA PullFailsKeepsIInv ==
  ASSUME IInv, PullFails
  PROVE  IInv'
<1>. USE DEF IInv
<1>1. TypeOK'
  <2>1. /\ pc' = "update" /\ isRestart' = TRUE /\ repo' = repo + 1
        /\ \/ track' = [track EXCEPT ![Current] = origin[Current]]
           \/ track' = track
        /\ github' \in {github, head["blog"]}
        /\ UNCHANGED <<isReplaceIp, origin, head, serverVars, seen, missed, accidents>>
    BY DEF PullFails, PullThen, Fetched, Goto
  <2>2. Current \in Repo /\ repo' \in 0..Len(Repos)
    BY <2>1, CurrentIsRepo DEF PullFails, PullThen, Goto, TypeOK
  <2>3. /\ track' \in [Repo -> Nat]
        /\ \A r \in Repo : head[r] <= track'[r] /\ track'[r] <= origin[r]
    <3>1. CASE track' = [track EXCEPT ![Current] = origin[Current]]
      BY <2>2, <3>1 DEF TypeOK
    <3>2. CASE track' = track
      BY <3>2 DEF TypeOK
    <3>. QED
      BY <2>1, <3>1, <3>2
  <2>4. github' \in Version("blog")
    <3>1. "blog" \in Repo
      BY DEF Repo
    <3>. QED
      BY <2>1, <3>1, HeadIsVersion DEF TypeOK
  <2>. QED
    BY <2>1, <2>2, <2>3, <2>4 DEF TypeOK, LoopPhase, serverVars
<1>2. QuietMeansCurrent'
  BY DEF PullFails, PullThen, Fetched, Goto, QuietMeansCurrent, TypeOK, Whole, Checkout, serverVars
<1>3. SeenIsBehind'
  BY DEF PullFails, PullThen, Fetched, Goto, SeenIsBehind, TypeOK, Restarting, serverVars
<1>4. RestartSoFar'
  BY DEF PullFails, PullThen, Fetched, Goto, RestartSoFar, TypeOK, Checkout, serverVars
<1>5. UndecidedMeansCurrent'
  BY DEF PullFails, PullThen, Fetched, Goto, UndecidedMeansCurrent, TypeOK, QuietMeansCurrent, Whole, Checkout, serverVars
<1>. QED
  BY <1>1, <1>2, <1>3, <1>4, <1>5

LEMMA NoRestartKeepsIInv ==
  ASSUME IInv, NoRestart
  PROVE  IInv'
<1>. USE DEF IInv
<1>1. TypeOK'
  BY ReposLength, CurrentIsRepo DEF NoRestart, Goto, TypeOK, LoopPhase, serverVars
<1>2. QuietMeansCurrent'
  BY DEF NoRestart, Goto, QuietMeansCurrent, UndecidedMeansCurrent, Whole, Checkout, serverVars
<1>3. SeenIsBehind'
  BY DEF NoRestart, Goto, SeenIsBehind, TypeOK, Restarting, serverVars
<1>4. RestartSoFar'
  BY DEF NoRestart, Goto, RestartSoFar, TypeOK, Checkout, serverVars
<1>5. UndecidedMeansCurrent'
  BY DEF NoRestart, Goto, UndecidedMeansCurrent, TypeOK, QuietMeansCurrent, Whole, Checkout, serverVars
<1>. QED
  BY <1>1, <1>2, <1>3, <1>4, <1>5

LEMMA RmConfigKeepsIInv ==
  ASSUME IInv, RmConfig
  PROVE  IInv'
<1>. USE DEF IInv
<1>1. TypeOK'
  BY ReposLength, CurrentIsRepo DEF RmConfig, Goto, TypeOK, LoopPhase, serverVars
<1>2. QuietMeansCurrent'
  BY DEF RmConfig, Goto, QuietMeansCurrent, TypeOK, Whole, Checkout, serverVars
<1>3. SeenIsBehind'
  BY DEF RmConfig, Goto, SeenIsBehind, TypeOK, Restarting, serverVars
<1>4. RestartSoFar'
  BY DEF RmConfig, Goto, RestartSoFar, TypeOK, Checkout, serverVars
<1>5. UndecidedMeansCurrent'
  BY DEF RmConfig, Goto, UndecidedMeansCurrent, TypeOK, QuietMeansCurrent, Whole, Checkout, serverVars
<1>. QED
  BY <1>1, <1>2, <1>3, <1>4, <1>5

LEMMA CreateFullKeepsIInv ==
  ASSUME IInv, CreateFull
  PROVE  IInv'
<1>. USE DEF IInv
<1>1. TypeOK'
  <2>1. full' \in Config
    <3>1. "blog" \in Repo
      BY DEF Repo
    <3>. QED
      BY <3>1, HeadIsVersion DEF CreateFull, ConfigOf, Config
  <2>. QED
    BY <2>1 DEF CreateFull, Goto, TypeOK, LoopPhase
<1>2. QuietMeansCurrent'
  BY DEF CreateFull, Goto, QuietMeansCurrent, TypeOK, Whole, Checkout, serverVars
<1>3. SeenIsBehind'
  BY DEF CreateFull, Goto, SeenIsBehind, TypeOK, Restarting, serverVars
<1>4. RestartSoFar'
  <2>1. "blog" \in Repo
    BY DEF Repo
  <2>2. full' \in Config /\ NoFile \notin Config
    BY <2>1, HeadIsVersion, LoopAssumption DEF CreateFull, ConfigOf, Config, LoopAssumption
  <2>. QED
    BY <2>2 DEF CreateFull, Goto, RestartSoFar
<1>5. UndecidedMeansCurrent'
  BY DEF CreateFull, Goto, UndecidedMeansCurrent, TypeOK, QuietMeansCurrent, Whole, Checkout, serverVars
<1>. QED
  BY <1>1, <1>2, <1>3, <1>4, <1>5

LEMMA MvConfigKeepsIInv ==
  ASSUME IInv, MvConfig
  PROVE  IInv'
<1>. USE DEF IInv
<1>1. TypeOK'
  BY ReposLength, CurrentIsRepo DEF MvConfig, Goto, TypeOK, LoopPhase, serverVars
<1>2. QuietMeansCurrent'
  BY DEF MvConfig, Goto, QuietMeansCurrent, TypeOK, Whole, Checkout, serverVars
<1>3. SeenIsBehind'
  BY DEF MvConfig, Goto, SeenIsBehind, TypeOK, Restarting, serverVars
<1>4. RestartSoFar'
  BY DEF MvConfig, Goto, RestartSoFar, TypeOK, Checkout, serverVars
<1>5. UndecidedMeansCurrent'
  BY DEF MvConfig, Goto, UndecidedMeansCurrent, TypeOK, QuietMeansCurrent, Whole, Checkout, serverVars
<1>. QED
  BY <1>1, <1>2, <1>3, <1>4, <1>5

LEMMA StripSslKeepsIInv ==
  ASSUME IInv, StripSsl
  PROVE  IInv'
<1>. USE DEF IInv
<1>1. TypeOK'
  <2>1. config \in Config
    BY DEF StripSsl, Goto, RestartSoFar, TypeOK
  <2>2. config' \in Config
    BY <2>1 DEF StripSsl, ConfigOf, Config
  <2>. QED
    BY <2>2 DEF StripSsl, Goto, TypeOK, LoopPhase
<1>2. QuietMeansCurrent'
  BY DEF StripSsl, Goto, QuietMeansCurrent, TypeOK, Whole, Checkout, serverVars
<1>3. SeenIsBehind'
  BY DEF StripSsl, Goto, SeenIsBehind, TypeOK, Restarting, serverVars
<1>4. RestartSoFar'
  BY DEF StripSsl, Goto, RestartSoFar, TypeOK, Checkout, serverVars
<1>5. UndecidedMeansCurrent'
  BY DEF StripSsl, Goto, UndecidedMeansCurrent, TypeOK, QuietMeansCurrent, Whole, Checkout, serverVars
<1>. QED
  BY <1>1, <1>2, <1>3, <1>4, <1>5

LEMMA TakeDownKeepsIInv ==
  ASSUME IInv, TakeDown
  PROVE  IInv'
<1>. USE DEF IInv
<1>1. TypeOK'
  BY ReposLength, CurrentIsRepo DEF TakeDown, Goto, W!TakeDown, TypeOK, LoopPhase, serverVars
<1>2. QuietMeansCurrent'
  BY DEF TakeDown, Goto, W!TakeDown, QuietMeansCurrent, TypeOK, Whole, Checkout, serverVars
<1>3. SeenIsBehind'
  BY DEF TakeDown, Goto, W!TakeDown, SeenIsBehind, TypeOK, Restarting, serverVars
<1>4. RestartSoFar'
  BY DEF TakeDown, Goto, W!TakeDown, RestartSoFar, TypeOK, Checkout, serverVars
<1>5. UndecidedMeansCurrent'
  BY DEF TakeDown, Goto, W!TakeDown, UndecidedMeansCurrent, TypeOK, QuietMeansCurrent, Whole, Checkout, serverVars
<1>. QED
  BY <1>1, <1>2, <1>3, <1>4, <1>5

LEMMA BringUpKeepsIInv ==
  ASSUME IInv, BringUp
  PROVE  IInv'
<1>. USE DEF IInv
<1>1. TypeOK'
  <2>1. \/ shown' = [shown EXCEPT ![www] = {Checkout}]
        \/ shown' = [shown EXCEPT ![www] = {Mixed}]
    BY DEF BringUp, W!BringUp
  <2>2. shown' \in [{www} -> SUBSET (Edition \cup {Mixed})]
    BY <2>1, CheckoutIsEdition DEF TypeOK
  <2>. QED
    BY <2>2 DEF BringUp, Goto, TypeOK, LoopPhase
<1>2. QuietMeansCurrent'
  BY DEF BringUp, Goto, W!BringUp, QuietMeansCurrent, TypeOK, Whole, Checkout, serverVars
<1>3. SeenIsBehind'
  BY DEF BringUp, Goto, W!BringUp, SeenIsBehind, TypeOK, Restarting, serverVars
<1>4. RestartSoFar'
  BY DEF BringUp, Goto, W!BringUp, RestartSoFar, TypeOK, Checkout, serverVars
<1>5. UndecidedMeansCurrent'
  BY DEF BringUp, Goto, W!BringUp, UndecidedMeansCurrent, TypeOK, QuietMeansCurrent, Whole, Checkout, serverVars
<1>. QED
  BY <1>1, <1>2, <1>3, <1>4, <1>5

LEMMA RestartPrivateKeepsIInv ==
  ASSUME IInv, RestartPrivate
  PROVE  IInv'
<1>. USE DEF IInv
<1>1. TypeOK'
  <2>1. private' \in Version("private-blog")
    <3>1. "private-blog" \in Repo
      BY DEF Repo
    <3>. QED
      BY <3>1, HeadIsVersion DEF RestartPrivate, TypeOK
  <2>. QED
    BY <2>1 DEF RestartPrivate, Goto, TypeOK, LoopPhase
<1>2. QuietMeansCurrent'
  BY DEF RestartPrivate, Goto, QuietMeansCurrent, TypeOK, Whole, Checkout, serverVars
<1>3. SeenIsBehind'
  BY DEF RestartPrivate, Goto, SeenIsBehind, TypeOK, Restarting, serverVars
<1>4. RestartSoFar'
  BY DEF RestartPrivate, Goto, RestartSoFar, TypeOK, Checkout, serverVars
<1>5. UndecidedMeansCurrent'
  BY DEF RestartPrivate, Goto, UndecidedMeansCurrent, TypeOK, QuietMeansCurrent, Whole, Checkout, serverVars
<1>. QED
  BY <1>1, <1>2, <1>3, <1>4, <1>5

LEMMA RestartNginxKeepsIInv ==
  ASSUME IInv, RestartNginx
  PROVE  IInv'
<1>. USE DEF IInv
<1>1. TypeOK'
  BY ReposLength, CurrentIsRepo DEF RestartNginx, Goto, TypeOK, LoopPhase, serverVars
<1>2. QuietMeansCurrent'
  BY DEF RestartNginx, Goto, QuietMeansCurrent, RestartSoFar, Whole, Checkout, TypeOK
<1>3. SeenIsBehind'
  BY DEF RestartNginx, Goto, SeenIsBehind, TypeOK, Restarting, serverVars
<1>4. RestartSoFar'
  BY DEF RestartNginx, Goto, RestartSoFar, TypeOK, Checkout, serverVars
<1>5. UndecidedMeansCurrent'
  BY DEF RestartNginx, Goto, UndecidedMeansCurrent, TypeOK, QuietMeansCurrent, Whole, Checkout, serverVars
<1>. QED
  BY <1>1, <1>2, <1>3, <1>4, <1>5

LEMMA PushKeepsIInv ==
  ASSUME IInv, NEW r \in Repo, Push(r)
  PROVE  IInv'
<1>. USE DEF IInv
<1>1. TypeOK'
  <2>1. /\ origin' \in [Repo -> Nat]
        /\ \A q \in Repo : origin'[q] \in Version(q) /\ origin[q] <= origin'[q]
    <3>1. \A q \in Repo : Commits[q] \in Nat /\ origin[q] \in 0..Commits[q]
      BY LoopAssumption DEF LoopAssumption, TypeOK, Version
    <3>2. origin' = [origin EXCEPT ![r] = origin[r] + 1] /\ origin[r] < Commits[r]
      BY DEF Push
    <3>3. origin \in [Repo -> Nat]
      BY DEF TypeOK
    <3>4. \A q \in Repo : origin'[q] = IF q = r THEN origin[r] + 1 ELSE origin[q]
      BY <3>2, <3>3
    <3>. QED
      BY <3>1, <3>2, <3>3, <3>4 DEF Version
  <2>. QED
    BY <2>1 DEF Push, TypeOK, serverVars
<1>2. QuietMeansCurrent'
  BY DEF Push, QuietMeansCurrent, TypeOK, Whole, Checkout, serverVars
<1>3. SeenIsBehind'
  BY DEF Push, SeenIsBehind, TypeOK, Restarting, serverVars
<1>4. RestartSoFar'
  BY DEF Push, RestartSoFar, TypeOK, Checkout, serverVars
<1>5. UndecidedMeansCurrent'
  BY DEF Push, UndecidedMeansCurrent, TypeOK, QuietMeansCurrent, Whole, Checkout, serverVars
<1>. QED
  BY <1>1, <1>2, <1>3, <1>4, <1>5

LEMMA EditKeepsIInv ==
  ASSUME IInv, NEW r \in Repo, Edit(r)
  PROVE  IInv'
<1>. USE DEF IInv
<1>1. TypeOK'
  BY ReposLength, CurrentIsRepo DEF Edit, TypeOK, LoopPhase, serverVars
<1>2. QuietMeansCurrent'
  BY DEF Edit, QuietMeansCurrent, TypeOK, Whole, Checkout, serverVars
<1>3. SeenIsBehind'
  BY DEF Edit, SeenIsBehind, TypeOK, Restarting, serverVars
<1>4. RestartSoFar'
  BY DEF Edit, RestartSoFar, TypeOK, Checkout, serverVars
<1>5. UndecidedMeansCurrent'
  BY DEF Edit, UndecidedMeansCurrent, TypeOK, QuietMeansCurrent, Whole, Checkout, serverVars
<1>. QED
  BY <1>1, <1>2, <1>3, <1>4, <1>5

LEMMA KillKeepsIInv ==
  ASSUME IInv, Kill
  PROVE  IInv'
<1>. USE DEF IInv
<1>1. TypeOK'
  BY LoopAssumption DEF LoopAssumption, Kill, Accident, TypeOK, LoopPhase, serverVars
<1>2. QuietMeansCurrent'
  <2>1. ~isRestart => pc \in {"asleep", "update", "compare", "pull"}
    BY DEF TypeOK, LoopPhase, SeenIsBehind, Restarting
  <2>. QED
    BY <2>1 DEF Kill, QuietMeansCurrent, UndecidedMeansCurrent, Whole, Checkout, serverVars, TypeOK
<1>3. SeenIsBehind'
  BY DEF Kill, Accident, SeenIsBehind, TypeOK, Restarting, serverVars
<1>4. RestartSoFar'
  BY DEF Kill, Accident, RestartSoFar, TypeOK, Checkout, serverVars
<1>5. UndecidedMeansCurrent'
  BY DEF Kill, Accident, UndecidedMeansCurrent, TypeOK, QuietMeansCurrent, Whole, Checkout, serverVars
<1>. QED
  BY <1>1, <1>2, <1>3, <1>4, <1>5

LEMMA RebootKeepsIInv ==
  ASSUME IInv, Reboot
  PROVE  IInv'
<1>. USE DEF IInv
<1>1. TypeOK'
  BY LoopAssumption DEF LoopAssumption, Reboot, Accident, TypeOK, LoopPhase, serverVars
<1>2. QuietMeansCurrent'
  <2>1. ~isRestart => pc \in {"asleep", "update", "compare", "pull"}
    BY DEF TypeOK, LoopPhase, SeenIsBehind, Restarting
  <2>. QED
    BY <2>1 DEF Reboot, QuietMeansCurrent, UndecidedMeansCurrent, Whole, Checkout, serverVars, TypeOK
<1>3. SeenIsBehind'
  BY DEF Reboot, Accident, SeenIsBehind, TypeOK, Restarting, serverVars
<1>4. RestartSoFar'
  BY DEF Reboot, Accident, RestartSoFar, TypeOK, Checkout, serverVars
<1>5. UndecidedMeansCurrent'
  BY DEF Reboot, Accident, UndecidedMeansCurrent, TypeOK, QuietMeansCurrent, Whole, Checkout, serverVars
<1>. QED
  BY <1>1, <1>2, <1>3, <1>4, <1>5

LEMMA ResetRepoKeepsIInv ==
  ASSUME IInv, NEW r \in Repo, ResetRepo(r)
  PROVE  IInv'
<1>. USE DEF IInv
<1>1. TypeOK'
  <2>1. /\ track' \in [Repo -> Nat] /\ head' \in [Repo -> Nat]
        /\ \A q \in Repo : head'[q] <= track'[q] /\ track'[q] <= origin[q]
    BY DEF ResetRepo, TypeOK
  <2>2. accidents' \in 0..MaxAccidents
    BY LoopAssumption DEF LoopAssumption, ResetRepo, Accident, TypeOK
  <2>3. missed' \in BOOLEAN
    BY DEF ResetRepo, TypeOK
  <2>. QED
    BY <2>1, <2>2, <2>3 DEF ResetRepo, TypeOK, serverVars
<1>2. QuietMeansCurrent'
  BY DEF ResetRepo, Accident, QuietMeansCurrent, TypeOK, Whole, Checkout, serverVars
<1>3. SeenIsBehind'
  BY DEF ResetRepo, Accident, SeenIsBehind, TypeOK, Restarting, serverVars
<1>4. RestartSoFar'
  <2>. SUFFICES ASSUME Restarting, head' = seen' PROVE head' = head
    BY DEF ResetRepo, RestartSoFar, Restarting, Checkout, serverVars
  <2>1. \A q \in Repo : head[q] <= head'[q] /\ head'[q] <= head[q]
    BY DEF ResetRepo, SeenIsBehind, TypeOK
  <2>2. /\ head \in [Repo -> Nat] /\ head' \in [Repo -> Nat]
        /\ \A q \in Repo : head'[q] = head[q]
    BY <2>1, <1>1 DEF TypeOK
  <2>. QED
    BY <2>2
<1>5. UndecidedMeansCurrent'
  BY DEF ResetRepo, Accident, UndecidedMeansCurrent, TypeOK, QuietMeansCurrent, Whole, Checkout, serverVars
<1>. QED
  BY <1>1, <1>2, <1>3, <1>4, <1>5

(***************************************************************************)
(* The theorems                                                            *)
(***************************************************************************)

LEMMA NextKeepsIInv == IInv /\ [Next]_loopVars => IInv'
<1>. SUFFICES ASSUME IInv, [Next]_loopVars PROVE IInv'
  OBVIOUS
<1>1. CASE LoopStep
  BY <1>1, WakeUpKeepsIInv, SkipUpdateKeepsIInv, FetchKeepsIInv, FetchFailsKeepsIInv,
     UnchangedKeepsIInv, ChangedKeepsIInv, PullKeepsIInv, PullFailsKeepsIInv,
     NoRestartKeepsIInv, RmConfigKeepsIInv, CreateFullKeepsIInv, MvConfigKeepsIInv,
     StripSslKeepsIInv, TakeDownKeepsIInv, BringUpKeepsIInv, RestartPrivateKeepsIInv,
     RestartNginxKeepsIInv
  DEF LoopStep
<1>2. CASE \E r \in Repo : Push(r) \/ Edit(r) \/ ResetRepo(r)
  BY <1>2, PushKeepsIInv, EditKeepsIInv, ResetRepoKeepsIInv
<1>3. CASE Kill \/ Reboot
  BY <1>3, KillKeepsIInv, RebootKeepsIInv
<1>4. CASE UNCHANGED loopVars
  BY <1>4 DEF loopVars, IInv, TypeOK, QuietMeansCurrent, Whole, Checkout, SeenIsBehind,
     Restarting, RestartSoFar, UndecidedMeansCurrent
<1>. QED
  BY <1>1, <1>2, <1>3, <1>4 DEF Next

THEOREM InductiveInvariant == Spec => []IInv
BY InitEstablishesIInv, NextKeepsIInv, PTL DEF Spec

(* The types; a checkout is never ahead of origin/master, nor that of      *)
(* gitee, and the configuration is missing or one that was written whole.  *)
THEOREM TypeCorrect == Spec => []TypeOK
<1>1. IInv => TypeOK
  BY DEF IInv
<1>. QED
  BY <1>1, InductiveInvariant, PTL

(* However the fetches and pulls end, and whenever commits arrive: when    *)
(* the public server sleeps, site and nginx are at what is checked out,    *)
(* unless a kill or a reset took a change from the loop (restart.sh 28-45, *)
(* do-restart.sh 32-42).                                                   *)
THEOREM SleepsWhenCurrent == Spec => []QuietMeansCurrent
<1>1. IInv => QuietMeansCurrent
  BY DEF IInv
<1>. QED
  BY <1>1, InductiveInvariant, PTL
=============================================================================
