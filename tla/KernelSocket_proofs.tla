------------------------ MODULE KernelSocket_proofs ------------------------
(***************************************************************************)
(* Proofs about kernel-socket-server.c and kernel-socket-client.c, for any *)
(* number of loads of either module: no thread outlives its module, the    *)
(* server releases its sockets on every path, and the two take turns.      *)
(* IInv of KernelSocket is the inductive invariant.                        *)
(***************************************************************************)
EXTENDS KernelSocket, SequenceTheorems, TLAPS

LEMMA TakeTurnsFollows ==
  ASSUME TypeOK, OneUnderWay
  PROVE  TakeTurns
BY DEF OneUnderWay, TakeTurns

LEMMA InBacklogType ==
  ASSUME TypeOK
  PROVE  InBacklog \subseteq Connection
BY ElementOfSeq, LenProperties DEF TypeOK, InBacklog

LEMMA MineType ==
  ASSUME TypeOK
  PROVE  /\ MaxLoads \in Nat /\ mine \in 0..MaxLoads
         /\ \A m \in Module : loads[m] \in 0..MaxLoads
         /\ ThreadsBegin /\ Running("client") => mine \in Connection
BY LoadsAssumption DEF LoadsAssumption, TypeOK, mine, Module, Connection, ThreadsBegin

LEMMA InitEstablishesIInv == Init => IInv
<1>. SUFFICES ASSUME Init PROVE IInv
  OBVIOUS
<1>1. TypeOK
  <2>1. /\ loads \in [Module -> 0..MaxLoads] /\ accepted \in Connection \cup {0}
        /\ backlog \in Seq(Connection)
    BY LoadsAssumption, EmptySeq DEF Init, LoadsAssumption
  <2>2. stop \in [Module -> BOOLEAN] /\ sends \in BOOLEAN /\ listening \in BOOLEAN
    BY DEF Init
  <2>3. toServer \in [Connection -> BOOLEAN] /\ toClient \in [Connection -> BOOLEAN]
    BY DEF Init
  <2>. QED
    BY <2>1, <2>2, <2>3 DEF Init, TypeOK, Module
<1>2. CodeStays /\ ServerReleases /\ ThreadsBegin
  BY DEF Init, CodeStays, Running, ServerReleases, ThreadsBegin, Module
<1>3. MadeOnce /\ OneUnderWay
  BY DEF Init, MadeOnce, OneUnderWay, Running, InBacklog, Module, Connection
<1>. QED
  BY <1>1, <1>2, <1>3, TakeTurnsFollows DEF IInv

LEMMA LoadKeepsIInv ==
  ASSUME IInv, NEW m \in Module, Load(m)
  PROVE  IInv'
<1>. USE DEF IInv
<1>a. PICK first \in {"create", "failed"} : thread' = [thread EXCEPT ![m] = first]
  BY DEF Load
<1>b. /\ module[m] = "out" /\ module' = [module EXCEPT ![m] = "in"]
      /\ loads' = [loads EXCEPT ![m] = @ + 1] /\ loads[m] < MaxLoads
      /\ stop' = [stop EXCEPT ![m] = FALSE]
      /\ UNCHANGED <<sockets, listening, backlog, accepted, toServer, toClient, closedBy>>
  BY DEF Load, netVars
<1>c. thread[m] \in {"none", "failed", "dead"}
  BY <1>b DEF CodeStays, Running
<1>d. /\ thread' \in [Module -> {"none", "failed", "dead", "create", "listen", "accept",
                               "peername", "check", "wait", "reply", "connect", "send",
                               "recv", "sleep", "release"}]
      /\ thread'[m] = first /\ \A k \in Module : k # m => thread'[k] = thread[k]
  BY <1>a DEF TypeOK
<1>e. /\ loads' \in [Module -> 0..MaxLoads] /\ loads'[m] = loads[m] + 1
      /\ \A k \in Module : k # m => loads'[k] = loads[k]
  BY <1>b, MineType DEF TypeOK
<1>f. /\ \A k \in Module : k # m => stop'[k] = stop[k]
      /\ "server" \in Module /\ "client" \in Module
  BY <1>b DEF TypeOK, Module
<1>1. TypeOK'
  <2>1. sends' \in BOOLEAN
    BY DEF Load, TypeOK
  <2>2. module' \in [Module -> {"out", "in", "unloading", "oops"}]
    BY <1>b DEF TypeOK
  <2>3. stop' \in [Module -> BOOLEAN]
    BY <1>b DEF TypeOK
  <2>4. thread'["server"] \in {"peername", "check", "wait", "reply"} => accepted # 0
    BY <1>d, <1>f DEF TypeOK
  <2>. QED
    BY <1>b, <1>d, <1>e, <2>1, <2>2, <2>3, <2>4 DEF TypeOK
<1>2. CodeStays'
  BY DEF Load, CodeStays, TypeOK, Running, Module, loadVars, netVars
<1>3. ServerReleases'
  BY <1>b, <1>c, <1>d, <1>f DEF ServerReleases, ThreadsBegin
<1>4. ThreadsBegin'
  <2>1. thread'["server"] = thread["server"]
        \/ thread["server"] \in {"none", "failed", "dead"}
    BY <1>c, <1>d, <1>f
  <2>2. Running("client")' => loads'["client"] # 0
    <3>1. CASE m = "client"
      BY <1>e, <3>1, MineType
    <3>2. CASE m # "client"
      BY <1>d, <1>e, <1>f, <3>2 DEF ThreadsBegin, Running, mine
    <3>. QED
      BY <3>1, <3>2
  <2>. QED
    BY <1>b, <2>1, <2>2 DEF ThreadsBegin, mine
<1>5. MadeOnce'
  <2>1. \A n \in Connection : Unmade(n)' => Unmade(n)
    <3>1. CASE m = "client"
      BY <1>e, <3>1, MineType DEF Unmade, mine, Connection
    <3>2. CASE m # "client"
      BY <1>d, <1>e, <1>f, <3>2 DEF Unmade, mine
    <3>. QED
      BY <3>1, <3>2
  <2>. QED
    BY <1>b, <2>1 DEF MadeOnce, InBacklog
<1>6. OneUnderWay'
  <2>1. CASE m = "client"
    <3>. SUFFICES ASSUME Running("client")' PROVE OneUnderWay'
      BY DEF OneUnderWay
    <3>1. thread'["client"] = "create"
      BY <1>a, <1>d, <2>1 DEF Running
    <3>2. mine' \in Connection /\ Unmade(mine)'
      BY <1>d, <1>e, <1>f, <2>1, <3>1, MineType DEF Unmade, mine, Connection
    <3>3. mine' \notin InBacklog' /\ mine' # accepted'
      BY <1>5, <3>2 DEF MadeOnce, Unmade, mine, InBacklog
    <3>. QED
      BY <3>3 DEF OneUnderWay
  <2>2. CASE m = "server"
    <3>1. accepted = 0 /\ thread["client"] = thread'["client"] /\ mine' = mine
      BY <1>c, <1>d, <1>e, <1>f, <2>2 DEF ThreadsBegin, mine
    <3>2. Running("client") => mine # 0
      BY DEF ThreadsBegin
    <3>. QED
      BY <1>b, <3>1, <3>2 DEF OneUnderWay, Running, InBacklog
  <2>. QED
    BY <2>1, <2>2 DEF Module
<1>7. TakeTurns'
  <2>. TypeOK' /\ OneUnderWay'
    BY <1>1, <1>6
  <2>. QED
    BY DEF OneUnderWay, TakeTurns
<1>. QED
  BY <1>1, <1>2, <1>3, <1>4, <1>5, <1>6, <1>7

LEMMA UnloadKeepsIInv ==
  ASSUME IInv, NEW m \in Module, Unload(m)
  PROVE  IInv'
<1>. USE DEF IInv
<1>1. TypeOK'
  BY DEF Unload, TypeOK, Module, loadVars, netVars
<1>2. CodeStays'
  BY DEF Unload, CodeStays, TypeOK, Running, Module, loadVars, netVars
<1>3. ServerReleases'
  BY DEF Unload, ServerReleases, TypeOK, ThreadsBegin, Module, loadVars, netVars
<1>4. ThreadsBegin'
  BY DEF Unload, ThreadsBegin, TypeOK, Running, mine, Module, loadVars, netVars
<1>5. MadeOnce'
  BY DEF Unload, MadeOnce, TypeOK, Unmade, mine, InBacklog, Module, loadVars, netVars
<1>6. OneUnderWay'
  BY DEF Unload, OneUnderWay, TypeOK, MadeOnce, Unmade, Running, mine, InBacklog, Module, loadVars, netVars
<1>7. TakeTurns'
  <2>. TypeOK' /\ OneUnderWay'
    BY <1>1, <1>6
  <2>. QED
    BY DEF OneUnderWay, TakeTurns
<1>. QED
  BY <1>1, <1>2, <1>3, <1>4, <1>5, <1>6, <1>7

LEMMA UnloadedKeepsIInv ==
  ASSUME IInv, NEW m \in Module, Unloaded(m)
  PROVE  IInv'
<1>. USE DEF IInv
<1>1. TypeOK'
  BY DEF Unloaded, TypeOK, Module, loadVars, netVars
<1>2. CodeStays'
  BY DEF Unloaded, CodeStays, TypeOK, Running, Module, loadVars, netVars
<1>3. ServerReleases'
  BY DEF Unloaded, ServerReleases, TypeOK, ThreadsBegin, Module, loadVars, netVars
<1>4. ThreadsBegin'
  BY DEF Unloaded, ThreadsBegin, TypeOK, Running, mine, Module, loadVars, netVars
<1>5. MadeOnce'
  BY DEF Unloaded, MadeOnce, TypeOK, Unmade, mine, InBacklog, Module, loadVars, netVars
<1>6. OneUnderWay'
  BY DEF Unloaded, OneUnderWay, TypeOK, MadeOnce, Unmade, Running, mine, InBacklog, Module, loadVars, netVars
<1>7. TakeTurns'
  <2>. TypeOK' /\ OneUnderWay'
    BY <1>1, <1>6
  <2>. QED
    BY DEF OneUnderWay, TakeTurns
<1>. QED
  BY <1>1, <1>2, <1>3, <1>4, <1>5, <1>6, <1>7

LEMMA CreateKeepsIInv ==
  ASSUME IInv, NEW m \in Module, Create(m)
  PROVE  IInv'
<1>. USE DEF IInv
<1>1. TypeOK'
  <2>1. \E to \in {"listen", "connect", "dead"} : thread' = [thread EXCEPT ![m] = to]
    BY DEF Create, Step
  <2>2. sockets' \subseteq Module \cup {"accepted"}
    BY DEF Create, TypeOK
  <2>3. UNCHANGED <<loadVars, sends, netVars>>
    BY DEF Create
  <2>4. /\ thread' \in [Module -> {"none", "failed", "dead", "create", "listen", "accept",
                                   "peername", "check", "wait", "reply", "connect", "send",
                                   "recv", "sleep", "release"}]
        /\ thread'["server"] \in {"peername", "check", "wait", "reply"} => accepted # 0
    BY <2>1 DEF TypeOK, Module
  <2>. QED
    BY <2>2, <2>3, <2>4 DEF TypeOK, loadVars, netVars
<1>2. CodeStays'
  BY DEF Create, Step, CodeStays, TypeOK, Running, Module, loadVars, netVars
<1>3. ServerReleases'
  BY DEF Create, Step, ServerReleases, TypeOK, ThreadsBegin, Module, loadVars, netVars
<1>4. ThreadsBegin'
  BY DEF Create, Step, ThreadsBegin, TypeOK, Running, mine, Module, loadVars, netVars
<1>5. MadeOnce'
  BY DEF Create, Step, MadeOnce, TypeOK, Unmade, mine, InBacklog, Module, loadVars, netVars
<1>6. OneUnderWay'
  BY DEF Create, Step, OneUnderWay, TypeOK, MadeOnce, Unmade, Running, mine, InBacklog, Module, loadVars, netVars
<1>7. TakeTurns'
  <2>. TypeOK' /\ OneUnderWay'
    BY <1>1, <1>6
  <2>. QED
    BY DEF OneUnderWay, TakeTurns
<1>. QED
  BY <1>1, <1>2, <1>3, <1>4, <1>5, <1>6, <1>7

LEMMA CheckKeepsIInv ==
  ASSUME IInv, NEW m \in Module, Check(m)
  PROVE  IInv'
<1>. USE DEF IInv
<1>1. TypeOK'
  BY DEF Check, Step, TypeOK, Module, loadVars, netVars
<1>2. CodeStays'
  BY DEF Check, Step, CodeStays, TypeOK, Running, Module, loadVars, netVars
<1>3. ServerReleases'
  BY DEF Check, Step, ServerReleases, TypeOK, ThreadsBegin, Module, loadVars, netVars
<1>4. ThreadsBegin'
  BY DEF Check, Step, ThreadsBegin, TypeOK, Running, mine, Module, loadVars, netVars
<1>5. MadeOnce'
  BY DEF Check, Step, MadeOnce, TypeOK, Unmade, mine, InBacklog, Module, loadVars, netVars
<1>6. OneUnderWay'
  BY DEF Check, Step, OneUnderWay, TypeOK, MadeOnce, Unmade, Running, mine, InBacklog, Module, loadVars, netVars
<1>7. TakeTurns'
  <2>. TypeOK' /\ OneUnderWay'
    BY <1>1, <1>6
  <2>. QED
    BY DEF OneUnderWay, TakeTurns
<1>. QED
  BY <1>1, <1>2, <1>3, <1>4, <1>5, <1>6, <1>7

LEMMA ListenKeepsIInv ==
  ASSUME IInv, Listen
  PROVE  IInv'
<1>. USE DEF IInv
<1>1. TypeOK'
  <2>1. listening' \in BOOLEAN
    <3>1. listening' = TRUE \/ listening' = listening
      BY DEF Listen, netVars
    <3>. QED
      BY <3>1 DEF TypeOK
  <2>2. \E to \in {"accept", "release"} : thread' = [thread EXCEPT !["server"] = to]
    BY DEF Listen, Step
  <2>3. UNCHANGED <<loadVars, sockets, sends, backlog, accepted, toServer, toClient,
                    closedBy>>
    BY DEF Listen, netVars
  <2>. QED
    BY <2>1, <2>2, <2>3 DEF TypeOK, Module, loadVars
<1>2. CodeStays'
  BY DEF Listen, Step, CodeStays, TypeOK, Running, Module, loadVars, netVars
<1>3. ServerReleases'
  BY DEF Listen, Step, ServerReleases, TypeOK, ThreadsBegin, Module, loadVars, netVars
<1>4. ThreadsBegin'
  BY DEF Listen, Step, ThreadsBegin, TypeOK, Running, mine, Module, loadVars, netVars
<1>5. MadeOnce'
  BY DEF Listen, Step, MadeOnce, TypeOK, Unmade, mine, InBacklog, Module, loadVars, netVars
<1>6. OneUnderWay'
  BY DEF Listen, Step, OneUnderWay, TypeOK, MadeOnce, Unmade, Running, mine, InBacklog, Module, loadVars, netVars
<1>7. TakeTurns'
  <2>. TypeOK' /\ OneUnderWay'
    BY <1>1, <1>6
  <2>. QED
    BY DEF OneUnderWay, TakeTurns
<1>. QED
  BY <1>1, <1>2, <1>3, <1>4, <1>5, <1>6, <1>7

LEMMA AcceptKeepsIInv ==
  ASSUME IInv, Accept
  PROVE  IInv'
<1>. USE DEF IInv
<1>a. /\ thread["server"] = "accept" /\ accepted = 0
      /\ backlog \in Seq(Connection)
      /\ UNCHANGED <<loadVars, sends, listening, toServer, toClient, closedBy>>
      /\ \/ /\ backlog # <<>>
            /\ accepted' = Head(backlog) /\ backlog' = Tail(backlog)
            /\ thread' = [thread EXCEPT !["server"] = "peername"]
            /\ sockets' = sockets \cup {"accepted"}
         \/ /\ UNCHANGED <<accepted, backlog, sockets>>
            /\ thread' = [thread EXCEPT !["server"] = "release"]
  BY DEF Accept, Step, ThreadsBegin, TypeOK, netVars
<1>b. /\ "client" \in Module /\ "server" \in Module /\ mine' = mine
      /\ thread'["client"] = thread["client"]
      /\ thread'["server"] \in {"peername", "release"}
  BY <1>a DEF TypeOK, Module, loadVars, mine
<1>c. backlog # <<>> =>
      /\ Head(backlog) \in Connection /\ Tail(backlog) \in Seq(Connection)
      /\ Len(backlog) \in Nat \ {0} /\ DOMAIN backlog = 1..Len(backlog)
      /\ Head(backlog) = backlog[1] /\ Len(Tail(backlog)) = Len(backlog) - 1
      /\ DOMAIN Tail(backlog) = 1..(Len(backlog) - 1)
      /\ \A i \in 1..(Len(backlog) - 1) : Tail(backlog)[i] = backlog[i + 1]
  BY <1>a, HeadTailProperties, LenProperties, EmptySeq
<1>d. /\ \A i, j \in DOMAIN backlog' : backlog'[i] = backlog'[j] => i = j
      /\ accepted' \notin InBacklog' /\ InBacklog' \subseteq InBacklog
      /\ accepted' \in InBacklog \cup {0}
  <2>1. CASE UNCHANGED <<accepted, backlog>>
    BY <1>a, <2>1 DEF MadeOnce, InBacklog
  <2>2. CASE backlog # <<>> /\ accepted' = Head(backlog) /\ backlog' = Tail(backlog)
    <3>1. \A i \in DOMAIN backlog' : i + 1 \in DOMAIN backlog /\ backlog'[i] = backlog[i + 1]
      BY <1>c, <2>2
    <3>2. 1 \in DOMAIN backlog /\ \A i \in DOMAIN backlog' : i \in Nat /\ i + 1 # 1
      BY <1>c, <2>2
    <3>3. \A i, j \in DOMAIN backlog' : backlog'[i] = backlog'[j] => i = j
      <4>1. \A i, j \in DOMAIN backlog' : backlog'[i] = backlog'[j] => i + 1 = j + 1
        BY <3>1 DEF MadeOnce
      <4>. QED
        BY <3>2, <4>1
    <3>4. \A i \in DOMAIN backlog' : backlog'[i] # backlog[1]
      BY <3>1, <3>2 DEF MadeOnce
    <3>. QED
      BY <1>c, <2>2, <3>1, <3>2, <3>3, <3>4 DEF InBacklog
  <2>. QED
    BY <1>a, <2>1, <2>2
<1>1. TypeOK'
  <2>1. backlog' \in Seq(Connection) /\ accepted' \in Connection \cup {0}
    <3>1. CASE UNCHANGED <<accepted, backlog>>
      BY <3>1 DEF TypeOK
    <3>2. CASE backlog # <<>> /\ accepted' = Head(backlog) /\ backlog' = Tail(backlog)
      BY <1>c, <3>2
    <3>. QED
      BY <1>a, <3>1, <3>2
  <2>2. thread' \in [Module -> {"none", "failed", "dead", "create", "listen", "accept",
                                "peername", "check", "wait", "reply", "connect", "send",
                                "recv", "sleep", "release"}]
    BY <1>a DEF TypeOK
  <2>3. thread'["server"] = "peername" => accepted' # 0
    BY <1>a, <1>b, <1>c DEF TypeOK, Connection
  <2>4. sockets' \subseteq Module \cup {"accepted"}
    BY <1>a DEF TypeOK
  <2>. QED
    BY <1>a, <1>b, <2>1, <2>2, <2>3, <2>4 DEF TypeOK, loadVars
<1>2. CodeStays'
  BY DEF Accept, Step, CodeStays, TypeOK, Running, Module, loadVars, netVars
<1>3. ServerReleases'
  BY DEF Accept, Step, ServerReleases, TypeOK, ThreadsBegin, Module, loadVars, netVars
<1>4. ThreadsBegin'
  BY DEF Accept, Step, ThreadsBegin, TypeOK, Running, mine, Module, loadVars, netVars
<1>5. MadeOnce'
  <2>1. \A n \in Connection : Unmade(n)' => Unmade(n)
    BY <1>b DEF Unmade
  <2>2. 0 \notin closedBy["server"]
    BY <1>b DEF TypeOK, Connection
  <2>3. \A n \in Connection : n # 0
    BY DEF Connection
  <2>. QED
    BY <1>a, <1>d, <2>1, <2>2, <2>3 DEF MadeOnce
<1>6. OneUnderWay'
  <2>1. Running("client") => mine \in Connection /\ mine # 0
    BY MineType DEF Connection
  <2>. QED
    BY <1>a, <1>b, <1>d, <2>1 DEF OneUnderWay, Running
<1>7. TakeTurns'
  <2>. TypeOK' /\ OneUnderWay'
    BY <1>1, <1>6
  <2>. QED
    BY DEF OneUnderWay, TakeTurns
<1>. QED
  BY <1>1, <1>2, <1>3, <1>4, <1>5, <1>6, <1>7

LEMMA PeernameKeepsIInv ==
  ASSUME IInv, Peername
  PROVE  IInv'
<1>. USE DEF IInv
<1>1. TypeOK'
  BY DEF Peername, Step, TypeOK, Module, loadVars, netVars
<1>2. CodeStays'
  BY DEF Peername, Step, CodeStays, TypeOK, Running, Module, loadVars, netVars
<1>3. ServerReleases'
  BY DEF Peername, Step, ServerReleases, TypeOK, ThreadsBegin, Module, loadVars, netVars
<1>4. ThreadsBegin'
  BY DEF Peername, Step, ThreadsBegin, TypeOK, Running, mine, Module, loadVars, netVars
<1>5. MadeOnce'
  BY DEF Peername, Step, MadeOnce, TypeOK, Unmade, mine, InBacklog, Module, loadVars, netVars
<1>6. OneUnderWay'
  BY DEF Peername, Step, OneUnderWay, TypeOK, MadeOnce, Unmade, Running, mine, InBacklog, Module, loadVars, netVars
<1>7. TakeTurns'
  <2>. TypeOK' /\ OneUnderWay'
    BY <1>1, <1>6
  <2>. QED
    BY DEF OneUnderWay, TakeTurns
<1>. QED
  BY <1>1, <1>2, <1>3, <1>4, <1>5, <1>6, <1>7

LEMMA WaitKeepsIInv ==
  ASSUME IInv, Wait
  PROVE  IInv'
<1>. USE DEF IInv
<1>1. TypeOK'
  BY DEF Wait, Step, TypeOK, Module, loadVars, netVars
<1>2. CodeStays'
  BY DEF Wait, Step, CodeStays, TypeOK, Running, Module, loadVars, netVars
<1>3. ServerReleases'
  BY DEF Wait, Step, ServerReleases, TypeOK, ThreadsBegin, Module, loadVars, netVars
<1>4. ThreadsBegin'
  BY DEF Wait, Step, ThreadsBegin, TypeOK, Running, mine, Module, loadVars, netVars
<1>5. MadeOnce'
  BY DEF Wait, Step, MadeOnce, TypeOK, Unmade, mine, InBacklog, Module, loadVars, netVars
<1>6. OneUnderWay'
  BY DEF Wait, Step, OneUnderWay, TypeOK, MadeOnce, Unmade, Running, mine, InBacklog, Module, loadVars, netVars
<1>7. TakeTurns'
  <2>. TypeOK' /\ OneUnderWay'
    BY <1>1, <1>6
  <2>. QED
    BY DEF OneUnderWay, TakeTurns
<1>. QED
  BY <1>1, <1>2, <1>3, <1>4, <1>5, <1>6, <1>7

LEMMA ReplyKeepsIInv ==
  ASSUME IInv, Reply
  PROVE  IInv'
<1>. USE DEF IInv
<1>1. TypeOK'
  BY DEF Reply, Step, TypeOK, Module, loadVars, netVars
<1>2. CodeStays'
  BY DEF Reply, Step, CodeStays, TypeOK, Running, Module, loadVars, netVars
<1>3. ServerReleases'
  BY DEF Reply, Step, ServerReleases, TypeOK, ThreadsBegin, Module, loadVars, netVars
<1>4. ThreadsBegin'
  BY DEF Reply, Step, ThreadsBegin, TypeOK, Running, mine, Module, loadVars, netVars
<1>5. MadeOnce'
  BY DEF Reply, Step, MadeOnce, TypeOK, Unmade, mine, InBacklog, Module, loadVars, netVars
<1>6. OneUnderWay'
  BY DEF Reply, Step, OneUnderWay, TypeOK, MadeOnce, Unmade, Running, mine, InBacklog, Module, loadVars, netVars
<1>7. TakeTurns'
  <2>. TypeOK' /\ OneUnderWay'
    BY <1>1, <1>6
  <2>. QED
    BY DEF OneUnderWay, TakeTurns
<1>. QED
  BY <1>1, <1>2, <1>3, <1>4, <1>5, <1>6, <1>7

LEMMA ServerReleaseKeepsIInv ==
  ASSUME IInv, ServerRelease
  PROVE  IInv'
<1>. USE DEF IInv
<1>a. /\ thread["server"] = "release" /\ thread' = [thread EXCEPT !["server"] = "dead"]
      /\ sockets' = sockets \ {"server", "accepted"}
      /\ listening' = FALSE /\ backlog' = <<>> /\ accepted' = 0
      /\ closedBy' = [closedBy EXCEPT !["server"] =
                        @ \cup InBacklog \cup ({accepted} \ {0})]
      /\ UNCHANGED <<loadVars, sends, toServer, toClient>>
  BY DEF ServerRelease, Step
<1>b. /\ "client" \in Module /\ "server" \in Module /\ mine' = mine
      /\ thread'["client"] = thread["client"] /\ thread'["server"] = "dead"
      /\ closedBy'["server"] = closedBy["server"] \cup InBacklog \cup ({accepted} \ {0})
  BY <1>a DEF TypeOK, Module, loadVars, mine
<1>c. InBacklog' = {}
  BY <1>a DEF InBacklog
<1>1. TypeOK'
  <2>1. backlog' \in Seq(Connection) /\ accepted' \in Connection \cup {0}
    BY <1>a, EmptySeq
  <2>2. closedBy' \in [Module -> SUBSET Connection]
    BY <1>a, InBacklogType DEF TypeOK
  <2>3. listening' \in BOOLEAN
    BY <1>a
  <2>4. thread' \in [Module -> {"none", "failed", "dead", "create", "listen", "accept",
                                "peername", "check", "wait", "reply", "connect", "send",
                                "recv", "sleep", "release"}]
    BY <1>a DEF TypeOK
  <2>. QED
    BY <1>a, <1>b, <2>1, <2>2, <2>3, <2>4 DEF TypeOK, loadVars
<1>2. CodeStays'
  BY DEF ServerRelease, Step, CodeStays, TypeOK, Running, Module, loadVars, netVars
<1>3. ServerReleases'
  BY DEF ServerRelease, Step, ServerReleases, TypeOK, ThreadsBegin, Module, loadVars, netVars
<1>4. ThreadsBegin'
  BY DEF ServerRelease, Step, ThreadsBegin, TypeOK, Running, mine, Module, loadVars, netVars
<1>5. MadeOnce'
  <2>1. \A n \in Connection : Unmade(n)' => Unmade(n) /\ n # 0
    BY <1>b DEF Unmade, Connection
  <2>2. 0 \notin closedBy'["server"]
    BY <1>b, InBacklogType DEF TypeOK, Connection
  <2>. QED
    BY <1>a, <1>b, <1>c, <2>1, <2>2 DEF MadeOnce
<1>6. OneUnderWay'
  <2>1. Running("client") => mine # 0
    BY DEF ThreadsBegin
  <2>. QED
    BY <1>a, <1>b, <1>c, <2>1 DEF OneUnderWay, Running
<1>7. TakeTurns'
  <2>. TypeOK' /\ OneUnderWay'
    BY <1>1, <1>6
  <2>. QED
    BY DEF OneUnderWay, TakeTurns
<1>. QED
  BY <1>1, <1>2, <1>3, <1>4, <1>5, <1>6, <1>7

LEMMA ConnectKeepsIInv ==
  ASSUME IInv, Connect
  PROVE  IInv'
<1>. USE DEF IInv
<1>a. \/ /\ listening /\ thread["client"] = "connect"
         /\ thread' = [thread EXCEPT !["client"] = "check"]
         /\ backlog' = Append(backlog, mine)
      \/ /\ thread["client"] = "connect"
         /\ \E to \in {"release", "dead"} : thread' = [thread EXCEPT !["client"] = to]
         /\ backlog' = backlog
  BY DEF Connect, Step, netVars
<1>b. UNCHANGED <<loadVars, sockets, sends, listening, accepted, toServer, toClient,
                  closedBy>>
  BY DEF Connect, netVars
<1>c. /\ mine \in Connection /\ Unmade(mine) /\ mine' = mine
      /\ thread["client"] = "connect" /\ "client" \in Module /\ "server" \in Module
  BY <1>a, <1>b, MineType DEF Running, Unmade, loadVars, mine, Module
<1>d. mine \notin InBacklog /\ mine # accepted /\ mine \notin closedBy["server"]
  BY <1>c DEF MadeOnce
<1>e. /\ InBacklog' = InBacklog \/ InBacklog' = InBacklog \cup {mine}
      /\ \A i, j \in DOMAIN backlog' : backlog'[i] = backlog'[j] => i = j
  <2>1. CASE backlog' = backlog
    BY <2>1 DEF MadeOnce, InBacklog
  <2>2. CASE backlog' = Append(backlog, mine)
    <3>1. /\ Len(backlog) \in Nat /\ DOMAIN backlog = 1..Len(backlog)
          /\ DOMAIN backlog' = 1..(Len(backlog) + 1)
          /\ \A i \in 1..Len(backlog) : backlog'[i] = backlog[i]
          /\ backlog'[Len(backlog) + 1] = mine
      BY <1>c, <2>2, AppendProperties, LenProperties DEF TypeOK
    <3>2. \A i \in DOMAIN backlog : backlog[i] # mine
      BY <1>d DEF InBacklog
    <3>3. \A i \in DOMAIN backlog' : i \in DOMAIN backlog \/ i = Len(backlog) + 1
      BY <3>1
    <3>4. \A i, j \in DOMAIN backlog' : backlog'[i] = backlog'[j] => i = j
      BY <3>1, <3>2, <3>3 DEF MadeOnce
    <3>5. InBacklog' = InBacklog \cup {mine}
      BY <3>1, <3>3 DEF InBacklog
    <3>. QED
      BY <3>4, <3>5
  <2>. QED
    BY <1>a, <2>1, <2>2
<1>f. /\ thread'["server"] = thread["server"]
      /\ thread'["client"] \in {"check", "release", "dead"}
  BY <1>a, <1>c DEF TypeOK
<1>1. TypeOK'
  <2>1. backlog' \in Seq(Connection)
    <3>1. backlog \in Seq(Connection)
      BY DEF TypeOK
    <3>2. Append(backlog, mine) \in Seq(Connection)
      BY <1>c, <3>1, AppendProperties
    <3>. QED
      BY <1>a, <3>1, <3>2
  <2>2. thread' \in [Module -> {"none", "failed", "dead", "create", "listen", "accept",
                                "peername", "check", "wait", "reply", "connect", "send",
                                "recv", "sleep", "release"}]
    BY <1>a DEF TypeOK
  <2>. QED
    BY <1>b, <1>f, <2>1, <2>2 DEF TypeOK, loadVars
<1>2. CodeStays'
  BY DEF Connect, Step, CodeStays, TypeOK, Running, Module, loadVars, netVars
<1>3. ServerReleases'
  BY DEF Connect, Step, ServerReleases, TypeOK, ThreadsBegin, Module, loadVars, netVars
<1>4. ThreadsBegin'
  BY DEF Connect, Step, ThreadsBegin, TypeOK, Running, mine, Module, loadVars, netVars
<1>5. MadeOnce'
  <2>1. \A n \in Connection : Unmade(n)' => Unmade(n) /\ n # mine
    BY <1>c, <1>f, MineType DEF Unmade, Connection
  <2>. QED
    BY <1>b, <1>d, <1>e, <2>1 DEF MadeOnce
<1>6. OneUnderWay'
  <2>1. ~toServer[mine] /\ ~toClient[mine]
    BY <1>c DEF MadeOnce
  <2>. QED
    BY <1>b, <1>c, <1>d, <1>f, <2>1 DEF OneUnderWay
<1>7. TakeTurns'
  <2>. TypeOK' /\ OneUnderWay'
    BY <1>1, <1>6
  <2>. QED
    BY DEF OneUnderWay, TakeTurns
<1>. QED
  BY <1>1, <1>2, <1>3, <1>4, <1>5, <1>6, <1>7

LEMMA SendKeepsIInv ==
  ASSUME IInv, Send
  PROVE  IInv'
<1>. USE DEF IInv
<1>1. TypeOK'
  BY DEF Send, Step, TypeOK, Module, loadVars, netVars
<1>2. CodeStays'
  BY DEF Send, Step, CodeStays, TypeOK, Running, Module, loadVars, netVars
<1>3. ServerReleases'
  BY DEF Send, Step, ServerReleases, TypeOK, ThreadsBegin, Module, loadVars, netVars
<1>4. ThreadsBegin'
  BY DEF Send, Step, ThreadsBegin, TypeOK, Running, mine, Module, loadVars, netVars
<1>5. MadeOnce'
  BY DEF Send, Step, MadeOnce, TypeOK, Unmade, mine, InBacklog, Module, loadVars, netVars
<1>6. OneUnderWay'
  BY DEF Send, Step, OneUnderWay, TypeOK, MadeOnce, Unmade, Running, mine, InBacklog, Module, loadVars, netVars
<1>7. TakeTurns'
  <2>. TypeOK' /\ OneUnderWay'
    BY <1>1, <1>6
  <2>. QED
    BY DEF OneUnderWay, TakeTurns
<1>. QED
  BY <1>1, <1>2, <1>3, <1>4, <1>5, <1>6, <1>7

LEMMA RecvKeepsIInv ==
  ASSUME IInv, Recv
  PROVE  IInv'
<1>. USE DEF IInv
<1>1. TypeOK'
  BY DEF Recv, Step, TypeOK, Module, loadVars, netVars
<1>2. CodeStays'
  BY DEF Recv, Step, CodeStays, TypeOK, Running, Module, loadVars, netVars
<1>3. ServerReleases'
  BY DEF Recv, Step, ServerReleases, TypeOK, ThreadsBegin, Module, loadVars, netVars
<1>4. ThreadsBegin'
  BY DEF Recv, Step, ThreadsBegin, TypeOK, Running, mine, Module, loadVars, netVars
<1>5. MadeOnce'
  BY DEF Recv, Step, MadeOnce, TypeOK, Unmade, mine, InBacklog, Module, loadVars, netVars
<1>6. OneUnderWay'
  <2>1. /\ thread["client"] = "recv" /\ thread'["client"] = "sleep"
        /\ thread'["server"] = thread["server"] /\ mine' = mine
        /\ toClient[mine] \/ mine \in closedBy["server"]
        /\ toClient' = [toClient EXCEPT ![mine] = FALSE]
        /\ UNCHANGED <<loadVars, backlog, accepted, toServer, closedBy>>
    BY DEF Recv, Step, TypeOK, Module, loadVars, mine
  <2>2. mine \in Connection
    BY <2>1, MineType DEF Running
  <2>3. ~toClient'[mine] /\ InBacklog' = InBacklog
    BY <2>1, <2>2 DEF TypeOK, InBacklog
  <2>4. Running("client")
    BY <2>1 DEF Running
  <2>5. mine \notin InBacklog
    BY <2>1, <2>2, <2>4 DEF OneUnderWay, MadeOnce
  <2>6. CASE mine = accepted /\ ~stop["server"]
    <3>1. toClient[mine]
      BY <2>1, <2>6 DEF MadeOnce
    <3>. QED
      BY <2>1, <2>3, <2>4, <2>5, <2>6, <3>1 DEF OneUnderWay, loadVars
  <2>7. CASE ~(mine = accepted /\ ~stop["server"])
    BY <2>1, <2>3, <2>5, <2>7 DEF OneUnderWay, loadVars
  <2>. QED
    BY <2>6, <2>7
<1>7. TakeTurns'
  <2>. TypeOK' /\ OneUnderWay'
    BY <1>1, <1>6
  <2>. QED
    BY DEF OneUnderWay, TakeTurns
<1>. QED
  BY <1>1, <1>2, <1>3, <1>4, <1>5, <1>6, <1>7

LEMMA SleepKeepsIInv ==
  ASSUME IInv, Sleep
  PROVE  IInv'
<1>. USE DEF IInv
<1>1. TypeOK'
  BY DEF Sleep, Step, TypeOK, Module, loadVars, netVars
<1>2. CodeStays'
  BY DEF Sleep, Step, CodeStays, TypeOK, Running, Module, loadVars, netVars
<1>3. ServerReleases'
  BY DEF Sleep, Step, ServerReleases, TypeOK, ThreadsBegin, Module, loadVars, netVars
<1>4. ThreadsBegin'
  BY DEF Sleep, Step, ThreadsBegin, TypeOK, Running, mine, Module, loadVars, netVars
<1>5. MadeOnce'
  BY DEF Sleep, Step, MadeOnce, TypeOK, Unmade, mine, InBacklog, Module, loadVars, netVars
<1>6. OneUnderWay'
  BY DEF Sleep, Step, OneUnderWay, TypeOK, MadeOnce, Unmade, Running, mine, InBacklog, Module, loadVars, netVars
<1>7. TakeTurns'
  <2>. TypeOK' /\ OneUnderWay'
    BY <1>1, <1>6
  <2>. QED
    BY DEF OneUnderWay, TakeTurns
<1>. QED
  BY <1>1, <1>2, <1>3, <1>4, <1>5, <1>6, <1>7

LEMMA ClientReleaseKeepsIInv ==
  ASSUME IInv, ClientRelease
  PROVE  IInv'
<1>. USE DEF IInv
<1>1. TypeOK'
  <2>1. mine \in Connection
    BY MineType DEF ClientRelease, Step, Running
  <2>2. closedBy' \in [Module -> SUBSET Connection]
    BY <2>1 DEF ClientRelease, TypeOK
  <2>3. toClient' \in [Connection -> BOOLEAN]
    BY DEF ClientRelease, TypeOK
  <2>4. toServer' \in [Connection -> BOOLEAN]
    <3>1. \A n \in Connection : toServer[n] \in BOOLEAN
      BY DEF TypeOK
    <3>2. (toServer[mine] \/ (~toClient[mine] /\ (mine = accepted \/ mine \in InBacklog)))
            \in BOOLEAN
      OBVIOUS
    <3>. QED
      BY <3>1, <3>2 DEF ClientRelease, TypeOK
  <2>5. thread' = [thread EXCEPT !["client"] = "dead"]
    BY DEF ClientRelease, Step
  <2>6. /\ sockets' \subseteq Module \cup {"accepted"}
        /\ UNCHANGED <<loadVars, sends, listening, backlog, accepted>>
    BY DEF ClientRelease, TypeOK
  <2>. QED
    BY <2>2, <2>3, <2>4, <2>5, <2>6 DEF TypeOK, Module, loadVars
<1>2. CodeStays'
  BY DEF ClientRelease, Step, CodeStays, TypeOK, Running, Module, loadVars, netVars
<1>3. ServerReleases'
  BY DEF ClientRelease, Step, ServerReleases, TypeOK, ThreadsBegin, Module, loadVars, netVars
<1>4. ThreadsBegin'
  BY DEF ClientRelease, Step, ThreadsBegin, TypeOK, Running, mine, Module, loadVars, netVars
<1>5. MadeOnce'
  BY DEF ClientRelease, Step, MadeOnce, TypeOK, Unmade, mine, InBacklog, Module, loadVars, netVars
<1>6. OneUnderWay'
  BY DEF ClientRelease, Step, OneUnderWay, TypeOK, MadeOnce, Unmade, Running, mine, InBacklog, Module, loadVars, netVars
<1>7. TakeTurns'
  <2>. TypeOK' /\ OneUnderWay'
    BY <1>1, <1>6
  <2>. QED
    BY DEF OneUnderWay, TakeTurns
<1>. QED
  BY <1>1, <1>2, <1>3, <1>4, <1>5, <1>6, <1>7

LEMMA NextKeepsIInv == IInv /\ [Next]_socketVars => IInv'
<1>. SUFFICES ASSUME IInv, [Next]_socketVars PROVE IInv'
  OBVIOUS
<1>1. CASE \E m \in Module : Load(m) \/ Unload(m) \/ Unloaded(m)
  BY <1>1, LoadKeepsIInv, UnloadKeepsIInv, UnloadedKeepsIInv
<1>2. CASE ServerThread
  BY <1>2, CreateKeepsIInv, CheckKeepsIInv, ListenKeepsIInv, AcceptKeepsIInv,
     PeernameKeepsIInv, WaitKeepsIInv, ReplyKeepsIInv, ServerReleaseKeepsIInv
     DEF ServerThread, Module
<1>3. CASE ClientThread
  BY <1>3, CreateKeepsIInv, CheckKeepsIInv, ConnectKeepsIInv, SendKeepsIInv,
     RecvKeepsIInv, SleepKeepsIInv, ClientReleaseKeepsIInv DEF ClientThread, Module
<1>4. CASE UNCHANGED socketVars
  <2>1. /\ UNCHANGED <<module, loads, stop, thread, sockets, sends, listening, backlog>>
        /\ UNCHANGED <<accepted, toServer, toClient, closedBy>>
    BY <1>4 DEF socketVars, loadVars, netVars
  <2>2. TypeOK' /\ CodeStays' /\ ServerReleases' /\ TakeTurns'
    BY <2>1 DEF IInv, TypeOK, CodeStays, Running, ServerReleases, TakeTurns, mine
  <2>3. ThreadsBegin' /\ MadeOnce' /\ OneUnderWay'
    BY <2>1 DEF IInv, ThreadsBegin, MadeOnce, Unmade, OneUnderWay, InBacklog, Running,
                mine
  <2>. QED
    BY <2>2, <2>3 DEF IInv
<1>. QED
  BY <1>1, <1>2, <1>3, <1>4 DEF Next

-----------------------------------------------------------------------------
(* The theorems *)

\* The invariant that carries all the others.
THEOREM InductiveInvariant == Spec => []IInv
  BY InitEstablishesIInv, NextKeepsIInv, PTL DEF Spec

\* Types; from kernel_accept to its release the server has a connection.
THEOREM TypeCorrect == Spec => []TypeOK
<1>1. IInv => TypeOK
  BY DEF IInv
<1>. QED
  BY <1>1, InductiveInvariant, PTL

\* kthread_stop in the exit functions (kernel-socket-server.c:105): the code
\* of a thread that runs is still loaded.
THEOREM NoThreadOutlivesItsModule == Spec => []CodeStays
<1>1. IInv => CodeStays
  BY DEF IInv
<1>. QED
  BY <1>1, InductiveInvariant, PTL

\* The server's thread returns with newsock and sock released, whichever of
\* its calls failed.
THEOREM EveryPathReleases == Spec => []ServerReleases
<1>1. IInv => ServerReleases
  BY DEF IInv
<1>. QED
  BY <1>1, InductiveInvariant, PTL

\* Server and client alternate: while the server is not being stopped, a
\* message and a reply are never under way together.
THEOREM MessagesAlternate == Spec => []TakeTurns
<1>1. IInv => TakeTurns
  BY DEF IInv
<1>. QED
  BY <1>1, InductiveInvariant, PTL

=============================================================================
