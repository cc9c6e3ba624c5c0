----------------------------- MODULE KernelSocket -----------------------------
(***************************************************************************)
(* kernel-socket-server.c and kernel-socket-client.c: two modules of the   *)
(* kernel.  Loading one starts its thread, unloading it stops the thread   *)
(* with kthread_stop, which waits for the thread to return.  The server    *)
(* accepts one connection in its life; every run of the client makes one,  *)
(* and the two take turns to send.                                         *)
(*                                                                         *)
(* Whatever makes, binds, connects or accepts a socket may fail at any     *)
(* time. A message is lost only if the other end is closed or the client's *)
(* kernel_sendmsg refuses it.                                              *)
(***************************************************************************)
EXTENDS Naturals, Sequences

CONSTANTS
  MaxLoads      \* bound: how often each module is loaded

ASSUME LoadsAssumption == MaxLoads \in Nat

Module == {"server", "client"}
Connection == 1..MaxLoads      \* the client's run that made it

VARIABLES
  module,       \* module[m]: "out", "in", "unloading", or "oops"
  loads,        \* loads[m]: how often m has been loaded
  thread,       \* thread[m]: the next step of its thread
  stop,         \* stop[m]: kthread_should_stop() of the thread
  sockets,      \* the sockets that have not been released
  listening,
  backlog,      \* the connections that wait for kernel_accept
  accepted,     \* the connection of newsock, 0 without one
  sends,        \* what send_msg holds uninitialized lets sendmsg succeed
  toServer,     \* toServer[n]: the server's receive queue is not empty
  toClient,     \* toClient[n]: that of the client
  closedBy      \* closedBy[m]: the connections m has closed

loadVars == <<module, loads, stop>>
netVars == <<listening, backlog, accepted, toServer, toClient, closedBy>>
socketVars == <<loadVars, thread, sockets, sends, netVars>>

-----------------------------------------------------------------------------

Init ==
  /\ module = [m \in Module |-> "out"]
  /\ loads = [m \in Module |-> 0]
  /\ thread = [m \in Module |-> "none"]
  /\ stop = [m \in Module |-> FALSE]
  /\ sockets = {}
  /\ listening = FALSE
  /\ backlog = <<>>
  /\ accepted = 0
  /\ sends = FALSE
  /\ toServer = [n \in Connection |-> FALSE]
  /\ toClient = [n \in Connection |-> FALSE]
  /\ closedBy = [m \in Module |-> {}]

Running(m) == thread[m] \notin {"none", "failed", "dead"}

Step(m, from, to) == thread[m] = from /\ thread' = [thread EXCEPT ![m] = to]

-----------------------------------------------------------------------------
(* Loading and unloading *)

\* kthread_run may fail; its result is not looked at.
Load(m) ==
  /\ module[m] = "out"
  /\ loads[m] < MaxLoads
  /\ module' = [module EXCEPT ![m] = "in"]
  /\ loads' = [loads EXCEPT ![m] = @ + 1]
  /\ stop' = [stop EXCEPT ![m] = FALSE]
  /\ \E first \in {"create", "failed"} : thread' = [thread EXCEPT ![m] = first]
  /\ sends' \in IF m = "client" THEN BOOLEAN ELSE {sends}
  /\ UNCHANGED <<sockets, netVars>>

\* Mutation: the module is unloaded without kthread_stop.
UnloadAtOnce(m) ==
  /\ module[m] = "in"
  /\ module' = [module EXCEPT ![m] = "out"]
  /\ UNCHANGED <<loads, thread, stop, sockets, sends, netVars>>

\* kthread_stop reads the task first.  That of a thread that has returned
\* may or may not be there still, and an ERR_PTR is no task.
Unload(m) ==
  /\ module[m] = "in"
  /\ module' \in {[module EXCEPT ![m] = outcome] : outcome \in
                    CASE thread[m] = "failed" -> {"oops"}
                      [] thread[m] = "dead" -> {"oops", "unloading"}
                      [] OTHER -> {"unloading"}}
  /\ stop' = [stop EXCEPT ![m] = TRUE]
  /\ UNCHANGED <<loads, thread, sockets, sends, netVars>>

\* kthread_stop returns when the thread has.
Unloaded(m) ==
  /\ module[m] = "unloading"
  /\ thread[m] = "dead"
  /\ module' = [module EXCEPT ![m] = "out"]
  /\ UNCHANGED <<loads, thread, stop, sockets, sends, netVars>>

\* sock_create_kern
Create(m) ==
  \/ /\ Step(m, "create", IF m = "server" THEN "listen" ELSE "connect")
     /\ sockets' = sockets \cup {m}
     /\ UNCHANGED <<loadVars, sends, netVars>>
  \/ /\ Step(m, "create", "dead")
     /\ UNCHANGED <<loadVars, sockets, sends, netVars>>

\* Mutation: while (1)
CheckNot(m) ==
  /\ Step(m, "check", IF m = "server" THEN "wait" ELSE "send")
  /\ UNCHANGED <<loadVars, sockets, sends, netVars>>

\* while (!kthread_should_stop())
Check(m) ==
  /\ Step(m, "check", IF stop[m] THEN "release"
                      ELSE IF m = "server" THEN "wait" ELSE "send")
  /\ UNCHANGED <<loadVars, sockets, sends, netVars>>

-----------------------------------------------------------------------------
(* The server's thread *)

\* kernel_bind, kernel_listen
Listen ==
  \/ /\ Step("server", "listen", "accept")
     /\ listening' = TRUE
     /\ UNCHANGED <<loadVars, sockets, sends, backlog, accepted, toServer, toClient,
                    closedBy>>
  \/ /\ Step("server", "listen", "release")
     /\ UNCHANGED <<loadVars, sockets, sends, netVars>>

\* Mutation: the result of kernel_accept is not looked at.
AcceptUnchecked ==
  /\ Step("server", "accept", "peername")
  /\ backlog # <<>>
  /\ UNCHANGED <<loadVars, sockets, sends, netVars>>

\* kernel_accept waits for a connection, or fails; kthread_stop does not end
\* the wait.
Accept ==
  \/ /\ Step("server", "accept", "peername")
     /\ backlog # <<>>
     /\ accepted' = Head(backlog)
     /\ backlog' = Tail(backlog)
     /\ sockets' = sockets \cup {"accepted"}
     /\ UNCHANGED <<loadVars, sends, listening, toServer, toClient, closedBy>>
  \/ /\ Step("server", "accept", "release")
     /\ UNCHANGED <<loadVars, sockets, sends, netVars>>

\* Mutation: goto release_sock.
PeernameOrLeak ==
  \/ /\ Step("server", "peername", "check")
     /\ UNCHANGED <<loadVars, sockets, sends, netVars>>
  \/ /\ Step("server", "peername", "dead")
     /\ sockets' = sockets \ {"server"}
     /\ UNCHANGED <<loadVars, sends, netVars>>

Peername ==
  /\ \/ Step("server", "peername", "check")
     \/ Step("server", "peername", "release")
  /\ UNCHANGED <<loadVars, sockets, sends, netVars>>

\* Mutation: the wait is only for the queue.
WaitForData ==
  /\ Step("server", "wait", "reply")
  /\ toServer[accepted]
  /\ toServer' = [toServer EXCEPT ![accepted] = FALSE]
  /\ UNCHANGED <<loadVars, sockets, sends, listening, backlog, accepted, toClient,
                 closedBy>>

\* wait_event_interruptible, and kernel_recvmsg, which empties the queue
Wait ==
  /\ Step("server", "wait", "reply")
  /\ toServer[accepted] \/ stop["server"]
  /\ toServer' = [toServer EXCEPT ![accepted] = FALSE]
  /\ UNCHANGED <<loadVars, sockets, sends, listening, backlog, accepted, toClient,
                 closedBy>>

\* The reply is sent whether or not there was a message.
Reply ==
  /\ Step("server", "reply", "check")
  /\ toClient' = [toClient EXCEPT ![accepted] = @ \/ accepted \notin closedBy["client"]]
  /\ UNCHANGED <<loadVars, sockets, sends, listening, backlog, accepted, toServer,
                 closedBy>>

InBacklog == {backlog[i] : i \in DOMAIN backlog}

\* release_newsock, release_sock.  Who waits for kernel_accept is closed too.
ServerRelease ==
  /\ Step("server", "release", "dead")
  /\ sockets' = sockets \ {"server", "accepted"}
  /\ listening' = FALSE
  /\ backlog' = <<>>
  /\ accepted' = 0
  /\ closedBy' = [closedBy EXCEPT !["server"] =
                    @ \cup InBacklog \cup ({accepted} \ {0})]
  /\ UNCHANGED <<loadVars, sends, toServer, toClient>>

-----------------------------------------------------------------------------
(* The client's thread *)

mine == loads["client"]

\* in4_pton refuses a malformed address: the thread returns as it is.
\* Otherwise kernel_connect, to a server that listens.
Connect ==
  \/ /\ Step("client", "connect", "check")
     /\ listening
     /\ backlog' = Append(backlog, mine)
     /\ UNCHANGED <<loadVars, sockets, sends, listening, accepted, toServer, toClient,
                    closedBy>>
  \/ /\ Step("client", "connect", "release")
     /\ UNCHANGED <<loadVars, sockets, sends, netVars>>
  \/ /\ Step("client", "connect", "dead")
     /\ UNCHANGED <<loadVars, sockets, sends, netVars>>

Send ==
  /\ Step("client", "send", "recv")
  /\ toServer' = [toServer EXCEPT ![mine] =
                    @ \/ (sends /\ mine \notin closedBy["server"])]
  /\ UNCHANGED <<loadVars, sockets, sends, listening, backlog, accepted, toClient,
                 closedBy>>

\* Mutation: MSG_DONTWAIT.
RecvDontWait ==
  /\ Step("client", "recv", "sleep")
  /\ toClient' = [toClient EXCEPT ![mine] = FALSE]
  /\ UNCHANGED <<loadVars, sockets, sends, listening, backlog, accepted, toServer,
                 closedBy>>

\* kernel_recvmsg waits for data or for the end of the connection; again
\* kthread_stop does not end the wait.
Recv ==
  /\ Step("client", "recv", "sleep")
  /\ toClient[mine] \/ mine \in closedBy["server"]
  /\ toClient' = [toClient EXCEPT ![mine] = FALSE]
  /\ UNCHANGED <<loadVars, sockets, sends, listening, backlog, accepted, toServer,
                 closedBy>>

\* msleep(2 * 1000)
Sleep ==
  /\ Step("client", "sleep", "check")
  /\ UNCHANGED <<loadVars, sockets, sends, netVars>>

\* The end of the connection is queued for the server, unless something
\* unread makes it a reset.
ClientRelease ==
  /\ Step("client", "release", "dead")
  /\ sockets' = sockets \ {"client"}
  /\ closedBy' = [closedBy EXCEPT !["client"] = @ \cup {mine}]
  /\ toServer' = [toServer EXCEPT ![mine] =
                    @ \/ (~toClient[mine] /\ (mine = accepted \/ mine \in InBacklog))]
  /\ toClient' = [toClient EXCEPT ![mine] = FALSE]
  /\ UNCHANGED <<loadVars, sends, listening, backlog, accepted>>

-----------------------------------------------------------------------------

ServerThread ==
  \/ Create("server") \/ Check("server")
  \/ Listen \/ Accept \/ Peername \/ Wait \/ Reply \/ ServerRelease

ClientThread ==
  \/ Create("client") \/ Check("client")
  \/ Connect \/ Send \/ Recv \/ Sleep \/ ClientRelease

Next ==
  \/ \E m \in Module : Load(m) \/ Unload(m) \/ Unloaded(m)
  \/ ServerThread
  \/ ClientThread

Spec == Init /\ [][Next]_socketVars

\* The server waits in kernel_accept: it may fail there, but nothing makes it.
WaitsToAccept == thread["server"] = "accept" /\ backlog = <<>>

\* The kernel schedules both threads, and whoever waits in kthread_stop.
Fairness ==
  /\ WF_socketVars(ServerThread /\ ~WaitsToAccept)
  /\ WF_socketVars(ClientThread)
  /\ \A m \in Module : WF_socketVars(Unloaded(m))

FairSpec == Spec /\ Fairness

-----------------------------------------------------------------------------
(* Properties *)

\* Types; the server has a connection from the time it has accepted one.
TypeOK ==
  /\ module \in [Module -> {"out", "in", "unloading", "oops"}]
  /\ loads \in [Module -> 0..MaxLoads]
  /\ thread \in [Module -> {"none", "failed", "dead", "create", "listen", "accept",
                            "peername", "check", "wait", "reply", "connect", "send",
                            "recv", "sleep", "release"}]
  /\ stop \in [Module -> BOOLEAN]
  /\ sockets \subseteq Module \cup {"accepted"}
  /\ listening \in BOOLEAN
  /\ backlog \in Seq(Connection)
  /\ accepted \in Connection \cup {0}
  /\ sends \in BOOLEAN
  /\ toServer \in [Connection -> BOOLEAN]
  /\ toClient \in [Connection -> BOOLEAN]
  /\ closedBy \in [Module -> SUBSET Connection]
  /\ thread["server"] \in {"peername", "check", "wait", "reply"} => accepted # 0

\* The comment at kernel-socket-server.c:105: without kthread_stop there is a
\* panic.  No thread runs in a module that is gone.
CodeStays == \A m \in Module : Running(m) => module[m] \in {"in", "unloading"}

\* A server thread that has returned has released both its sockets, on
\* every path (kernel-socket-server.c 19-93).
ServerReleases ==
  thread["server"] \in {"none", "failed", "dead"} =>
    sockets \cap {"server", "accepted"} = {}

\* Server and client take turns: a message and its reply are never under way
\* together, unless the server is stopped, which sends one reply more.
TakeTurns ==
  \A n \in Connection :
    n = accepted /\ n = mine /\ Running("client") /\ ~stop["server"] =>
      ~(toServer[n] /\ toClient[n])

\* A server with a connection can be unloaded.  (Without one it stays in
\* kernel_accept until a client connects.)
ServerUnloads ==
  (module["server"] = "unloading" /\ accepted # 0)
    ~> module["server"] # "unloading"

\* So can a client, unless the server has accepted another connection and
\* lets this one wait, or the client could not send its message.
ClientUnloads ==
  module["client"] = "unloading"
    ~> \/ module["client"] # "unloading"
       \/ thread["client"] = "recv" /\ (mine \in InBacklog \/ ~sends)

\* What src/course/kernel/process.md:273 quotes of kthread_stop: if the
\* thread may exit by itself, the caller makes sure that its task stays.
StopsLiveTask == \A m \in Module : thread[m] = "dead" => module[m] # "oops"

-----------------------------------------------------------------------------
(* Why the invariants hold: the inductive invariant                        *)

\* A thread that has not made its sockets yet has none; the client's thread
\* belongs to a load of its module.
ThreadsBegin ==
  /\ thread["server"] \in {"none", "failed", "dead", "create"} =>
       sockets \cap {"server", "accepted"} = {}
  /\ thread["server"] \in {"none", "failed", "dead", "create", "listen", "accept"} =>
       accepted = 0
  /\ Running("client") => mine # 0

\* The connections that no run of the client has made so far.
Unmade(n) ==
  \/ n > mine
  \/ n = mine /\ thread["client"] \in {"create", "connect"}

\* A connection is made once, is accepted once at most, and is not looked at
\* again after the server has closed it.
MadeOnce ==
  /\ \A n \in Connection : Unmade(n) =>
       /\ n \notin InBacklog /\ n # accepted /\ n \notin closedBy["server"]
       /\ ~toServer[n] /\ ~toClient[n]
  /\ \A i, j \in DOMAIN backlog : backlog[i] = backlog[j] => i = j
  /\ accepted \notin InBacklog
  /\ (InBacklog \cup {accepted}) \cap closedBy["server"] = {}

\* Only a client in kernel_recvmsg has something under way: its message, or
\* the reply, which may still be in the making.
OneUnderWay ==
  Running("client") =>
    /\ mine \in InBacklog =>
         ~toClient[mine] /\ (thread["client"] # "recv" => ~toServer[mine])
    /\ mine = accepted /\ ~stop["server"] =>
         /\ ~(toServer[mine] /\ toClient[mine])
         /\ thread["server"] = "reply" => ~toServer[mine] /\ ~toClient[mine]
         /\ thread["client"] # "recv" =>
              ~toServer[mine] /\ ~toClient[mine] /\ thread["server"] # "reply"

IInv ==
  /\ TypeOK /\ CodeStays /\ ServerReleases /\ TakeTurns
  /\ ThreadsBegin /\ MadeOnce /\ OneUnderWay
=============================================================================
