------------------------------ MODULE MptcpEcho ------------------------------
(***************************************************************************)
(* mptcp-server.c and mptcp-client.c: one process serves every client from *)
(* a select loop, one byte at a time; a client sends a byte and waits for  *)
(* its successor.                                                          *)
(*                                                                         *)
(* A client is one run of the client program, and has one connection.      *)
(* What the client closes reaches the server behind what it has written.   *)
(* socket, bind and listen, whose results nobody looks at, succeed.        *)
(***************************************************************************)
EXTENDS Naturals, Sequences, FiniteSets, FiniteSetsExt

CONSTANTS
  Client,
  Chars,         \* how many values a char has; data++ wraps around
  FdSetSize      \* FD_SETSIZE

ServerSock == 3                    \* server_sockfd: the first free one
Fd == ServerSock..(FdSetSize - 1)

\* accept finds a free descriptor, and one that fits into an fd_set.
ASSUME EchoAssumption ==
  /\ IsFiniteSet(Client)
  /\ Chars \in Nat \ {0}
  /\ FdSetSize \in Nat
  /\ Cardinality(Client) < Cardinality(Fd)

VARIABLES
  \* the server
  server,        \* its next step
  owner,         \* owner[f]: the client that descriptor f is connected to
  readfds,
  testfds,       \* what the for loop over testfds has still to look at
  fd,            \* the descriptor it is looking at
  data,          \* the char that was read last
  \* a client
  client,        \* client[c]: its next step
  byte,          \* byte[c]: the last one it has received
  \* the network
  backlog,       \* the connections that wait for accept
  toServer,      \* toServer[c]: the bytes that the server has not read
  toClient,      \* toClient[c]: the bytes that c has not read
  reset          \* the connections on which a write would raise SIGPIPE

serverVars == <<owner, readfds, testfds, fd, data>>
clientVars == <<client, byte>>
networkVars == <<backlog, toServer, toClient, reset>>
echoVars == <<server, serverVars, clientVars, networkVars>>

-----------------------------------------------------------------------------

Init ==
  /\ server = "listen"
  /\ owner = [f \in {} |-> ServerSock]
  /\ readfds = {}
  /\ testfds = {}
  /\ fd = 0
  /\ data = 0
  /\ client = [c \in Client |-> "connect"]
  /\ byte = [c \in Client |-> 0]
  /\ backlog = <<>>
  /\ toServer = [c \in Client |-> <<>>]
  /\ toClient = [c \in Client |-> <<>>]
  /\ reset = {}

\* Mutation: an int in place of the char.
WiderSuccessor(char) == char + 1

\* data++
Successor(char) == (char + 1) % Chars

-----------------------------------------------------------------------------
(* The server *)

Goto(from, to) == server = from /\ server' = to

\* socket, bind, listen, FD_ZERO, FD_SET
Listen ==
  /\ Goto("listen", "select")
  /\ readfds' = {ServerSock}
  /\ UNCHANGED <<owner, testfds, fd, data, clientVars, networkVars>>

Open == {ServerSock} \cup DOMAIN owner

Gone(c) == client[c] = "gone"

Readable(f) ==
  IF f = ServerSock
    THEN backlog # <<>>
    ELSE toServer[owner[f]] # <<>> \/ Gone(owner[f])

\* Mutation: select has a timeout, and testfds is used as it went in.
SelectTimesOut ==
  LET bad == ~(readfds \subseteq Open) IN
  /\ server = "select"
  /\ server' = IF bad THEN "exited" ELSE "scan"
  /\ testfds' = readfds
  /\ UNCHANGED <<owner, readfds, fd, data, clientVars, networkVars>>

\* The server exits when select reports a descriptor that is closed.
Select ==
  LET bad == ~(readfds \subseteq Open)
      ready == {f \in readfds \cap Open : Readable(f)}
  IN
  /\ server = "select"
  /\ bad \/ ready # {}
  /\ server' = IF bad THEN "exited" ELSE "scan"
  /\ testfds' = ready
  /\ UNCHANGED <<owner, readfds, fd, data, clientVars, networkVars>>

\* Mutation: back to select after one descriptor.
ScanOne ==
  /\ server = "scan"
  /\ testfds # {}
  /\ fd' = Min(testfds)
  /\ testfds' = {}
  /\ server' = IF fd' = ServerSock THEN "accept" ELSE "ioctl"
  /\ UNCHANGED <<owner, readfds, data, clientVars, networkVars>>

\* for (fd = 0; fd < FD_SETSIZE; fd++) if (FD_ISSET(fd, &testfds))
Scan ==
  /\ server = "scan"
  /\ testfds # {}
  /\ fd' = Min(testfds)
  /\ testfds' = testfds \ {fd'}
  /\ server' = IF fd' = ServerSock THEN "accept" ELSE "ioctl"
  /\ UNCHANGED <<owner, readfds, data, clientVars, networkVars>>

ScanDone ==
  /\ Goto("scan", "select")
  /\ testfds = {}
  /\ UNCHANGED <<serverVars, clientVars, networkVars>>

\* The loop goes on; what fd and data were no longer matters.
Proceed == fd' = 0 /\ UNCHANGED testfds

\* The kernel gives out the lowest descriptor that is free.
Accept ==
  LET f == Min(Fd \ Open) IN
  /\ Goto("accept", "scan")
  /\ backlog # <<>>
  /\ backlog' = Tail(backlog)
  /\ owner' = [g \in DOMAIN owner \cup {f} |->
                 IF g = f THEN Head(backlog) ELSE owner[g]]
  /\ readfds' = readfds \cup {f}
  /\ Proceed
  /\ UNCHANGED <<data, clientVars, toServer, toClient, reset>>

\* Mutation: only a descriptor with data is looked at.
IoctlOfData ==
  /\ server = "ioctl"
  /\ server' = IF toServer[owner[fd]] = <<>> THEN "scan" ELSE "read"
  /\ UNCHANGED <<serverVars, clientVars, networkVars>>

\* ioctl(fd, FIONREAD, &nread)
Ioctl ==
  /\ server = "ioctl"
  /\ server' = IF toServer[owner[fd]] = <<>> THEN "close" ELSE "read"
  /\ UNCHANGED <<serverVars, clientVars, networkVars>>

\* Mutation: FD_CLR is missing.
CloseOnly ==
  /\ Goto("close", "scan")
  /\ owner' = [f \in DOMAIN owner \ {fd} |-> owner[f]]
  /\ Proceed
  /\ UNCHANGED <<readfds, data, clientVars, networkVars>>

Close ==
  /\ Goto("close", "scan")
  /\ owner' = [f \in DOMAIN owner \ {fd} |-> owner[f]]
  /\ readfds' = readfds \ {fd}
  /\ Proceed
  /\ UNCHANGED <<data, clientVars, networkVars>>

\* Mutation: the byte goes back as it came.
ReadOnly ==
  /\ Goto("read", "write")
  /\ data' = Head(toServer[owner[fd]])
  /\ toServer' = [toServer EXCEPT ![owner[fd]] = Tail(@)]
  /\ UNCHANGED <<owner, readfds, testfds, fd, clientVars, backlog, toClient, reset>>

\* read, data++; the server then sleeps for a second.
Read ==
  /\ Goto("read", "write")
  /\ data' = Successor(Head(toServer[owner[fd]]))
  /\ toServer' = [toServer EXCEPT ![owner[fd]] = Tail(@)]
  /\ UNCHANGED <<owner, readfds, testfds, fd, clientVars, backlog, toClient, reset>>

\* The kernel of a client that is gone answers with a reset; one more write
\* then kills the server.
Write ==
  LET c == owner[fd] IN
  /\ server = "write"
  /\ server' = IF c \in reset THEN "killed" ELSE "scan"
  /\ toClient' = IF Gone(c) THEN toClient
                 ELSE [toClient EXCEPT ![c] = Append(@, data)]
  /\ reset' = IF Gone(c) THEN reset \cup {c} ELSE reset
  /\ Proceed
  /\ data' = 0
  /\ UNCHANGED <<owner, readfds, clientVars, backlog, toServer>>

-----------------------------------------------------------------------------
(* A client.  What it does after the server has exited is left out: the    *)
(* server never exits, see ServerUp.                                       *)

Connect(c) ==
  /\ client[c] = "connect"
  /\ server # "listen"
  /\ client' = [client EXCEPT ![c] = "write"]
  /\ backlog' = Append(backlog, c)
  /\ UNCHANGED <<server, serverVars, byte, toServer, toClient, reset>>

\* Nobody listens yet: the client reports it and exits.
ConnectRefused(c) ==
  /\ client[c] = "connect"
  /\ server = "listen"
  /\ client' = [client EXCEPT ![c] = "refused"]
  /\ UNCHANGED <<server, serverVars, byte, networkVars>>

ClientWrite(c) ==
  /\ client[c] = "write"
  /\ client' = [client EXCEPT ![c] = "read"]
  /\ toServer' = [toServer EXCEPT ![c] = Append(@, byte[c])]
  /\ UNCHANGED <<server, serverVars, byte, backlog, toClient, reset>>

ClientRead(c) ==
  /\ client[c] = "read"
  /\ toClient[c] # <<>>
  /\ client' = [client EXCEPT ![c] = "write"]
  /\ byte' = [byte EXCEPT ![c] = Head(toClient[c])]
  /\ toClient' = [toClient EXCEPT ![c] = Tail(@)]
  /\ UNCHANGED <<server, serverVars, backlog, toServer, reset>>

\* A client is killed.  With an answer unread its kernel resets at once.
Kill(c) ==
  /\ client[c] \in {"write", "read"}
  /\ client' = [client EXCEPT ![c] = "gone"]
  /\ reset' = IF toClient[c] # <<>> THEN reset \cup {c} ELSE reset
  /\ toClient' = [toClient EXCEPT ![c] = <<>>]
  /\ byte' = [byte EXCEPT ![c] = 0]
  /\ UNCHANGED <<server, serverVars, backlog, toServer>>

ServerStep ==
  \/ Listen \/ Select \/ Scan \/ ScanDone \/ Accept \/ Ioctl
  \/ Close \/ Read \/ Write

Next ==
  \/ ServerStep
  \/ \E c \in Client :
       Connect(c) \/ ConnectRefused(c) \/ ClientWrite(c) \/ ClientRead(c) \/ Kill(c)

Spec == Init /\ [][Next]_echoVars

\* The server and a client that has something to read go on; a client may
\* take its time to write, and need not connect.
Fairness ==
  /\ WF_echoVars(ServerStep)
  /\ \A c \in Client : WF_echoVars(ClientRead(c))

FairSpec == Spec /\ Fairness

-----------------------------------------------------------------------------
(* Properties *)

\* Types; the server works on descriptors that are open.
TypeOK ==
  /\ server \in {"listen", "select", "scan", "accept", "ioctl", "close", "read",
                 "write", "exited", "killed"}
  /\ DOMAIN owner \subseteq Fd \ {ServerSock}
  /\ \A f \in DOMAIN owner : owner[f] \in Client
  /\ readfds \subseteq Fd
  /\ testfds \subseteq Fd
  /\ fd \in 0..FdSetSize
  /\ data \in 0..(Chars - 1)
  /\ client \in [Client -> {"connect", "refused", "write", "read", "gone"}]
  /\ byte \in [Client -> 0..(Chars - 1)]
  /\ backlog \in Seq(Client)
  /\ toServer \in [Client -> Seq(0..(Chars - 1))]
  /\ toClient \in [Client -> Seq(0..(Chars - 1))]
  /\ reset \subseteq Client
  /\ server \in {"ioctl", "close", "read", "write"} => fd \in DOMAIN owner

Waiting(c) == \E i \in DOMAIN backlog : backlog[i] = c
Served(c) == \E f \in DOMAIN owner : owner[f] = c /\ f \in readfds

\* A client that is connected is waiting for accept or watched by select:
\* although close frees descriptors for accept, the server never closes a
\* client that is not gone, nor forgets one (mptcp-server.c 54-106).
NobodyDropped ==
  \A c \in Client : client[c] \in {"write", "read"} => Waiting(c) \/ Served(c)

\* While a client waits, its byte is on the way to the server, or its
\* successor is: in data, which all clients share, or on the way back.
\* While it does not wait, there is nothing on the way (mptcp-server.c
\* 89-103, mptcp-client.c 40-46).
OneInFlight ==
  \A c \in Client :
    LET held == server = "write" /\ owner[fd] = c
        answer == Successor(byte[c])
    IN
    /\ client[c] = "write" => toServer[c] = <<>> /\ toClient[c] = <<>> /\ ~held
    /\ client[c] = "read" =>
         \/ toServer[c] = <<byte[c]>> /\ toClient[c] = <<>> /\ ~held
         \/ toServer[c] = <<>> /\ toClient[c] = <<>> /\ held /\ data = answer
         \/ toServer[c] = <<>> /\ toClient[c] = <<answer>> /\ ~held

\* Clients that come and go do not take the server down: select is not asked
\* about a closed descriptor, and no client that is gone is written to twice
\* (mptcp-server.c 57-63, 89-103).
ServerUp == server \notin {"exited", "killed"}

\* A client that waits for an answer gets it, whatever the others do.
Answered ==
  \A c \in Client : client[c] = "read" ~> client[c] # "read"

\* The descriptor of a client that is gone is freed.
Reaped ==
  \A c \in Client : Gone(c) ~> \A f \in DOMAIN owner : owner[f] # c

-----------------------------------------------------------------------------
(* Why the invariants hold: the inductive invariant                        *)

\* A client has at most one connection: waiting for accept or with one
\* descriptor, and none before it connects.
OnePlace ==
  /\ \A f, g \in DOMAIN owner : owner[f] = owner[g] => f = g
  /\ \A i, j \in DOMAIN backlog : backlog[i] = backlog[j] => i = j
  /\ \A f \in DOMAIN owner, i \in DOMAIN backlog : owner[f] # backlog[i]
  /\ \A c \in Client : client[c] \in {"connect", "refused"} =>
       /\ \A f \in DOMAIN owner : owner[f] # c
       /\ \A i \in DOMAIN backlog : backlog[i] # c
       /\ toServer[c] = <<>> /\ toClient[c] = <<>>

\* select watches what is open; what it has found stays ready until the scan
\* comes to it, because only the server reads, accepts and closes.
ScanIsCurrent ==
  /\ server = "listen" =>
       /\ DOMAIN owner = {} /\ readfds = {} /\ backlog = <<>>
       /\ \A c \in Client : client[c] \in {"connect", "refused"}
  /\ server # "listen" => readfds = Open
  /\ server \in {"listen", "select"} => testfds = {}
  /\ testfds \subseteq Open
  /\ \A f \in testfds : Readable(f)
  /\ server \in {"accept", "ioctl", "close", "read", "write"} => fd \notin testfds
  /\ server = "accept" => fd = ServerSock /\ backlog # <<>>
  /\ server = "ioctl" => Readable(fd)
  /\ server = "close" => Gone(owner[fd])
  /\ server = "read" => toServer[owner[fd]] # <<>>

\* A client that is gone has left at most one byte, and after the write that
\* makes its kernel answer with a reset it has left none.
GoneLeavesOne ==
  /\ \A c \in reset : Gone(c)
  /\ \A c \in Client : Gone(c) =>
       LET held == server = "write" /\ owner[fd] = c IN
       /\ toServer[c] # <<>> => toServer[c] = <<Head(toServer[c])>>
       /\ held \/ c \in reset => toServer[c] = <<>>
       /\ ~(held /\ c \in reset)

IInv ==
  /\ TypeOK /\ NobodyDropped /\ OneInFlight /\ ServerUp
  /\ OnePlace /\ ScanIsCurrent /\ GoneLeavesOne
=============================================================================
