-------------------------- MODULE MptcpEcho_proofs --------------------------
(***************************************************************************)
(* Proofs about mptcp-server.c and mptcp-client.c, for any clients, any    *)
(* width of a char and any FD_SETSIZE that the clients fit into.  IInv of  *)
(* MptcpEcho is the inductive invariant.                                   *)
(***************************************************************************)
EXTENDS MptcpEcho, FiniteSetTheorems, SequenceTheorems, WellFoundedInduction, TLAPS

Char == 0..(Chars - 1)

(***************************************************************************)
(* Operators                                                               *)
(***************************************************************************)

LEMMA LeastElement ==
  ASSUME NEW S \in SUBSET Nat, S # {}
  PROVE  Min(S) \in S
<1>1. IsWellFoundedOn(OpToRel(<, Nat), Nat)
  BY ONLY NatLessThanWellFounded, Zenon
<1>2. PICK m \in S : \A n \in S : <<n, m>> \notin OpToRel(<, Nat)
  BY <1>1, WFMin
<1>3. \A n \in S : ~ (n < m)
  BY <1>2 DEF OpToRel
<1>4. \A n \in S : m <= n
  BY <1>3
<1>. QED
  BY <1>4 DEF Min

LEMMA FdType == ServerSock \in Fd /\ Fd \subseteq Nat /\ Fd \subseteq 0..FdSetSize
<1>1. Cardinality(Client) \in Nat /\ IsFiniteSet(Fd)
      /\ Cardinality(Fd) = IF ServerSock > FdSetSize - 1 THEN 0 ELSE FdSetSize - ServerSock
  BY EchoAssumption, FS_CardinalityType, FS_Interval DEF EchoAssumption, Fd, ServerSock
<1>2. ServerSock <= FdSetSize - 1
  BY <1>1, EchoAssumption DEF EchoAssumption, ServerSock
<1>. QED
  BY <1>2, EchoAssumption DEF EchoAssumption, Fd, ServerSock

LEMMA SuccessorType == \A b \in Char : Successor(b) \in Char
BY EchoAssumption DEF EchoAssumption, Successor, Char

LEMMA OneByte ==
  ASSUME NEW b \in Char
  PROVE  /\ <<b>> \in Seq(Char) /\ Append(<<>>, b) = <<b>>
         /\ Head(<<b>>) = b /\ Tail(<<b>>) = <<>> /\ <<b>> # <<>>
OBVIOUS

(* There is a descriptor left for the next client: the clients that have   *)
(* one are all different, and the one at the head of the backlog is none   *)
(* of them.                                                                *)
LEMMA FreeDescriptor ==
  ASSUME TypeOK, OnePlace, backlog # <<>>
  PROVE  Min(Fd \ Open) \in Fd \ Open
<1>. DEFINE next == Head(backlog)
            f == [g \in DOMAIN owner |-> owner[g]]
<1>1. next \in Client /\ next = backlog[1] /\ 1 \in DOMAIN backlog
  BY HeadTailProperties, LenProperties DEF TypeOK
<1>2. \A g \in DOMAIN owner : owner[g] # next
  BY <1>1 DEF OnePlace
<1>3. f \in Injection(DOMAIN owner, Client \ {next})
  BY <1>2 DEF TypeOK, OnePlace, Injection, IsInjective
<1>4. /\ IsFiniteSet(Client \ {next})
      /\ Cardinality(Client \ {next}) = Cardinality(Client) - 1
      /\ Cardinality(Client) \in Nat
  BY <1>1, EchoAssumption, FS_RemoveElement, FS_CardinalityType DEF EchoAssumption
<1>5. IsFiniteSet(DOMAIN owner) /\ Cardinality(DOMAIN owner) <= Cardinality(Client) - 1
  BY <1>3, <1>4, FS_Injection
<1>6. IsFiniteSet(Open) /\ Cardinality(Open) <= Cardinality(Client)
  <2>1. Cardinality(DOMAIN owner) \in Nat
    BY <1>5, FS_CardinalityType
  <2>2. Open = DOMAIN owner \cup {ServerSock}
    BY DEF Open
  <2>3. /\ IsFiniteSet(Open)
        /\ Cardinality(Open) = IF ServerSock \in DOMAIN owner
                                 THEN Cardinality(DOMAIN owner)
                                 ELSE Cardinality(DOMAIN owner) + 1
    BY <1>5, <2>2, FS_AddElement
  <2>. QED
    BY <1>4, <1>5, <2>1, <2>3
<1>7. Fd \ Open # {}
  <2>1. SUFFICES ASSUME Fd \subseteq Open PROVE FALSE
    OBVIOUS
  <2>2. Cardinality(Fd) <= Cardinality(Open) /\ IsFiniteSet(Fd)
    BY <1>6, <2>1, FS_Subset
  <2>. QED
    BY <1>6, <2>2, <1>4, FS_CardinalityType, EchoAssumption DEF EchoAssumption
<1>8. Fd \ Open \in SUBSET Nat
  BY FdType
<1>. QED
  BY <1>7, <1>8, LeastElement

(***************************************************************************)
(* The steps of the server                                                 *)
(***************************************************************************)

LEMMA InitEstablishesIInv == Init => IInv
<1>. SUFFICES ASSUME Init PROVE IInv
  OBVIOUS
<1>1. TypeOK
  BY EchoAssumption DEF Init, TypeOK, EchoAssumption
<1>. QED
  BY <1>1 DEF Init, IInv, NobodyDropped, OneInFlight, ServerUp, OnePlace,
     ScanIsCurrent, GoneLeavesOne, Open, Gone

LEMMA ListenKeepsIInv ==
  ASSUME IInv, Listen
  PROVE  IInv'
<1>. USE DEF IInv
<1>1. TypeOK'
  BY FdType, EchoAssumption DEF EchoAssumption, Listen, Goto, TypeOK, clientVars, networkVars
<1>2. NobodyDropped'
  BY DEF Listen, Goto, NobodyDropped, ScanIsCurrent, clientVars
<1>3. OneInFlight'
  BY DEF Listen, Goto, OneInFlight, TypeOK, serverVars, clientVars, networkVars
<1>4. ServerUp'
  BY DEF Listen, Goto, ServerUp, TypeOK, serverVars, clientVars, networkVars
<1>5. OnePlace'
  BY DEF Listen, Goto, OnePlace, TypeOK, serverVars, clientVars, networkVars
<1>6. ScanIsCurrent'
  BY DEF Listen, Goto, ScanIsCurrent, TypeOK, Open, Readable, Gone, serverVars, clientVars, networkVars
<1>7. GoneLeavesOne'
  BY DEF Listen, Goto, GoneLeavesOne, TypeOK, Gone, serverVars, clientVars, networkVars
<1>. QED
  BY <1>1, <1>2, <1>3, <1>4, <1>5, <1>6, <1>7

LEMMA SelectKeepsIInv ==
  ASSUME IInv, Select
  PROVE  IInv'
<1>. USE DEF IInv
<1>1. TypeOK'
  BY DEF Select, TypeOK, serverVars, clientVars, networkVars
<1>2. NobodyDropped'
  BY DEF Select, NobodyDropped, TypeOK, Waiting, Served, serverVars, clientVars, networkVars
<1>3. OneInFlight'
  BY DEF Select, OneInFlight, TypeOK, serverVars, clientVars, networkVars
<1>4. ServerUp'
  BY DEF Select, ServerUp, ScanIsCurrent
<1>5. OnePlace'
  BY DEF Select, OnePlace, TypeOK, serverVars, clientVars, networkVars
<1>6. ScanIsCurrent'
  BY DEF Select, ScanIsCurrent, TypeOK, Open, Readable, Gone, serverVars, clientVars, networkVars
<1>7. GoneLeavesOne'
  BY DEF Select, GoneLeavesOne, TypeOK, Gone, serverVars, clientVars, networkVars
<1>. QED
  BY <1>1, <1>2, <1>3, <1>4, <1>5, <1>6, <1>7

LEMMA ScanKeepsIInv ==
  ASSUME IInv, Scan
  PROVE  IInv'
<1>. USE DEF IInv
<1>1. /\ fd' = Min(testfds) /\ testfds' = testfds \ {fd'} /\ server = "scan"
      /\ server' = IF fd' = ServerSock THEN "accept" ELSE "ioctl"
      /\ UNCHANGED <<owner, readfds, data, clientVars, networkVars>>
  BY DEF Scan
<1>a. fd' \in testfds
  BY <1>1, FdType, LeastElement DEF Scan, TypeOK
<1>b. fd' \in Open /\ fd' \in 0..FdSetSize /\ Readable(fd')
  BY <1>a, FdType DEF ScanIsCurrent, TypeOK
<1>c. TypeOK'
  BY <1>1, <1>b DEF TypeOK, Open, clientVars, networkVars
<1>2. NobodyDropped'
  BY DEF Scan, NobodyDropped, TypeOK, Waiting, Served, serverVars, clientVars, networkVars
<1>3. OneInFlight'
  BY DEF Scan, OneInFlight, TypeOK, serverVars, clientVars, networkVars
<1>4. ServerUp'
  BY DEF Scan, ServerUp, TypeOK, serverVars, clientVars, networkVars
<1>5. OnePlace'
  BY DEF Scan, OnePlace, TypeOK, serverVars, clientVars, networkVars
<1>6. ScanIsCurrent'
  <2>1. readfds' = Open' /\ testfds' \subseteq Open'
    BY <1>1 DEF ScanIsCurrent, Open
  <2>2. \A f \in Open : Readable(f) => Readable(f)'
    BY <1>1 DEF Readable, Gone, clientVars, networkVars
  <2>3. (\A f \in testfds' : Readable(f)') /\ (server' = "ioctl" => Readable(fd)')
    <3>1. \A f \in testfds' : Readable(f)'
      BY <1>1, <2>2 DEF ScanIsCurrent
    <3>2. Readable(fd)' <=> IF fd' = ServerSock THEN backlog # <<>>
                            ELSE toServer[owner[fd']] # <<>> \/ Gone(owner[fd'])
      BY <1>1 DEF Readable, Gone, clientVars, networkVars
    <3>. QED
      BY <1>1, <1>b, <3>1, <3>2 DEF Readable
  <2>4. server' = "accept" => backlog' # <<>>
    BY <1>1, <1>b DEF Readable, networkVars
  <2>. QED
    BY <1>1, <2>1, <2>3, <2>4 DEF ScanIsCurrent
<1>7. GoneLeavesOne'
  BY DEF Scan, GoneLeavesOne, TypeOK, Gone, serverVars, clientVars, networkVars
<1>. QED
  BY <1>2, <1>3, <1>4, <1>5, <1>6, <1>7, <1>c

LEMMA ScanDoneKeepsIInv ==
  ASSUME IInv, ScanDone
  PROVE  IInv'
<1>. USE DEF IInv
<1>1. TypeOK'
  BY DEF ScanDone, Goto, TypeOK, serverVars, clientVars, networkVars
<1>2. NobodyDropped'
  BY DEF ScanDone, Goto, NobodyDropped, TypeOK, Waiting, Served, serverVars, clientVars, networkVars
<1>3. OneInFlight'
  BY DEF ScanDone, Goto, OneInFlight, TypeOK, serverVars, clientVars, networkVars
<1>4. ServerUp'
  BY DEF ScanDone, Goto, ServerUp, TypeOK, serverVars, clientVars, networkVars
<1>5. OnePlace'
  BY DEF ScanDone, Goto, OnePlace, TypeOK, serverVars, clientVars, networkVars
<1>6. ScanIsCurrent'
  BY DEF ScanDone, Goto, ScanIsCurrent, TypeOK, Open, Readable, Gone, serverVars, clientVars, networkVars
<1>7. GoneLeavesOne'
  BY DEF ScanDone, Goto, GoneLeavesOne, TypeOK, Gone, serverVars, clientVars, networkVars
<1>. QED
  BY <1>1, <1>2, <1>3, <1>4, <1>5, <1>6, <1>7

LEMMA IoctlKeepsIInv ==
  ASSUME IInv, Ioctl
  PROVE  IInv'
<1>. USE DEF IInv
<1>1. TypeOK'
  BY DEF Ioctl, TypeOK, serverVars, clientVars, networkVars
<1>2. NobodyDropped'
  BY DEF Ioctl, NobodyDropped, TypeOK, Waiting, Served, serverVars, clientVars, networkVars
<1>3. OneInFlight'
  BY DEF Ioctl, OneInFlight, TypeOK, serverVars, clientVars, networkVars
<1>4. ServerUp'
  BY DEF Ioctl, ServerUp, TypeOK, serverVars, clientVars, networkVars
<1>5. OnePlace'
  BY DEF Ioctl, OnePlace, TypeOK, serverVars, clientVars, networkVars
<1>6. ScanIsCurrent'
  BY DEF Ioctl, ScanIsCurrent, TypeOK, Open, Readable, Gone, serverVars, clientVars, networkVars
<1>7. GoneLeavesOne'
  BY DEF Ioctl, GoneLeavesOne, TypeOK, Gone, serverVars, clientVars, networkVars
<1>. QED
  BY <1>1, <1>2, <1>3, <1>4, <1>5, <1>6, <1>7

LEMMA CloseKeepsIInv ==
  ASSUME IInv, Close
  PROVE  IInv'
<1>. USE DEF IInv
<1>1. TypeOK'
  BY EchoAssumption DEF EchoAssumption, Close, Goto, Proceed, TypeOK, clientVars, networkVars
<1>2. NobodyDropped'
  <2>1. Gone(owner[fd])
    BY DEF Close, Goto, ScanIsCurrent
  <2>. QED
    BY <2>1 DEF Close, Goto, NobodyDropped, Waiting, Served, Gone, clientVars, networkVars
<1>3. OneInFlight'
  BY DEF Close, Goto, OneInFlight, TypeOK, serverVars, clientVars, networkVars
<1>4. ServerUp'
  BY DEF Close, Goto, ServerUp, TypeOK, serverVars, clientVars, networkVars
<1>5. OnePlace'
  BY DEF Close, Goto, OnePlace, TypeOK, serverVars, clientVars, networkVars
<1>6. ScanIsCurrent'
  <2>1. /\ owner' = [f \in DOMAIN owner \ {fd} |-> owner[f]]
        /\ readfds' = readfds \ {fd} /\ testfds' = testfds /\ server' = "scan"
        /\ fd \notin testfds /\ fd \in DOMAIN owner /\ readfds = Open
    BY DEF Close, Goto, Proceed, ScanIsCurrent, TypeOK
  <2>2. ServerSock \notin DOMAIN owner
    BY DEF TypeOK
  <2>3. readfds' = Open' /\ testfds' \subseteq Open'
    BY <2>1, <2>2 DEF ScanIsCurrent, Open
  <2>4. \A f \in testfds' : Readable(f)'
    BY <2>1, <2>3 DEF ScanIsCurrent, Close, Readable, Gone, Open, clientVars, networkVars
  <2>. QED
    BY <2>1, <2>3, <2>4 DEF ScanIsCurrent
<1>7. GoneLeavesOne'
  BY DEF Close, Goto, GoneLeavesOne, TypeOK, Gone, serverVars, clientVars, networkVars
<1>. QED
  BY <1>1, <1>2, <1>3, <1>4, <1>5, <1>6, <1>7

LEMMA ReadKeepsIInv ==
  ASSUME IInv, Read
  PROVE  IInv'
<1>. USE DEF IInv
<1>. DEFINE c == owner[fd]
            b == Head(toServer[c])
<1>1. /\ server = "read" /\ server' = "write" /\ data' = Successor(b)
      /\ toServer' = [toServer EXCEPT ![c] = Tail(@)]
      /\ UNCHANGED <<owner, readfds, testfds, fd, client, byte, backlog, toClient, reset>>
  BY DEF Read, Goto, clientVars
<1>2. /\ fd \in DOMAIN owner /\ c \in Client /\ toServer[c] \in Seq(Char) /\ toServer[c] # <<>>
      /\ toServer \in [Client -> Seq(Char)]
  BY <1>1 DEF TypeOK, ScanIsCurrent, Char
<1>3. b \in Char
  BY <1>2, HeadTailProperties
<1>4. /\ client[c] \in {"read", "gone"} /\ c \notin reset
      /\ toServer[c] = <<b>>
      /\ client[c] = "read" => b = byte[c] /\ toClient[c] = <<>>
  <2>1. client[c] \in {"connect", "refused", "write", "read", "gone"}
    BY <1>2 DEF TypeOK
  <2>2. client[c] \notin {"connect", "refused", "write"}
    BY <1>2 DEF OnePlace, OneInFlight
  <2>3. CASE client[c] = "read"
    <3>1. toServer[c] = <<byte[c]>> /\ toClient[c] = <<>>
      BY <1>1, <1>2, <2>3 DEF OneInFlight
    <3>. QED
      BY <1>2, <2>3, <3>1 DEF GoneLeavesOne, Gone
  <2>4. CASE client[c] = "gone"
    BY <1>2, <2>4 DEF GoneLeavesOne, Gone
  <2>. QED
    BY <2>1, <2>2, <2>3, <2>4
<1>5. toServer' = [toServer EXCEPT ![c] = <<>>]
  BY <1>1, <1>2, <1>3, <1>4, OneByte
<1>6. TypeOK'
  <2>1. Successor(b) \in Char
    BY <1>3, SuccessorType
  <2>2. toServer' \in [Client -> Seq(Char)]
    BY <1>2, <1>5
  <2>. QED
    BY <1>1, <1>2, <2>1, <2>2 DEF TypeOK, Char
<1>7. NobodyDropped'
  BY <1>1 DEF NobodyDropped, Waiting, Served
<1>8. OneInFlight'
  <2>. SUFFICES ASSUME NEW d \in Client PROVE OneInFlight!(d)'
    BY DEF OneInFlight
  <2>1. CASE d = c
    BY <1>1, <1>2, <1>4, <1>5, <2>1
  <2>2. CASE d # c
    BY <1>1, <1>2, <1>5, <2>2 DEF OneInFlight
  <2>. QED
    BY <2>1, <2>2
<1>9. ServerUp' /\ OnePlace'
  BY <1>1, <1>2, <1>5 DEF ServerUp, OnePlace
<1>10. ScanIsCurrent'
  <2>1. \A f \in testfds : Readable(f)'
    <3>. SUFFICES ASSUME NEW f \in testfds PROVE Readable(f)'
      OBVIOUS
    <3>1. Readable(f) /\ f # fd /\ f \in Open
      BY <1>1 DEF ScanIsCurrent
    <3>2. CASE f = ServerSock
      BY <1>1, <3>1, <3>2 DEF Readable
    <3>3. CASE f # ServerSock
      <4>1. f \in DOMAIN owner /\ owner[f] # c /\ owner[f] \in Client
        BY <1>2, <3>1, <3>3 DEF Open, OnePlace, TypeOK
      <4>. QED
        BY <1>1, <1>2, <1>5, <3>1, <3>3, <4>1 DEF Readable, Gone
    <3>. QED
      BY <3>2, <3>3
  <2>. QED
    BY <1>1, <2>1 DEF ScanIsCurrent, Open
<1>11. GoneLeavesOne'
  BY <1>1, <1>2, <1>4, <1>5 DEF GoneLeavesOne, Gone
<1>. QED
  BY <1>6, <1>7, <1>8, <1>9, <1>10, <1>11

LEMMA WriteKeepsIInv ==
  ASSUME IInv, Write
  PROVE  IInv'
<1>. USE DEF IInv
<1>. DEFINE c == owner[fd]
<1>1. /\ server = "write" /\ fd' = 0 /\ data' = 0
      /\ server' = IF c \in reset THEN "killed" ELSE "scan"
      /\ UNCHANGED <<owner, readfds, testfds, client, byte, backlog, toServer>>
  BY DEF Write, Proceed, clientVars
<1>2. /\ fd \in DOMAIN owner /\ c \in Client /\ data \in Char
      /\ toClient \in [Client -> Seq(Char)]
  BY <1>1 DEF TypeOK, Char
<1>3. client[c] \in {"read", "gone"} /\ c \notin reset
  <2>1. client[c] \in {"connect", "refused", "write", "read", "gone"}
    BY <1>2 DEF TypeOK
  <2>2. client[c] \notin {"connect", "refused", "write"}
    BY <1>1, <1>2 DEF OnePlace, OneInFlight
  <2>. QED
    BY <1>1, <1>2, <2>1, <2>2 DEF GoneLeavesOne, Gone
<1>4. server' = "scan"
  BY <1>1, <1>3
<1>5. toClient' = IF Gone(c) THEN toClient ELSE [toClient EXCEPT ![c] = <<data>>]
  <2>1. ~Gone(c) => toClient[c] = <<>>
    BY <1>1, <1>2, <1>3 DEF OneInFlight, Gone
  <2>. QED
    BY <1>2, <2>1, OneByte DEF Write
<1>6. TypeOK'
  <2>1. toClient' \in [Client -> Seq(Char)]
    BY <1>2, <1>5, OneByte
  <2>2. reset' \subseteq Client
    BY <1>2 DEF Write, TypeOK
  <2>. QED
    BY <1>1, <1>4, <2>1, <2>2, EchoAssumption DEF EchoAssumption, TypeOK, Char
<1>7. NobodyDropped'
  BY <1>1 DEF NobodyDropped, Waiting, Served
<1>8. OneInFlight'
  <2>. SUFFICES ASSUME NEW d \in Client PROVE OneInFlight!(d)'
    BY DEF OneInFlight
  <2>1. CASE d = c
    BY <1>1, <1>2, <1>3, <1>4, <1>5, <2>1 DEF OneInFlight, Gone
  <2>2. CASE d # c
    BY <1>1, <1>2, <1>4, <1>5, <2>2 DEF OneInFlight
  <2>. QED
    BY <2>1, <2>2
<1>9. ServerUp' /\ OnePlace'
  BY <1>1, <1>2, <1>3, <1>4, <1>5 DEF ServerUp, OnePlace
<1>10. ScanIsCurrent'
  BY <1>1, <1>4 DEF ScanIsCurrent, Open, Readable, Gone
<1>11. GoneLeavesOne'
  BY <1>1, <1>2, <1>3, <1>4 DEF Write, GoneLeavesOne, Gone
<1>. QED
  BY <1>6, <1>7, <1>8, <1>9, <1>10, <1>11

LEMMA AcceptKeepsIInv ==
  ASSUME IInv, Accept
  PROVE  IInv'
<1>. USE DEF IInv
<1>. DEFINE f == Min(Fd \ Open)
            h == Head(backlog)
<1>1. /\ server = "accept" /\ server' = "scan" /\ fd' = 0 /\ testfds' = testfds
      /\ backlog # <<>> /\ backlog' = Tail(backlog)
      /\ owner' = [g \in DOMAIN owner \cup {f} |-> IF g = f THEN h ELSE owner[g]]
      /\ readfds' = readfds \cup {f}
      /\ UNCHANGED <<data, client, byte, toServer, toClient, reset>>
  BY DEF Accept, Goto, Proceed, clientVars
<1>2. f \in Fd /\ f \notin Open /\ f # ServerSock
  BY <1>1, FreeDescriptor DEF Open
<1>. HIDE DEF f
<1>3. /\ h \in Client /\ h = backlog[1] /\ Tail(backlog) \in Seq(Client)
      /\ DOMAIN backlog = 1..Len(backlog) /\ Len(backlog) \in Nat \ {0}
      /\ DOMAIN Tail(backlog) = 1..(Len(backlog) - 1)
      /\ \A i \in 1..(Len(backlog) - 1) : Tail(backlog)[i] = backlog[i + 1]
  <2>. backlog \in Seq(Client) /\ backlog # <<>>
    BY <1>1 DEF TypeOK
  <2>. QED
    BY HeadTailProperties, LenProperties, EmptySeq
<1>4. TypeOK'
  BY <1>1, <1>2, <1>3, EchoAssumption DEF EchoAssumption, TypeOK
<1>5. NobodyDropped'
  <2>. SUFFICES ASSUME NEW c \in Client, client[c] \in {"write", "read"}
                PROVE  Waiting(c)' \/ Served(c)'
    BY <1>1 DEF NobodyDropped
  <2>1. CASE c = h
    BY <1>1, <2>1 DEF Served
  <2>2. CASE c # h /\ Waiting(c)
    <3>1. PICK i \in DOMAIN backlog : backlog[i] = c
      BY <2>2 DEF Waiting
    <3>2. i # 1 /\ i - 1 \in DOMAIN backlog' /\ backlog'[i - 1] = c
      BY <1>1, <1>3, <2>2, <3>1
    <3>. QED
      BY <3>2 DEF Waiting
  <2>3. CASE Served(c)
    BY <1>1, <1>2, <2>3 DEF Served, Open
  <2>. QED
    BY <2>1, <2>2, <2>3 DEF NobodyDropped
<1>6. OneInFlight' /\ ServerUp'
  BY <1>1 DEF OneInFlight, ServerUp
<1>7. OnePlace'
  <2>1. \A g \in DOMAIN owner : owner[g] # h
    BY <1>3 DEF OnePlace
  <2>2. \A i \in DOMAIN backlog' : i + 1 \in DOMAIN backlog /\ backlog'[i] = backlog[i + 1]
    BY <1>1, <1>3
  <2>3. \A i \in DOMAIN backlog' : backlog'[i] # h
    <3>1. \A i \in DOMAIN backlog' : i + 1 # 1 /\ 1 \in DOMAIN backlog
      BY <1>1, <1>3
    <3>. QED
      BY <1>3, <2>2, <3>1 DEF OnePlace
  <2>4. client[h] \notin {"connect", "refused"}
    BY <1>3 DEF OnePlace
  <2>5. \A g, k \in DOMAIN owner' : owner'[g] = owner'[k] => g = k
    BY <1>1, <2>1 DEF OnePlace
  <2>6. \A i, j \in DOMAIN backlog' : backlog'[i] = backlog'[j] => i = j
    <3>1. \A i, j \in DOMAIN backlog' : i + 1 = j + 1 => i = j
      BY <1>1, <1>3
    <3>. QED
      BY <2>2, <3>1 DEF OnePlace
  <2>7. \A g \in DOMAIN owner', i \in DOMAIN backlog' : owner'[g] # backlog'[i]
    BY <1>1, <2>2, <2>3 DEF OnePlace
  <2>8. \A c \in Client : client[c] \in {"connect", "refused"} =>
          /\ \A g \in DOMAIN owner' : owner'[g] # c
          /\ \A i \in DOMAIN backlog' : backlog'[i] # c
    BY <1>1, <2>2, <2>4 DEF OnePlace
  <2>. QED
    BY <1>1, <2>5, <2>6, <2>7, <2>8 DEF OnePlace
<1>8. ScanIsCurrent'
  <2>1. readfds' = Open' /\ testfds' \subseteq Open'
    BY <1>1 DEF ScanIsCurrent, Open
  <2>2. \A g \in testfds : Readable(g)'
    <3>. SUFFICES ASSUME NEW g \in testfds PROVE Readable(g)'
      OBVIOUS
    <3>1. Readable(g) /\ g # fd /\ g \in Open /\ g # f
      BY <1>1, <1>2 DEF ScanIsCurrent
    <3>2. fd = ServerSock
      BY <1>1 DEF ScanIsCurrent
    <3>. QED
      BY <1>1, <3>1, <3>2 DEF Readable, Gone, Open
  <2>. QED
    BY <1>1, <2>1, <2>2 DEF ScanIsCurrent
<1>9. GoneLeavesOne'
  BY <1>1 DEF GoneLeavesOne, Gone
<1>. QED
  BY <1>4, <1>5, <1>6, <1>7, <1>8, <1>9

(***************************************************************************)
(* The steps of a client                                                   *)
(***************************************************************************)

LEMMA ConnectKeepsIInv ==
  ASSUME IInv, NEW c \in Client, Connect(c)
  PROVE  IInv'
<1>. USE DEF IInv
<1>1. /\ client[c] = "connect" /\ server # "listen"
      /\ client' = [client EXCEPT ![c] = "write"]
      /\ backlog' = Append(backlog, c)
      /\ UNCHANGED <<server, owner, readfds, testfds, fd, data, byte, toServer, toClient,
                     reset>>
  BY DEF Connect, serverVars
<1>2. /\ backlog' \in Seq(Client) /\ backlog' # <<>>
      /\ DOMAIN backlog = 1..Len(backlog) /\ Len(backlog) \in Nat
      /\ DOMAIN backlog' = 1..(Len(backlog) + 1)
      /\ \A i \in DOMAIN backlog : backlog'[i] = backlog[i]
      /\ backlog'[Len(backlog) + 1] = c
  <2>. backlog \in Seq(Client)
    BY DEF TypeOK
  <2>. QED
    BY <1>1, AppendProperties, LenProperties
<1>3. /\ client \in [Client -> {"connect", "refused", "write", "read", "gone"}]
      /\ \A d \in Client : d # c => client'[d] = client[d]
      /\ client'[c] = "write"
  BY <1>1 DEF TypeOK
<1>4. TypeOK'
  BY <1>1, <1>2 DEF TypeOK
<1>5. NobodyDropped'
  <2>1. Waiting(c)'
    BY <1>2 DEF Waiting
  <2>2. \A d \in Client : Waiting(d) => Waiting(d)'
    BY <1>2 DEF Waiting
  <2>. QED
    BY <1>1, <1>3, <2>1, <2>2 DEF NobodyDropped, Served
<1>6. OneInFlight'
  <2>1. toServer[c] = <<>> /\ toClient[c] = <<>> /\ ~(server = "write" /\ owner[fd] = c)
    BY <1>1 DEF OnePlace, TypeOK
  <2>. QED
    BY <1>1, <1>3, <2>1 DEF OneInFlight
<1>7. OnePlace'
  <2>1. \A i \in DOMAIN backlog : backlog[i] # c
    BY <1>1 DEF OnePlace
  <2>2. \A i \in DOMAIN backlog' : \/ i \in DOMAIN backlog /\ backlog'[i] = backlog[i]
                                   \/ i = Len(backlog) + 1 /\ backlog'[i] = c
    BY <1>2
  <2>. QED
    BY <1>1, <1>3, <2>1, <2>2 DEF OnePlace
<1>8. ServerUp' /\ GoneLeavesOne'
  BY <1>1, <1>3 DEF ServerUp, GoneLeavesOne, Gone
<1>9. ScanIsCurrent'
  <2>1. \A f \in Open : Readable(f) => Readable(f)'
    BY <1>1, <1>2, <1>3 DEF Readable, Gone, Open, TypeOK
  <2>2. server = "ioctl" => Readable(fd)'
    BY <1>1, <1>2, <1>3 DEF ScanIsCurrent, TypeOK, Readable, Gone
  <2>3. server = "close" => Gone(owner[fd])'
    BY <1>1, <1>3 DEF ScanIsCurrent, Gone, TypeOK
  <2>. QED
    BY <1>1, <1>2, <2>1, <2>2, <2>3 DEF ScanIsCurrent, Open
<1>. QED
  BY <1>4, <1>5, <1>6, <1>7, <1>8, <1>9

LEMMA ConnectRefusedKeepsIInv ==
  ASSUME IInv, NEW c \in Client, ConnectRefused(c)
  PROVE  IInv'
<1>. USE DEF IInv
<1>1. TypeOK'
  BY DEF ConnectRefused, TypeOK, serverVars, clientVars, networkVars
<1>2. NobodyDropped'
  BY DEF ConnectRefused, NobodyDropped, TypeOK, Waiting, Served, serverVars, clientVars, networkVars
<1>3. OneInFlight'
  BY DEF ConnectRefused, OneInFlight, TypeOK, serverVars, clientVars, networkVars
<1>4. ServerUp'
  BY DEF ConnectRefused, ServerUp, TypeOK, serverVars, clientVars, networkVars
<1>5. OnePlace'
  BY DEF ConnectRefused, OnePlace, TypeOK, serverVars, clientVars, networkVars
<1>6. ScanIsCurrent'
  BY DEF ConnectRefused, ScanIsCurrent, TypeOK, Open, Readable, Gone, serverVars, clientVars, networkVars
<1>7. GoneLeavesOne'
  BY DEF ConnectRefused, GoneLeavesOne, TypeOK, Gone, serverVars, clientVars, networkVars
<1>. QED
  BY <1>1, <1>2, <1>3, <1>4, <1>5, <1>6, <1>7

LEMMA ClientWriteKeepsIInv ==
  ASSUME IInv, NEW c \in Client, ClientWrite(c)
  PROVE  IInv'
<1>. USE DEF IInv
<1>1. /\ client[c] = "write"
      /\ client' = [client EXCEPT ![c] = "read"]
      /\ toServer' = [toServer EXCEPT ![c] = Append(@, byte[c])]
      /\ UNCHANGED <<server, owner, readfds, testfds, fd, data, byte, backlog, toClient,
                     reset>>
  BY DEF ClientWrite, serverVars
<1>2. /\ client' \in [Client -> {"connect", "refused", "write", "read", "gone"}]
      /\ \A d \in Client : d # c => client'[d] = client[d]
      /\ client'[c] = "read" /\ byte[c] \in Char /\ toServer \in [Client -> Seq(Char)]
  BY <1>1 DEF TypeOK, Char
<1>3. toServer' = [toServer EXCEPT ![c] = <<byte[c]>>]
  BY <1>1, <1>2, OneByte DEF OneInFlight
<1>4. TypeOK' /\ ServerUp'
  BY <1>1, <1>2, <1>3, OneByte DEF TypeOK, ServerUp, Char
<1>5. NobodyDropped'
  BY <1>1, <1>2 DEF NobodyDropped, Waiting, Served
<1>6. OneInFlight'
  <2>. SUFFICES ASSUME NEW d \in Client PROVE OneInFlight!(d)'
    BY DEF OneInFlight
  <2>1. CASE d = c
    BY <1>1, <1>2, <1>3, <2>1 DEF OneInFlight
  <2>2. CASE d # c
    BY <1>1, <1>2, <1>3, <2>2 DEF OneInFlight
  <2>. QED
    BY <2>1, <2>2
<1>7. OnePlace' /\ GoneLeavesOne'
  BY <1>1, <1>2, <1>3 DEF OnePlace, GoneLeavesOne, Gone
<1>8. ScanIsCurrent'
  <2>1. \A d \in Client : toServer[d] # <<>> => toServer'[d] # <<>>
    BY <1>2, <1>3, OneByte
  <2>2. \A d \in Client : Gone(d) => Gone(d)'
    BY <1>1, <1>2 DEF Gone
  <2>3. \A f \in Open : Readable(f) => Readable(f)'
    BY <1>1, <2>1, <2>2 DEF Readable, Open, TypeOK
  <2>4. server = "ioctl" => Readable(fd)'
    BY <1>1, <2>1, <2>2 DEF ScanIsCurrent, TypeOK, Readable, Gone
  <2>5. /\ server = "close" => Gone(owner[fd])'
        /\ server = "read" => toServer'[owner[fd]] # <<>>
    BY <1>1, <2>1, <2>2 DEF ScanIsCurrent, TypeOK, Gone
  <2>6. server # "listen"
    BY <1>1 DEF ScanIsCurrent
  <2>. QED
    BY <1>1, <2>3, <2>4, <2>5, <2>6 DEF ScanIsCurrent, Open
<1>. QED
  BY <1>4, <1>5, <1>6, <1>7, <1>8

LEMMA ClientReadKeepsIInv ==
  ASSUME IInv, NEW c \in Client, ClientRead(c)
  PROVE  IInv'
<1>. USE DEF IInv
<1>. DEFINE answer == Successor(byte[c])
<1>1. /\ client[c] = "read" /\ toClient[c] # <<>>
      /\ client' = [client EXCEPT ![c] = "write"]
      /\ byte' = [byte EXCEPT ![c] = Head(toClient[c])]
      /\ toClient' = [toClient EXCEPT ![c] = Tail(@)]
      /\ UNCHANGED <<server, owner, readfds, testfds, fd, data, backlog, toServer, reset>>
  BY DEF ClientRead, serverVars
<1>2. /\ client' \in [Client -> {"connect", "refused", "write", "read", "gone"}]
      /\ \A d \in Client : d # c => client'[d] = client[d]
      /\ client'[c] = "write" /\ answer \in Char /\ byte \in [Client -> Char]
      /\ toClient \in [Client -> Seq(Char)]
  BY <1>1, SuccessorType DEF TypeOK, Char
<1>3. /\ toClient[c] = <<answer>> /\ toServer[c] = <<>>
      /\ ~(server = "write" /\ owner[fd] = c)
  BY <1>1 DEF OneInFlight
<1>4. /\ toClient' = [toClient EXCEPT ![c] = <<>>]
      /\ byte' = [byte EXCEPT ![c] = answer]
  BY <1>1, <1>2, <1>3, OneByte
<1>5. TypeOK' /\ ServerUp'
  BY <1>1, <1>2, <1>4 DEF TypeOK, ServerUp, Char
<1>6. NobodyDropped'
  BY <1>1, <1>2 DEF NobodyDropped, Waiting, Served
<1>7. OneInFlight'
  <2>. SUFFICES ASSUME NEW d \in Client PROVE OneInFlight!(d)'
    BY DEF OneInFlight
  <2>1. CASE d = c
    BY <1>1, <1>2, <1>3, <1>4, <2>1
  <2>2. CASE d # c
    BY <1>1, <1>2, <1>4, <2>2 DEF OneInFlight
  <2>. QED
    BY <2>1, <2>2
<1>8. OnePlace' /\ GoneLeavesOne'
  BY <1>1, <1>2, <1>4 DEF OnePlace, GoneLeavesOne, Gone
<1>9. ScanIsCurrent'
  BY <1>1, <1>2 DEF ScanIsCurrent, Readable, Open, Gone, TypeOK
<1>. QED
  BY <1>5, <1>6, <1>7, <1>8, <1>9

LEMMA KillKeepsIInv ==
  ASSUME IInv, NEW c \in Client, Kill(c)
  PROVE  IInv'
<1>. USE DEF IInv
<1>1. /\ client[c] \in {"write", "read"}
      /\ client' = [client EXCEPT ![c] = "gone"]
      /\ reset' = IF toClient[c] # <<>> THEN reset \cup {c} ELSE reset
      /\ toClient' = [toClient EXCEPT ![c] = <<>>]
      /\ byte' = [byte EXCEPT ![c] = 0]
      /\ UNCHANGED <<server, owner, readfds, testfds, fd, data, backlog, toServer>>
  BY DEF Kill, serverVars
<1>2. /\ client' \in [Client -> {"connect", "refused", "write", "read", "gone"}]
      /\ \A d \in Client : d # c => client'[d] = client[d]
      /\ client'[c] = "gone" /\ byte[c] \in Char /\ 0 \in Char
  BY <1>1, EchoAssumption DEF EchoAssumption, TypeOK, Char
<1>3. TypeOK' /\ ServerUp'
  BY <1>1, <1>2 DEF TypeOK, ServerUp, Char
<1>4. NobodyDropped'
  BY <1>1, <1>2 DEF NobodyDropped, Waiting, Served
<1>5. OneInFlight'
  BY <1>1, <1>2 DEF OneInFlight, TypeOK
<1>6. OnePlace'
  BY <1>1, <1>2 DEF OnePlace, TypeOK
<1>7. GoneLeavesOne'
  <2>. DEFINE held == server = "write" /\ owner[fd] = c
  <2>1. toServer[c] # <<>> => /\ toServer[c] = <<byte[c]>> /\ ~held
                              /\ toClient[c] = <<>>
    BY <1>1 DEF OneInFlight
  <2>2. held => toClient[c] = <<>>
    BY <1>1 DEF OneInFlight
  <2>3. toServer[c] # <<>> => toServer[c] = <<Head(toServer[c])>>
    BY <1>2, <2>1, OneByte
  <2>4. c \notin reset
    BY <1>1 DEF GoneLeavesOne, Gone
  <2>. QED
    BY <1>1, <1>2, <2>1, <2>2, <2>3, <2>4 DEF GoneLeavesOne, Gone
<1>8. ScanIsCurrent'
  <2>1. \A d \in Client : Gone(d) => Gone(d)'
    BY <1>1, <1>2 DEF Gone
  <2>2. \A f \in Open : Readable(f) => Readable(f)'
    BY <1>1, <2>1 DEF Readable, Open, TypeOK
  <2>3. server = "ioctl" => Readable(fd)'
    BY <1>1, <2>1 DEF ScanIsCurrent, TypeOK, Readable, Gone
  <2>4. server = "close" => Gone(owner[fd])'
    BY <1>1, <2>1 DEF ScanIsCurrent, TypeOK, Gone
  <2>5. server # "listen"
    BY <1>1 DEF ScanIsCurrent
  <2>. QED
    BY <1>1, <2>2, <2>3, <2>4, <2>5 DEF ScanIsCurrent, Open
<1>. QED
  BY <1>3, <1>4, <1>5, <1>6, <1>7, <1>8

(***************************************************************************)
(* The theorems                                                            *)
(***************************************************************************)

LEMMA NextKeepsIInv == IInv /\ [Next]_echoVars => IInv'
<1>. SUFFICES ASSUME IInv, [Next]_echoVars PROVE IInv'
  OBVIOUS
<1>1. CASE ServerStep
  BY <1>1, ListenKeepsIInv, SelectKeepsIInv, ScanKeepsIInv, ScanDoneKeepsIInv,
     AcceptKeepsIInv, IoctlKeepsIInv, CloseKeepsIInv, ReadKeepsIInv, WriteKeepsIInv
  DEF ServerStep
<1>2. CASE \E c \in Client :
             Connect(c) \/ ConnectRefused(c) \/ ClientWrite(c) \/ ClientRead(c) \/ Kill(c)
  BY <1>2, ConnectKeepsIInv, ConnectRefusedKeepsIInv, ClientWriteKeepsIInv,
     ClientReadKeepsIInv, KillKeepsIInv
<1>3. CASE UNCHANGED echoVars
  BY <1>3 DEF echoVars, serverVars, clientVars, networkVars, IInv, TypeOK, NobodyDropped,
     Waiting, Served, OneInFlight, ServerUp, OnePlace, ScanIsCurrent, Open, Readable, Gone,
     GoneLeavesOne
<1>. QED
  BY <1>1, <1>2, <1>3 DEF Next

THEOREM InductiveInvariant == Spec => []IInv
BY InitEstablishesIInv, NextKeepsIInv, PTL DEF Spec

(* The types: every byte under way is a char, and the server only works    *)
(* on descriptors that are open (mptcp-server.c 54-106).                   *)
THEOREM TypeCorrect == Spec => []TypeOK
<1>1. IInv => TypeOK
  BY DEF IInv
<1>. QED
  BY <1>1, InductiveInvariant, PTL

(* Whoever is connected is waiting for accept or watched by select,        *)
(* however descriptors are closed and given out again.                     *)
THEOREM EveryClientKept == Spec => []NobodyDropped
<1>1. IInv => NobodyDropped
  BY DEF IInv
<1>. QED
  BY <1>1, InductiveInvariant, PTL

(* The byte of each client, or its successor, is in exactly one place: the *)
(* clients never get each other's, although they share one data variable.  *)
THEOREM ByteInOnePlace == Spec => []OneInFlight
<1>1. IInv => OneInFlight
  BY DEF IInv
<1>. QED
  BY <1>1, InductiveInvariant, PTL

(* No number of clients that are killed, at whatever moment, takes the     *)
(* server down: it writes to none that is gone more than once, and select  *)
(* never sees a closed descriptor.                                         *)
THEOREM ServerStaysUp == Spec => []ServerUp
<1>1. IInv => ServerUp
  BY DEF IInv
<1>. QED
  BY <1>1, InductiveInvariant, PTL

=============================================================================
