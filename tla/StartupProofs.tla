---------------------------- MODULE StartupProofs ----------------------------
(***************************************************************************)
(* Startup for every set of hosts, servers, clients and command lines:     *)
(* what StartServer keeps in its globals, and which server a client        *)
(* reaches with the address and the port that a server shows.              *)
(***************************************************************************)
EXTENDS Startup, SequenceTheorems, WellFoundedInduction, TLAPS

(***************************************************************************)
(* The inductive invariant.                                                *)
(***************************************************************************)
\* The receive thread runs in the main loop, and has counted its client in.
CountInv ==
  /\ \A p \in receiving : pc[p] = "loop"
  /\ \A s \in Servers :
       /\ pc[s] \in {"main", "bind", "listen", "accept"}
            => ClientCount[s] = 0 /\ fd[s] = Stdin
       /\ (pc[s] = "spawn" \/ s \in receiving) /\ fd[s] # Stdin
            => ClientCount[s] = 1

\* A server that listens has a port that ParsePort took, to itself; a
\* connected client has reached a server that listens or did.
PortInv ==
  /\ \A s \in Servers : pc[s] \notin {"main", "ended"} => ParsePort(args[s].port)
  /\ \A s \in listening : pc[s] \in {"accept", "spawn", "loop"}
  /\ \A s \in listening : SamePort(s) \cap listening = {}
  /\ \A c \in Clients : peer[c] # "none" =>
       /\ peer[c] \in listening \/ pc[peer[c]] = "ended"
       /\ Host[peer[c]] \in Reached(c) /\ Port(peer[c]) = Port(c)

Inv == TypeOK /\ CountInv /\ PortInv

-----------------------------------------------------------------------------
(***************************************************************************)
(* Addresses and queues.                                                   *)
(***************************************************************************)
LEMMA Least ==
  ASSUME NEW S, S \subseteq Nat, S # {}
  PROVE  Min(S) \in S
<1>1. PICK m \in S : \A k \in S : <<k, m>> \notin OpToRel(<, Nat)
  BY WFMin, NatLessThanWellFounded, Zenon
<1>2. \A k \in S : m <= k
  <2>. TAKE k \in S
  <2>1. ~(k < m)
    BY <1>1 DEF OpToRel
  <2>. QED  BY <2>1
<1>. QED  BY <1>2 DEF Min

\* What a server shows is no address, or one of its host that only it has.
LEMMA ShownAddress ==
  ASSUME NEW h \in DOMAIN Interfaces
  PROVE  \/ GetLANIPAddr(h) = NoAddress
         \/ GetLANIPAddr(h) \in ToSet(Interfaces[h]) \ Loopback
<1>. DEFINE lan == {i \in DOMAIN Interfaces[h] : Interfaces[h][i] \notin Loopback}
<1>1. Interfaces[h] \in Seq(ToSet(Interfaces[h]))
  BY AddressAssumption
<1>2. lan \subseteq Nat /\ lan \subseteq DOMAIN Interfaces[h]
  BY <1>1
<1>3. CASE lan = {}
  BY <1>3 DEF GetLANIPAddr
<1>4. CASE lan # {}
  <2>1. Min(lan) \in lan
    BY <1>2, <1>4, Least
  <2>2. GetLANIPAddr(h) = Interfaces[h][Min(lan)]
    BY <1>4 DEF GetLANIPAddr
  <2>. QED  BY <2>1, <2>2 DEF ToSet
<1>. QED  BY <1>3, <1>4

\* A client given that address reaches that host and no other one.
LEMMA ShownHost ==
  ASSUME NEW c \in Clients, NEW h \in DOMAIN Interfaces,
         args[c].address = GetLANIPAddr(h), args[c].address # NoAddress
  PROVE  Reached(c) \subseteq {h}
<1>. DEFINE a == GetLANIPAddr(h)
<1>1. Host[c] \in DOMAIN Interfaces
  BY AddressAssumption DEF Process
<1>2. a \notin Loopback \cup {Invalid, NoAddress}
  BY ShownAddress, AddressAssumption DEF Invalid
<1>3. ASSUME NEW k \in DOMAIN Interfaces, a \in ToSet(Interfaces[k])
      PROVE  k = h
  <2>1. a \in ToSet(Interfaces[h]) /\ a \notin Loopback
    BY <1>2, ShownAddress
  <2>. QED  BY <1>3, <2>1, AddressAssumption
<1>. HIDE DEF a
<1>4. CASE a \in ToSet(Interfaces[Host[c]])
  BY <1>1, <1>2, <1>3, <1>4 DEF Reached, a
<1>5. CASE a \notin ToSet(Interfaces[Host[c]])
  BY <1>2, <1>3, <1>5 DEF Reached, a
<1>. QED  BY <1>4, <1>5

LEMMA WithoutType ==
  ASSUME NEW S, NEW q \in Seq(S), NEW c
  PROVE  Without(q, c) \in Seq(S)
<1>. DEFINE i == CHOOSE i \in DOMAIN q : q[i] = c
<1>1. CASE c \notin ToSet(q)
  BY <1>1 DEF Without
<1>2. CASE c \in ToSet(q)
  <2>1. i \in 1 .. Len(q)
    BY <1>2 DEF ToSet
  <2>. HIDE DEF i
  <2>2. SubSeq(q, 1, i - 1) \in Seq(S) /\ SubSeq(q, i + 1, Len(q)) \in Seq(S)
    BY <2>1
  <2>3. Without(q, c) = SubSeq(q, 1, i - 1) \o SubSeq(q, i + 1, Len(q))
    BY <1>2 DEF Without, RemoveAt, i
  <2>. QED  BY <2>2, <2>3, ConcatProperties
<1>. QED  BY <1>1, <1>2

-----------------------------------------------------------------------------
LEMMA InitInv == Init => Inv
<1>. SUFFICES ASSUME Init PROVE Inv
  OBVIOUS
<1>1. TypeOK
  <2>1. queue \in [Servers -> Seq(Clients)]
    BY DEF Init
  <2>. QED  BY <2>1 DEF Init, TypeOK, Pc
<1>2. CountInv
  BY DEF Init, CountInv, Process
<1>3. PortInv
  BY DEF Init, PortInv, Process
<1>. QED  BY <1>1, <1>2, <1>3 DEF Inv

LEMMA ReleaseType ==
  ASSUME TypeOK, NEW p \in Process, Release(p)
  PROVE  /\ queue' \in [Servers -> Seq(Clients)]
         /\ listening' \subseteq bound' /\ bound' \subseteq Servers
<1>1. \A s \in Servers : Without(queue[s], p) \in Seq(Clients)
  BY WithoutType DEF TypeOK
<1>2. <<>> \in Seq(Clients)
  OBVIOUS
<1>3. queue' = [s \in Servers |->
                  IF s = p THEN <<>> ELSE Without(queue[s], p)]
  BY DEF Release
<1>4. queue' \in [Servers -> Seq(Clients)]
  BY <1>1, <1>2, <1>3
<1>. QED  BY <1>4 DEF Release, TypeOK

\* The ranges of the variables; ClientCount is 0 or 1.
LEMMA TypeKeeps ==
  ASSUME Inv, [Next]_vars
  PROVE  TypeOK'
<1>1. TypeOK /\ CountInv
  BY DEF Inv
<1>2. ASSUME NEW p \in Process, Usage(p) PROVE TypeOK'
  BY <1>1, <1>2 DEF Usage, TypeOK, Goto, Pc, kernelVars, Process
<1>3. ASSUME NEW p \in Process, Start(p) PROVE TypeOK'
  BY <1>1, <1>3 DEF Start, TypeOK, Goto, Pc, kernelVars, Process
<1>4. ASSUME NEW s \in Servers, Bind(s) PROVE TypeOK'
  BY <1>1, <1>4 DEF Bind, TypeOK, Goto, Pc, kernelVars, Process
<1>5. ASSUME NEW s \in Servers, BindFails(s) PROVE TypeOK'
  BY <1>1, <1>5 DEF BindFails, TypeOK, Goto, Pc, kernelVars, Process
<1>6. ASSUME NEW s \in Servers, Listen(s) PROVE TypeOK'
  BY <1>1, <1>6 DEF Listen, TypeOK, Goto, Pc, kernelVars, Process
<1>7. ASSUME NEW s \in Servers, AcceptClient(s) PROVE TypeOK'
  BY <1>1, <1>7
     DEF AcceptClient, TypeOK, Goto, Pc, kernelVars, Process, CountInv
<1>8. ASSUME NEW s \in Servers, AcceptFails(s) PROVE TypeOK'
  BY <1>1, <1>8 DEF AcceptFails, TypeOK, Goto, Pc, kernelVars, Process
<1>9. ASSUME NEW p \in Process, Spawn(p) PROVE TypeOK'
  BY <1>1, <1>9 DEF Spawn, TypeOK, Goto, Pc, kernelVars, Process
<1>10. ASSUME NEW c \in Clients, Connect(c) PROVE TypeOK'
  <2>1. queue' \in [Servers -> Seq(Clients)]
    <3>1. PICK s \in Answering(c) : queue' = [queue EXCEPT ![s] = Append(@, c)]
      BY <1>10 DEF Connect
    <3>2. s \in Servers /\ queue[s] \in Seq(Clients)
      BY <1>1 DEF Answering, TypeOK
    <3>3. Append(queue[s], c) \in Seq(Clients)
      BY <3>2
    <3>. QED  BY <1>1, <3>1, <3>3 DEF TypeOK
  <2>2. peer' \in [Clients -> Servers \cup {"none"}]
    BY <1>1, <1>10 DEF Connect, Answering, TypeOK
  <2>. QED  BY <1>1, <1>10, <2>1, <2>2 DEF Connect, TypeOK, Goto, Pc, Process
<1>11. ASSUME NEW c \in Clients, ConnectFails(c) PROVE TypeOK'
  BY <1>1, <1>11 DEF ConnectFails, TypeOK, Goto, Pc, kernelVars, Process
<1>12. ASSUME NEW s \in Servers, LeaveServer(s) PROVE TypeOK'
  <2>1. /\ queue' \in [Servers -> Seq(Clients)]
        /\ listening' \subseteq bound' /\ bound' \subseteq Servers
    BY <1>1, <1>12, ReleaseType DEF LeaveServer, Process
  <2>. QED  BY <1>1, <1>12, <2>1 DEF LeaveServer, TypeOK, Goto, Pc, Process
<1>13. ASSUME NEW c \in Clients, LeaveClient(c) PROVE TypeOK'
  <2>1. /\ queue' \in [Servers -> Seq(Clients)]
        /\ listening' \subseteq bound' /\ bound' \subseteq Servers
    BY <1>1, <1>13, ReleaseType DEF LeaveClient, Process
  <2>. QED  BY <1>1, <1>13, <2>1 DEF LeaveClient, TypeOK, Goto, Pc, Process
<1>14. ASSUME NEW s \in Servers, ServerSeesEnd(s) PROVE TypeOK'
  BY <1>1, <1>14
     DEF ServerSeesEnd, TypeOK, Goto, Pc, kernelVars, Process, CountInv
<1>15. ASSUME NEW s \in Servers, RecvFails(s) PROVE TypeOK'
  BY <1>1, <1>15 DEF RecvFails, TypeOK, Goto, Pc, kernelVars, Process
<1>16. ASSUME NEW c \in Clients, ClientSeesEnd(c) PROVE TypeOK'
  BY <1>1, <1>16 DEF ClientSeesEnd, TypeOK, Goto, Pc, kernelVars, Process
<1>17. CASE UNCHANGED vars
  BY <1>1, <1>17 DEF vars, kernelVars, TypeOK, Pc, Process
<1>. QED
  BY <1>2, <1>3, <1>4, <1>5, <1>6, <1>7, <1>8, <1>9, <1>10, <1>11, <1>12,
     <1>13, <1>14, <1>15, <1>16, <1>17
     DEF Next, Step, ServerStep, ClientStep

\* AcceptClient counts the client in, the end of its stream counts it out.
LEMMA CountKeeps ==
  ASSUME Inv, [Next]_vars
  PROVE  CountInv'
<1>1. TypeOK /\ CountInv /\ Servers \cap Clients = {}
  BY StartupAssumption DEF Inv
<1>2. ASSUME NEW p \in Process, Usage(p) PROVE CountInv'
  BY <1>1, <1>2 DEF Usage, CountInv, TypeOK, Goto, kernelVars, Process
<1>3. ASSUME NEW p \in Process, Start(p) PROVE CountInv'
  BY <1>1, <1>3 DEF Start, CountInv, TypeOK, Goto, kernelVars, Process
<1>4. ASSUME NEW s \in Servers, Bind(s) PROVE CountInv'
  BY <1>1, <1>4 DEF Bind, CountInv, TypeOK, Goto, kernelVars, Process
<1>5. ASSUME NEW s \in Servers, BindFails(s) PROVE CountInv'
  BY <1>1, <1>5 DEF BindFails, CountInv, TypeOK, Goto, kernelVars, Process
<1>6. ASSUME NEW s \in Servers, Listen(s) PROVE CountInv'
  BY <1>1, <1>6 DEF Listen, CountInv, TypeOK, Goto, kernelVars, Process
<1>7. ASSUME NEW s \in Servers, AcceptClient(s) PROVE CountInv'
  BY <1>1, <1>7 DEF AcceptClient, CountInv, TypeOK, Goto, kernelVars, Process
<1>8. ASSUME NEW s \in Servers, AcceptFails(s) PROVE CountInv'
  BY <1>1, <1>8 DEF AcceptFails, CountInv, TypeOK, Goto, kernelVars, Process
<1>9. ASSUME NEW p \in Process, Spawn(p) PROVE CountInv'
  BY <1>1, <1>9 DEF Spawn, CountInv, TypeOK, Goto, kernelVars, Process
<1>10. ASSUME NEW c \in Clients, Connect(c) PROVE CountInv'
  BY <1>1, <1>10 DEF Connect, CountInv, TypeOK, Goto, kernelVars, Process
<1>11. ASSUME NEW c \in Clients, ConnectFails(c) PROVE CountInv'
  BY <1>1, <1>11 DEF ConnectFails, CountInv, TypeOK, Goto, kernelVars, Process
<1>12. ASSUME NEW s \in Servers, LeaveServer(s) PROVE CountInv'
  BY <1>1, <1>12 DEF LeaveServer, CountInv, TypeOK, Goto, kernelVars, Process
<1>13. ASSUME NEW c \in Clients, LeaveClient(c) PROVE CountInv'
  BY <1>1, <1>13 DEF LeaveClient, CountInv, TypeOK, Goto, kernelVars, Process
<1>14. ASSUME NEW s \in Servers, ServerSeesEnd(s) PROVE CountInv'
  BY <1>1, <1>14 DEF ServerSeesEnd, CountInv, TypeOK, Goto, kernelVars, Process
<1>15. ASSUME NEW s \in Servers, RecvFails(s) PROVE CountInv'
  BY <1>1, <1>15 DEF RecvFails, CountInv, TypeOK, Goto, kernelVars, Process
<1>16. ASSUME NEW c \in Clients, ClientSeesEnd(c) PROVE CountInv'
  BY <1>1, <1>16 DEF ClientSeesEnd, CountInv, TypeOK, Goto, kernelVars, Process
<1>17. CASE UNCHANGED vars
  BY <1>1, <1>17
     DEF vars, kernelVars, CountInv, TypeOK, Process
<1>. QED
  BY <1>2, <1>3, <1>4, <1>5, <1>6, <1>7, <1>8, <1>9, <1>10, <1>11, <1>12,
     <1>13, <1>14, <1>15, <1>16, <1>17
     DEF Next, Step, ServerStep, ClientStep

\* A process moves that neither listens nor has ended.
LEMMA PortFrame ==
  ASSUME TypeOK, PortInv, NEW p \in Process, p \notin listening,
         pc[p] # "ended", UNCHANGED <<args, listening, peer>>,
         \A t \in Process \ {p} : pc'[t] = pc[t],
         \/ pc'[p] \in {"main", "ended"}
         \/ p \in Servers => ParsePort(args[p].port)
  PROVE  PortInv'
<1>1. /\ \A q \in Process : Port(q)' = Port(q)
      /\ \A c \in Clients : Reached(c)' = Reached(c)
      /\ \A s \in Servers : SamePort(s)' = SamePort(s)
  BY DEF Port, Reached, SamePort
<1>2. listening \subseteq Servers /\ Servers \subseteq Process
  BY DEF TypeOK, Process
<1>3. \A s \in Servers : pc'[s] \notin {"main", "ended"} => ParsePort(args'[s].port)
  BY <1>2 DEF PortInv
<1>4. \A s \in listening' : pc'[s] \in {"accept", "spawn", "loop"}
  BY <1>2 DEF PortInv
<1>5. \A s \in listening' : SamePort(s)' \cap listening' = {}
  BY <1>1, <1>2 DEF PortInv
<1>6. ASSUME NEW c \in Clients, (peer[c] # "none")'
      PROVE  (/\ peer[c] \in listening \/ pc[peer[c]] = "ended"
              /\ Host[peer[c]] \in Reached(c) /\ Port(peer[c]) = Port(c))'
  <2>1. peer[c] \in Process /\ c \in Process
    BY <1>2, <1>6 DEF TypeOK, Process
  <2>2. peer[c] \in listening \/ pc[peer[c]] = "ended"
    BY <1>6 DEF PortInv
  <2>3. Host[peer[c]] \in Reached(c) /\ Port(peer[c]) = Port(c)
    BY <1>6 DEF PortInv
  <2>4. (peer[c] \in listening \/ pc[peer[c]] = "ended")'
    BY <2>1, <2>2
  <2>5. (Host[peer[c]] \in Reached(c) /\ Port(peer[c]) = Port(c))'
    BY <2>3 DEF Reached, Port
  <2>. QED  BY <2>4, <2>5
<1>. QED  BY <1>3, <1>4, <1>5, <1>6 DEF PortInv

\* A port has one server that listens, and a client keeps its server.
LEMMA PortKeeps ==
  ASSUME Inv, [Next]_vars
  PROVE  PortInv'
<1>1. TypeOK /\ PortInv /\ Servers \cap Clients = {}
  BY StartupAssumption DEF Inv
<1>2. UNCHANGED args
  BY DEF Next, Step, ServerStep, ClientStep, Usage, Start, Bind, BindFails,
         Listen, AcceptClient, AcceptFails, Spawn, Connect, ConnectFails,
         LeaveServer, LeaveClient, ServerSeesEnd, RecvFails, ClientSeesEnd,
         vars
<1>3. /\ \A p \in Process : Port(p)' = Port(p)
      /\ \A c \in Clients : Reached(c)' = Reached(c)
      /\ \A s \in Servers : SamePort(s)' = SamePort(s)
  BY <1>2 DEF Port, Reached, SamePort
<1>4. \A s \in Servers : SamePort(s) \subseteq Servers
                         /\ \A t \in SamePort(s) : s \in SamePort(t)
  BY DEF SamePort
<1>5. ASSUME NEW p \in Process, Usage(p) \/ Start(p) PROVE PortInv'
  <2>1. pc[p] = "main" /\ p \notin listening
    BY <1>1, <1>5 DEF Usage, Start, PortInv
  <2>. QED
    BY <1>1, <1>5, <2>1, PortFrame DEF Usage, Start, Goto, kernelVars, TypeOK
<1>6. ASSUME NEW s \in Servers, Bind(s) \/ BindFails(s) PROVE PortInv'
  <2>1. pc[s] = "bind" /\ s \notin listening
    BY <1>1, <1>6 DEF Bind, BindFails, PortInv
  <2>2. s \in Process /\ ParsePort(args[s].port)
    BY <1>1, <2>1 DEF PortInv, Process
  <2>. QED
    BY <1>1, <1>6, <2>1, <2>2, PortFrame
       DEF Bind, BindFails, Goto, kernelVars, TypeOK
<1>7. ASSUME NEW s \in Servers, Listen(s) PROVE PortInv'
  <2>1. /\ pc' = [pc EXCEPT ![s] = "accept"] /\ UNCHANGED peer
        /\ listening \subseteq listening' /\ listening' \subseteq Servers
        /\ \/ listening' = listening
           \/ /\ listening' = listening \cup {s}
              /\ SamePort(s) \cap listening = {}
    BY <1>1, <1>7 DEF Listen, Goto, TypeOK
  <2>2. \A t \in listening' : SamePort(t)' \cap listening' = {}
    <3>1. \A t \in listening : SamePort(t) \cap listening = {}
      BY <1>1 DEF PortInv
    <3>2. s \notin SamePort(s)
      BY DEF SamePort
    <3>3. CASE listening' = listening
      BY <1>3, <2>1, <3>1, <3>3
    <3>4. CASE /\ listening' = listening \cup {s}
               /\ SamePort(s) \cap listening = {}
      <4>1. \A t \in listening : s \notin SamePort(t)
        BY <1>1, <1>4, <3>4 DEF TypeOK
      <4>. QED  BY <1>3, <2>1, <3>1, <3>2, <3>4, <4>1
    <3>. QED  BY <2>1, <3>3, <3>4
  <2>3. /\ \A t \in Servers :
             pc'[t] \notin {"main", "ended"} => ParsePort(args'[t].port)
        /\ \A t \in listening' : pc'[t] \in {"accept", "spawn", "loop"}
    BY <1>1, <1>2, <1>7, <2>1 DEF Listen, PortInv, TypeOK, Process
  <2>. QED
    BY <1>1, <1>2, <1>3, <1>7, <2>1, <2>2, <2>3
       DEF Listen, PortInv, TypeOK, Process
<1>8. ASSUME NEW s \in Servers, AcceptClient(s) PROVE PortInv'
  BY <1>1, <1>2, <1>3, <1>4, <1>8
     DEF AcceptClient, PortInv, TypeOK, Goto, kernelVars, Process
<1>9. ASSUME NEW s \in Servers, AcceptFails(s) PROVE PortInv'
  BY <1>1, <1>2, <1>3, <1>4, <1>9
     DEF AcceptFails, PortInv, TypeOK, Goto, kernelVars, Process
<1>10. ASSUME NEW p \in Process, Spawn(p) PROVE PortInv'
  BY <1>1, <1>2, <1>3, <1>4, <1>10
     DEF Spawn, PortInv, TypeOK, Goto, kernelVars, Process
<1>11. ASSUME NEW c \in Clients, Connect(c) PROVE PortInv'
  BY <1>1, <1>2, <1>3, <1>4, <1>11
     DEF Connect, PortInv, TypeOK, Goto, kernelVars, Process, Answering
<1>12. ASSUME NEW c \in Clients, ConnectFails(c) PROVE PortInv'
  BY <1>1, <1>2, <1>3, <1>4, <1>12
     DEF ConnectFails, PortInv, TypeOK, Goto, kernelVars, Process
<1>13. ASSUME NEW s \in Servers, LeaveServer(s) PROVE PortInv'
  BY <1>1, <1>2, <1>3, <1>4, <1>13
     DEF LeaveServer, PortInv, TypeOK, Goto, kernelVars, Process, Release
<1>14. ASSUME NEW c \in Clients, LeaveClient(c) PROVE PortInv'
  BY <1>1, <1>2, <1>3, <1>4, <1>14
     DEF LeaveClient, PortInv, TypeOK, Goto, kernelVars, Process, Release
<1>15. ASSUME NEW s \in Servers, ServerSeesEnd(s) PROVE PortInv'
  BY <1>1, <1>2, <1>3, <1>4, <1>15
     DEF ServerSeesEnd, PortInv, TypeOK, Goto, kernelVars, Process
<1>16. ASSUME NEW s \in Servers, RecvFails(s) PROVE PortInv'
  BY <1>1, <1>2, <1>3, <1>4, <1>16
     DEF RecvFails, PortInv, TypeOK, Goto, kernelVars, Process
<1>17. ASSUME NEW c \in Clients, ClientSeesEnd(c) PROVE PortInv'
  BY <1>1, <1>2, <1>3, <1>4, <1>17
     DEF ClientSeesEnd, PortInv, TypeOK, Goto, kernelVars, Process
<1>18. CASE UNCHANGED vars
  BY <1>1, <1>2, <1>3, <1>4, <1>18
     DEF vars, kernelVars, PortInv, TypeOK, Process
<1>. QED
  BY <1>5, <1>6, <1>7, <1>8, <1>9, <1>10, <1>11, <1>12, <1>13,
     <1>14, <1>15, <1>16, <1>17, <1>18
     DEF Next, Step, ServerStep, ClientStep

LEMMA NextInv == Inv /\ [Next]_vars => Inv'
BY TypeKeeps, CountKeeps, PortKeeps DEF Inv

\* The globals of StartServer and StartClient stay in their ranges; ClientCount
\* counts at most one client, and never below none (ServerMod.cpp:79-164).
THEOREM StartupTyped == Spec => []TypeOK
<1>1. Inv => TypeOK
  BY DEF Inv
<1>. QED  BY InitInv, NextInv, <1>1, PTL DEF Spec

\* A client that is given the LAN address, if there is one, and the port that a
\* listening server shows, or the local address on the server's host, is connected
\* to that server, or to one that ended before it on the same port
\* (README.md:47, PrintServerInfo).
THEOREM ShownValuesReachTheirServer == Spec => []ShownValuesReachServer
<1>1. Inv => ShownValuesReachServer
  <2>. SUFFICES ASSUME Inv, NEW c \in Clients, NEW s \in listening,
                       peer[c] # "none",
                       \/ /\ args[c].address = GetLANIPAddr(Host[s])
                          /\ args[c].address # NoAddress
                       \/ args[c].address \in Loopback /\ Host[c] = Host[s],
                       args[c].port = args[s].port, peer[c] # s
                PROVE  pc[peer[c]] = "ended" /\ peer[c] \in SamePort(s)
    BY DEF ShownValuesReachServer
  <2>1. s \in Servers /\ peer[c] \in Servers /\ c \notin Servers
    BY StartupAssumption DEF Inv, TypeOK
  <2>2. ParsePort(args[s].port)
    BY <2>1 DEF Inv, PortInv
  <2>3. args[s].port.number \in Int
    BY <2>1, ArgumentsAssumption DEF Inv, TypeOK, Process
  <2>4. Port(c) = Port(s)
    BY <2>1, <2>2, <2>3 DEF Port, ClientPort, ParsePort
  <2>5. Host[s] \in DOMAIN Interfaces
    BY <2>1, AddressAssumption DEF Process
  <2>6. Host[peer[c]] = Host[s]
    <3>1. Host[peer[c]] \in Reached(c)
      BY DEF Inv, PortInv
    <3>2. CASE args[c].address \in Loopback /\ Host[c] = Host[s]
      BY <3>1, <3>2 DEF Reached
    <3>3. CASE /\ args[c].address = GetLANIPAddr(Host[s])
               /\ args[c].address # NoAddress
      BY <2>5, <3>1, <3>3, ShownHost
    <3>. QED  BY <3>2, <3>3
  <2>7. peer[c] \in SamePort(s)
    BY <2>1, <2>4, <2>6 DEF Inv, PortInv, SamePort
  <2>8. peer[c] \notin listening
    BY <2>7 DEF Inv, PortInv
  <2>. QED  BY <2>7, <2>8 DEF Inv, PortInv
<1>. QED  BY InitInv, NextInv, <1>1, PTL DEF Spec

=============================================================================
