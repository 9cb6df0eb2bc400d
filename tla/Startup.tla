------------------------------ MODULE Startup -------------------------------
(***************************************************************************)
(* How WireSend processes find each other: main and ParsePort              *)
(* (UserHandler.cpp), the sockets of StartServer and StartClient up to     *)
(* their main loops, and how the processes end and give the sockets back.  *)
(* Several servers and clients run on several hosts.  What a connected     *)
(* pair does is WireSend's matter: here a session is over when one side    *)
(* ends, and Init of WireSend is the state of a pair in "loop".            *)
(***************************************************************************)
EXTENDS Integers, Sequences, FiniteSets, SequencesExt

CONSTANTS
  Servers, Clients,  \* the processes, by the mode they are started in
  Host,              \* Host[p]: where process p runs
  Interfaces,        \* Interfaces[h]: the IPv4 addresses of h, as listed
  Loopback,          \* the addresses that begin with "127."
  Arguments,         \* Arguments[p]: the command lines p may be started with
  Backlog,           \* the length that listen is given
  Faults             \* what the environment may do

Process == Servers \cup Clients
NoAddress == "(null)"  \* what printf makes of the nullptr of GetLANIPAddr
Invalid == "invalid"   \* a text that is not an IPv4 address
Stdin == "fd 0"        \* the value CommunicationSocketFd starts with

ASSUME StartupAssumption ==
  /\ Servers \cap Clients = {}
  /\ Backlog \in Nat
  /\ Faults \subseteq {"accept_fails", "socket_fails"}

\* argc, and what atoi and from_chars make of the texts.
ASSUME ArgumentsAssumption ==
  \A p \in Process : \A a \in Arguments[p] :
    a.count \in Nat /\ a.port.number \in Int /\ a.port.junk \in BOOLEAN

\* A network gives each host addresses of its own; those that begin with
\* "127." are in every host's list, and a text that is no address in none.
ASSUME AddressAssumption ==
  /\ Host \in [Process -> DOMAIN Interfaces]
  /\ \A h \in DOMAIN Interfaces :
       /\ Interfaces[h] \in Seq(ToSet(Interfaces[h]))
       /\ {NoAddress, Invalid} \cap (ToSet(Interfaces[h]) \cup Loopback) = {}
  /\ \A h, k \in DOMAIN Interfaces :
       ToSet(Interfaces[h]) \cap ToSet(Interfaces[k]) \subseteq Loopback \/ h = k

VARIABLES
  pc,                \* where the main thread of each process is
  args,              \* args[p]: the command line of p
  bound,             \* the servers whose socket is bound to their port
  listening,         \* those whose socket also listens
  queue,             \* queue[s]: connected clients that s has not accepted
  fd,                \* fd[s]: CommunicationSocketFd, the client behind it
  peer,              \* peer[c]: the server that c is connected to, or "none"
  connected,         \* ServerConnected / ClientConnected of each process
  ClientCount,       \* ClientCount of each server
  receiving          \* the processes whose receive thread runs

kernelVars == <<bound, listening, queue, peer>>
vars == <<pc, args, kernelVars, fd, connected, ClientCount, receiving>>

Pc == {"main", "bind", "listen", "accept", "connect", "spawn", "loop",
       "ended"}

TypeOK ==
  /\ pc \in [Process -> Pc]
  /\ \A p \in Process : args[p] \in Arguments[p]
  /\ listening \subseteq bound /\ bound \subseteq Servers
  /\ queue \in [Servers -> Seq(Clients)]
  /\ fd \in [Servers -> Clients \cup {Stdin}]
  /\ peer \in [Clients -> Servers \cup {"none"}]
  /\ connected \in [Process -> BOOLEAN]
  /\ ClientCount \in [Servers -> {0, 1}]
  /\ receiving \subseteq Process

Init ==
  /\ pc = [p \in Process |-> "main"]
  /\ args \in {a \in [Process -> UNION {Arguments[p] : p \in Process}] :
                 \A p \in Process : a[p] \in Arguments[p]}
  /\ bound = {} /\ listening = {}
  /\ queue = [s \in Servers |-> <<>>]
  /\ fd = [s \in Servers |-> Stdin]
  /\ peer = [c \in Clients |-> "none"]
  /\ connected = [p \in Process |-> FALSE]
  /\ ClientCount = [s \in Servers |-> 0]
  /\ receiving = {}

Goto(p, to) == pc' = [pc EXCEPT ![p] = to]

-----------------------------------------------------------------------------
(***************************************************************************)
(* main: the command line.  A text that should be a port is its leading    *)
(* digits as a number, and whether anything else follows them.             *)
(***************************************************************************)
\* ParsePort succeeds: from_chars takes the whole text.
ParsePort(text) ==
  ~text.junk /\ text.number >= 1024 /\ text.number <= 65535

\* atoi takes what it can, and the parameter of StartClient keeps 16 bits.
ClientPort(text) == text.number % 65536

Port(p) == IF p \in Servers THEN args[p].port.number
                            ELSE ClientPort(args[p].port)

\* Too few arguments, no known mode, or no valid port for the server.
Usage(p) ==
  /\ pc[p] = "main"
  /\ \/ args[p].mode = "other"
     \/ args[p].count < IF p \in Servers THEN 3 ELSE 4
     \/ p \in Servers /\ ~ParsePort(args[p].port)
  /\ Goto(p, "ended")
  /\ UNCHANGED <<args, kernelVars, fd, connected, ClientCount, receiving>>

Start(p) ==
  /\ pc[p] = "main"
  /\ args[p].mode # "other"
  /\ args[p].count >= IF p \in Servers THEN 3 ELSE 4
  /\ p \in Servers => ParsePort(args[p].port)
  /\ Goto(p, IF p \in Servers THEN "bind" ELSE "connect")
  /\ UNCHANGED <<args, kernelVars, fd, connected, ClientCount, receiving>>

-----------------------------------------------------------------------------
(***************************************************************************)
(* StartServer.                                                            *)
(***************************************************************************)
SamePort(s) == {t \in Servers \ {s} : Host[t] = Host[s] /\ Port(t) = Port(s)}

\* With SO_REUSEADDR two sockets may be bound to a port, as long as none of
\* them listens.
Bind(s) ==
  /\ pc[s] = "bind"
  /\ SamePort(s) \cap listening = {}
  /\ bound' = bound \cup {s}
  /\ Goto(s, "listen")
  /\ UNCHANGED <<args, listening, queue, peer, fd, connected, ClientCount,
                 receiving>>

\* The port is in use, or there was no socket to bind (CreateSocketFd is not
\* checked): StopServer, whose broadcast on fd 0 fails, and -1.
BindFails(s) ==
  /\ pc[s] = "bind"
  /\ SamePort(s) \cap listening # {} \/ "socket_fails" \in Faults
  /\ Goto(s, "ended")
  /\ UNCHANGED <<args, kernelVars, fd, connected, ClientCount, receiving>>

\* A failure of listen is printed, and AcceptClient is called all the same.
Listen(s) ==
  /\ pc[s] = "listen"
  /\ listening' = IF s \in bound /\ SamePort(s) \cap listening = {}
                    THEN listening \cup {s} ELSE listening
  /\ Goto(s, "accept")
  /\ UNCHANGED <<args, bound, queue, peer, fd, connected, ClientCount,
                 receiving>>

AcceptClient(s) ==
  /\ pc[s] = "accept"
  /\ s \in listening /\ queue[s] # <<>>
  /\ fd' = [fd EXCEPT ![s] = Head(queue[s])]
  /\ queue' = [queue EXCEPT ![s] = Tail(@)]
  /\ ClientCount' = [ClientCount EXCEPT ![s] = @ + 1]
  /\ connected' = [connected EXCEPT ![s] = TRUE]
  /\ Goto(s, "spawn")
  /\ UNCHANGED <<args, bound, listening, peer, receiving>>

\* AcceptClient returns -1, which StartServer ignores: ServerConnected is set
\* and CommunicationSocketFd is still 0.
AcceptFails(s) ==
  /\ pc[s] = "accept"
  /\ s \notin listening \/ "accept_fails" \in Faults
  /\ connected' = [connected EXCEPT ![s] = TRUE]
  /\ Goto(s, "spawn")
  /\ UNCHANGED <<args, kernelVars, fd, ClientCount, receiving>>

\* The receive thread is created; while(ServerConnected), while(ClientConnected)
Spawn(p) ==
  /\ pc[p] = "spawn"
  /\ receiving' = IF connected[p] THEN receiving \cup {p} ELSE receiving
  /\ Goto(p, "loop")
  /\ UNCHANGED <<args, kernelVars, fd, connected, ClientCount>>

-----------------------------------------------------------------------------
(***************************************************************************)
(* The address that a server shows, and StartClient.                       *)
(***************************************************************************)
\* Mutant of GetLANIPAddr: "127." is not skipped.
FirstAddress(h) ==
  IF Interfaces[h] = <<>> THEN NoAddress ELSE Interfaces[h][1]

\* The first address that is not a loopback address, or nullptr.
GetLANIPAddr(h) ==
  LET lan == {i \in DOMAIN Interfaces[h] : Interfaces[h][i] \notin Loopback}
  IN  IF lan = {} THEN NoAddress ELSE Interfaces[h][Min(lan)]

\* The host that connect reaches.  inet_pton leaves 0.0.0.0 when the text is
\* no address, "(null)" for one; only a message is printed, and 0.0.0.0 is the
\* own host.
Reached(c) ==
  LET Has(h) == args[c].address \in ToSet(Interfaces[h])
      own == Loopback \cup {Invalid, NoAddress}
  IN  IF args[c].address \in own \/ Has(Host[c])
        THEN {Host[c]}
        ELSE {h \in DOMAIN Interfaces : Has(h)}

\* A listening socket takes Backlog + 1 clients that are not accepted yet.
Answering(c) ==
  {s \in listening : /\ Host[s] \in Reached(c) /\ Port(s) = Port(c)
                     /\ Len(queue[s]) <= Backlog}

Connect(c) ==
  /\ pc[c] = "connect"
  /\ \E s \in Answering(c) :
       /\ queue' = [queue EXCEPT ![s] = Append(@, c)]
       /\ peer' = [peer EXCEPT ![c] = s]
  /\ connected' = [connected EXCEPT ![c] = TRUE]
  /\ Goto(c, "spawn")
  /\ UNCHANGED <<args, bound, listening, fd, ClientCount, receiving>>

\* Nobody listens there, no answer comes, or there is no socket.  The loop is
\* entered all the same.
ConnectFails(c) ==
  /\ pc[c] = "connect"
  /\ Answering(c) = {} \/ "socket_fails" \in Faults
  /\ Goto(c, "spawn")
  /\ UNCHANGED <<args, kernelVars, fd, connected, ClientCount, receiving>>

-----------------------------------------------------------------------------
(***************************************************************************)
(* The end of a session.                                                   *)
(***************************************************************************)
\* A client connects once.
Without(q, c) ==
  IF c \in ToSet(q) THEN RemoveAt(q, CHOOSE i \in DOMAIN q : q[i] = c) ELSE q

\* The sockets of process p are closed: clients that wait to be accepted are
\* reset, and the peer of an accepted one will read the end of the stream.
Release(p) ==
  /\ bound' = bound \ {p}
  /\ listening' = listening \ {p}
  /\ queue' = [s \in Servers |->
                 IF s = p THEN <<>> ELSE Without(queue[s], p)]

\* /stop, and then the line that raises SIGPIPE or fails to be sent; with no
\* connection any line fails.  The thread was never joined: no clean end.
LeaveServer(s) ==
  /\ pc[s] = "loop"
  /\ connected' = [connected EXCEPT ![s] = FALSE]
  /\ receiving' = receiving \ {s}
  /\ Release(s)
  /\ Goto(s, "ended")
  /\ UNCHANGED <<args, peer, fd, ClientCount>>

\* A line finds ~ClientConnected, or the terminal session is closed.
LeaveClient(c) ==
  /\ pc[c] = "loop"
  /\ connected' = [connected EXCEPT ![c] = FALSE]
  /\ receiving' = receiving \ {c}
  /\ peer' = [peer EXCEPT ![c] = "none"]
  /\ Release(c)
  /\ Goto(c, "ended")
  /\ UNCHANGED <<args, fd, ClientCount>>

\* RecievePacket returns 2 on the server: its client has ended.
ServerSeesEnd(s) ==
  /\ s \in receiving /\ fd[s] # Stdin /\ peer[fd[s]] # s
  /\ ClientCount' = [ClientCount EXCEPT ![s] = @ - 1]
  /\ connected' = [connected EXCEPT ![s] = FALSE]
  /\ receiving' = receiving \ {s}
  /\ UNCHANGED <<pc, args, kernelVars, fd>>

\* Mutant of RecvFails: the client is counted out, as after a return of 2.
CountsDown(s) ==
  /\ s \in receiving
  /\ fd[s] # Stdin => peer[fd[s]] # s
  /\ ClientCount' = [ClientCount EXCEPT ![s] = @ - 1]
  /\ receiving' = receiving \ {s}
  /\ UNCHANGED <<pc, args, kernelVars, fd, connected>>

\* RecievePacket returns -1 on the server, on fd 0 or because its client was
\* reset: the thread returns, ServerConnected and ClientCount stay as they are.
RecvFails(s) ==
  /\ s \in receiving
  /\ fd[s] # Stdin => peer[fd[s]] # s
  /\ receiving' = receiving \ {s}
  /\ UNCHANGED <<pc, args, kernelVars, fd, connected, ClientCount>>

\* RecievePacket returns 2 or -1 on the client: its server has ended, whether
\* or not it had accepted the connection.
ClientSeesEnd(c) ==
  /\ c \in receiving /\ pc[peer[c]] = "ended"
  /\ connected' = [connected EXCEPT ![c] = FALSE]
  /\ receiving' = receiving \ {c}
  /\ UNCHANGED <<pc, args, kernelVars, fd, ClientCount>>

-----------------------------------------------------------------------------
ServerStep(s) ==
  \/ Bind(s) \/ BindFails(s) \/ Listen(s)
  \/ AcceptClient(s) \/ AcceptFails(s)
  \/ ServerSeesEnd(s) \/ RecvFails(s)

ClientStep(c) == Connect(c) \/ ConnectFails(c) \/ ClientSeesEnd(c)

Step(p) ==
  \/ Start(p) \/ Usage(p) \/ Spawn(p)
  \/ p \in Servers /\ ServerStep(p)
  \/ p \in Clients /\ ClientStep(p)

Next ==
  \/ \E p \in Process : Step(p)
  \/ \E s \in Servers : LeaveServer(s)
  \/ \E c \in Clients : LeaveClient(c)

Spec == Init /\ [][Next]_vars

-----------------------------------------------------------------------------
(***************************************************************************)
(* Properties.                                                             *)
(***************************************************************************)
\* "Replace <ip-address> and <port> with the values shown when the server
\* starts" (README.md:47).  A client given the LAN address that a server shows,
\* if its host has one, or given the local one on the host of the server, reaches
\* the server that shows these values and no other one, also when several are
\* started with one port on one host.  (Of two that follow each other it may
\* have reached the first.)
ShownValuesReachServer ==
  \A c \in Clients, s \in listening :
    /\ peer[c] # "none"
    /\ \/ /\ args[c].address = GetLANIPAddr(Host[s])
          /\ args[c].address # NoAddress
       \/ args[c].address \in Loopback /\ Host[c] = Host[s]
    /\ args[c].port = args[s].port
    => peer[c] = s \/ (pc[peer[c]] = "ended" /\ peer[c] \in SamePort(s))
=============================================================================
