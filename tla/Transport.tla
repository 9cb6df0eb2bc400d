----------------------------- MODULE Transport ------------------------------
(***************************************************************************)
(* The TCP connection between the two peers, as SendPacket, RecievePacket  *)
(* and the calls to shutdown and close in src/ use it.  Each direction is  *)
(* a FIFO of whole packets of at most Cap packets: SendPacket loops until  *)
(* every byte is written and blocks while the socket buffers are full, and *)
(* RecievePacket loops until the packet is complete.                       *)
(*                                                                         *)
(* A write on a connection whose other end is gone may still succeed (the  *)
(* data is lost), may fail (the peer's RST has arrived), or may kill the   *)
(* process: send is called without MSG_NOSIGNAL and SIGPIPE is not handled.*)
(***************************************************************************)
EXTENDS Protocol

CONSTANT Cap   \* packets that fit in the buffers of one direction
ASSUME CapAssumption == Cap \in Nat \ {0}

VARIABLES
  wire,   \* wire[p]: the packets on their way to p
  sock    \* sock[p]: what is left open of p's end of the connection

transportVars == <<wire, sock>>

SockState == {"open", "wrShut", "rdShut", "closed"}

\* Streams of packets that fit in the buffers.
WireOK ==
  wire \in [Peer -> Seq(Packet)] /\ \A p \in Peer : Len(wire[p]) <= Cap

TransportTypeOK ==
  /\ WireOK
  /\ sock \in [Peer -> SockState]

TransportInit ==
  /\ wire = [p \in Peer |-> <<>>]
  /\ sock = [p \in Peer |-> "open"]

\* The packets on their way to p, in whatever order.
PacketsTo(p) == {wire[p][i] : i \in 1 .. Len(wire[p])}

Writable(p) == sock[p] \in {"open", "rdShut"}
PeerGone(p) == sock[Other(p)] = "closed"

(***************************************************************************)
(* The four outcomes of SendPacket.                                        *)
(***************************************************************************)
\* Mutant of Delivered: buffers without a limit.
DeliveredUnbounded(p, pkt) ==
  /\ Writable(p) /\ ~PeerGone(p)
  /\ wire' = [wire EXCEPT ![Other(p)] = Append(@, pkt)]

\* Return 0: every byte is in the socket buffers.
Delivered(p, pkt) ==
  /\ Writable(p)
  /\ ~PeerGone(p)
  /\ Len(wire[Other(p)]) < Cap
  /\ wire' = [wire EXCEPT ![Other(p)] = Append(@, pkt)]

\* Return 0, but nobody is left to read the packet.
Lost(p) == Writable(p) /\ PeerGone(p) /\ wire' = wire

\* Return -1: the descriptor is closed, or the connection was reset.
Refused(p) == (sock[p] = "closed" \/ PeerGone(p)) /\ wire' = wire

\* EPIPE: SIGPIPE is raised.
BrokenPipe(p) == sock[p] # "closed" /\ (PeerGone(p) \/ ~Writable(p))

(***************************************************************************)
(* The three outcomes of RecievePacket.                                    *)
(***************************************************************************)
\* Return 0: the packet at the head of the stream was read.
Takes(p) == wire[p] # <<>> /\ wire' = [wire EXCEPT ![p] = Tail(@)]

\* Return 2: recv reads 0, the peer has shut down or closed its end.
EndOfStream(p) == wire[p] = <<>> /\ sock[Other(p)] \in {"wrShut", "closed"}

\* Return -1: the peer is gone and its RST overtakes what was not delivered.
ConnectionReset(p) == PeerGone(p)

\* close(), or the end of the process: what was not read is discarded.
Close(p) ==
  /\ sock' = [sock EXCEPT ![p] = "closed"]
  /\ wire' = [wire EXCEPT ![p] = <<>>]

\* Mutant of Shutdown: the reading end is shut instead of the writing end.
ShutdownReading(p, how) == sock' = [sock EXCEPT ![p] = "rdShut"]

\* shutdown(fd, SHUT_WR) and shutdown(fd, SHUT_RD) on an open descriptor.
Shutdown(p, how) ==
  sock' = [sock EXCEPT ![p] = IF @ = "closed" THEN @ ELSE how]
=============================================================================
