--------------------------- MODULE MCPacketStream ---------------------------
(***************************************************************************)
(* An instance of PacketStream for TLC: bytes are hexadecimal digits, so   *)
(* that an enumerator fits in one.                                         *)
(***************************************************************************)
EXTENDS PacketStream

\* Hosts of one byte order, a size whose bytes all differ, small bodies.
Hosts == [p \in Peer |-> "little"]
SomeMeta == [f \in File |-> [FileSize |-> <<4660, 22136>>, FileName |-> <<7>>]]
SomeData == [f \in File |-> <<<<5, 0, 5>>>>]
SomeWords == <<1, 2>>
NoChunks == [f \in File |-> 1]

SomePackets ==
  {Text, Marker("FILE_BEGIN")} \cup {Request(f) : f \in File}
    \cup {ChunkFrame(f, 1) : f \in File}
=============================================================================
