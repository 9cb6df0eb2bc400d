------------------------------ MODULE Protocol ------------------------------
(***************************************************************************)
(* The vocabulary of WireSend: the two peers, the packet and its type and  *)
(* control bytes (Protocol.hpp, EnumStates.hpp), and the packets that the  *)
(* program builds (FileHandler.cpp, ServerMod.cpp, ClientMod.cpp).  A      *)
(* packet is abstracted to what the receiving side tells apart: its type,  *)
(* its control byte and, for the two bodies that carry a file, the file    *)
(* announced or the chunk of it.  Chat text is not told apart.             *)
(***************************************************************************)
EXTENDS Integers, Sequences, FiniteSets

CONSTANTS
  File,      \* the files a user can pick in the open dialog
  NoFile,    \* "no file": not an element of File
  Chunks,    \* Chunks[f]: how many 64 KiB chunks SendFile cuts f into
  StrayCtl   \* bytes an uninitialised PL_CTL may hold

Server == "server"
Client == "client"
Peer == {Server, Client}
Other(p) == IF p = Server THEN Client ELSE Server

ASSUME FileAssumption == NoFile \notin File /\ Chunks \in [File -> Nat]

\* One C++ enumeration serves both the PL_TYPE and the PL_CTL byte.
PacketType ==
  { "MESSAGE", "MESSAGE_BROADCAST", "FILE_TRANSFER", "FILE_NEG",
    "FILE_BEGIN", "FILE_CHUNK", "FILE_END", "FILE_SUCC", "FILE_FAIL",
    "FILE_READY", "NO_ARG", "FILE_ACCEPT", "FILE_REJECT", "CANCEL_TRANS",
    "END_CONNECTION" }

ASSUME StrayAssumption == StrayCtl \subseteq PacketType

\* The types that the receive threads hand to RecvFile.
FrameType == {"FILE_TRANSFER", "FILE_BEGIN", "FILE_CHUNK", "FILE_END"}

Packet ==
  [type : PacketType, ctl : PacketType, file : File \cup {NoFile}, part : Nat]

\* The main loops build a MESSAGE out of every line that is typed.
Text ==
  [type |-> "MESSAGE", ctl |-> "NO_ARG", file |-> NoFile, part |-> 0]

\* BroadcastServerMsg never assigns PL_CTL, so the byte on the wire is
\* whatever the stack held.
Broadcast(stray) ==
  [type |-> "MESSAGE_BROADCAST", ctl |-> stray, file |-> NoFile, part |-> 0]

\* The request of NegotiateReceiver: the body is the metadata of the file.
Request(f) ==
  [type |-> "FILE_NEG", ctl |-> "NO_ARG", file |-> f, part |-> 0]

\* Mutant of Answer: both branches of AnswerSender set FILE_ACCEPT.
AlwaysAccepts(verdict) ==
  [type |-> "FILE_NEG", ctl |-> "FILE_ACCEPT", file |-> NoFile, part |-> 0]

\* The reply of AnswerSender.  It does not say which request it answers.
Answer(verdict) ==
  [type |-> "FILE_NEG", ctl |-> verdict, file |-> NoFile, part |-> 0]

\* The first and last frame of SendFile, and its i-th chunk in between.
Marker(type) ==
  [type |-> type, ctl |-> "NO_ARG", file |-> NoFile, part |-> 0]
ChunkFrame(f, i) ==
  [type |-> "FILE_CHUNK", ctl |-> "NO_ARG", file |-> f, part |-> i]
=============================================================================
