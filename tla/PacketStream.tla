---------------------------- MODULE PacketStream ----------------------------
(***************************************************************************)
(* One direction of the connection byte by byte: the loop of SendPacket in *)
(* the main thread of peer From, the bytes in the socket buffers, and the  *)
(* loop of RecievePacket that the receive thread of the other peer runs    *)
(* for a header and then for a body (RunRecvThread).  send and recv move   *)
(* as many bytes as they please; a peer can go away between any two calls. *)
(*                                                                         *)
(* The module implements Connection: mapped to the packets that are sent   *)
(* and not yet received, the bytes behave as whole packets do.             *)
(***************************************************************************)
EXTENDS Protocol, Codec

CONSTANTS
  From,        \* the peer that sends
  Offered,     \* the packets it may send
  BufBytes,    \* bytes that fit in the socket buffers
  IntMax,      \* the largest int: RecievePacket counts bytes in an int
  Sends,       \* bound: how many packets are sent
  HostOrder,   \* the byte order of each peer's host
  Meta,        \* Meta[f]: the metadata of file f
  Data,        \* Data[f][i]: the bytes of its i-th chunk
  Words        \* the body of a chat line or of an answer

ASSUME StreamAssumption ==
  /\ From \in Peer
  /\ Offered \subseteq Packet
  /\ BufBytes \in Nat \ {0} /\ IntMax \in Nat /\ Sends \in Nat
  /\ HostOrder \in [Peer -> Order]
  /\ Meta \in [File -> Metadata]
  /\ Data \in [File -> Seq(Seq(Byte))]
  /\ Words \in Seq(Byte)

To == Other(From)

\* The bytes of an enumerator, and of the packet that the program builds.
Enumerators ==
  << "MESSAGE", "MESSAGE_BROADCAST", "FILE_TRANSFER", "FILE_NEG",
     "FILE_BEGIN", "FILE_CHUNK", "FILE_END", "FILE_SUCC", "FILE_FAIL",
     "FILE_READY", "NO_ARG", "FILE_ACCEPT", "FILE_REJECT", "CANCEL_TRANS",
     "END_CONNECTION" >>
Value(e) == (CHOOSE i \in 1 .. Len(Enumerators) : Enumerators[i] = e) - 1

Body(pkt) ==
  CASE pkt.type = "FILE_NEG" /\ pkt.ctl = "NO_ARG" ->
         SerializeFileMetadataPacket(HostOrder[From], Meta[pkt.file])
    [] pkt.type = "FILE_CHUNK" -> Data[pkt.file][pkt.part]
    [] pkt.type \in {"FILE_BEGIN", "FILE_END"} -> <<>>
    [] OTHER -> Words

Raw(pkt) ==
  [type |-> Value(pkt.type), body |-> Body(pkt), ctl |-> Value(pkt.ctl)]

\* An enumerator is one byte; NegotiateReceiver offers a file; a body fits in
\* the length field, and the int of RecievePacket counts to the last byte
\* before it is complete.
ASSUME BodyAssumption ==
  /\ Len(Enumerators) <= Base
  /\ HeaderLen <= IntMax
  /\ \A pkt \in Offered :
       /\ pkt.type = "FILE_NEG" /\ pkt.ctl = "NO_ARG" => pkt.file \in File
       /\ Body(pkt) \in Seq(Byte)
       /\ Len(Body(pkt)) \in Word /\ Len(Body(pkt)) <= IntMax

VARIABLES
  current,     \* <<pkt>> while SendPacket sends pkt, <<>> otherwise
  SentBytes,   \* local to SendPacket
  todo,        \* how many packets may still be started
  stream,      \* the bytes in the socket buffers
  ends,        \* what is left open of each end, as in Transport
  phase,       \* what the receive thread reads: "header" or "body"; or it is
               \* in UserAction, "asking"; "ended"
  buffer,      \* the bytes that RecievePacket has read into its buffer
  header,      \* HeaderPacket
  sent,        \* history: the packets for which SendPacket returned 0
  received     \* history: the packets that CombinePacket returned

senderVars == <<current, SentBytes, todo, sent>>
receiverVars == <<phase, buffer, header, received>>
vars == <<senderVars, stream, ends, receiverVars>>

TypeOK ==
  /\ current \in {<<>>} \cup {<<pkt>> : pkt \in Offered}
  /\ SentBytes \in Nat /\ todo \in 0 .. Sends
  /\ stream \in Seq(Byte) /\ Len(stream) <= BufBytes
  /\ ends \in [Peer -> {"open", "wrShut", "rdShut", "closed"}]
  /\ phase \in {"header", "body", "asking", "ended"}
  /\ buffer \in Seq(Byte)
  /\ header \in [type : Byte, len : Word]
  /\ sent \in Seq(Offered)
  /\ received \in Seq(RawPacket)

Init ==
  /\ current = <<>> /\ SentBytes = 0 /\ todo = Sends /\ sent = <<>>
  /\ stream = <<>>
  /\ ends = [p \in Peer |-> "open"]
  /\ phase = "header" /\ buffer = <<>>
  /\ header = [type |-> 0, len |-> 0]
  /\ received = <<>>

-----------------------------------------------------------------------------
(***************************************************************************)
(* SendPacket.                                                             *)
(***************************************************************************)
msgbuff == SerializePacket(Raw(current[1]))

StartPacket(pkt) ==
  /\ current = <<>> /\ todo > 0 /\ ends[From] # "closed"
  /\ current' = <<pkt>> /\ SentBytes' = 0 /\ todo' = todo - 1
  /\ UNCHANGED <<sent, stream, ends, receiverVars>>

\* send has taken n bytes; SendPacket returns 0 after the last of them.
Advance(n) ==
  /\ SentBytes' = SentBytes + n
  /\ IF SentBytes + n < Len(msgbuff)
       THEN UNCHANGED <<current, sent>>
       ELSE current' = <<>> /\ sent' = Append(sent, current[1])
  /\ UNCHANGED <<todo, ends, receiverVars>>

\* Mutant of SendSome: send takes what does not fit in the buffers.
SendUnbounded(n) ==
  /\ current # <<>> /\ n <= Len(msgbuff) - SentBytes
  /\ ends[From] \in {"open", "rdShut"} /\ ends[To] # "closed"
  /\ stream' = stream \o SubSeq(msgbuff, SentBytes + 1, SentBytes + n)
  /\ Advance(n)

\* Mutant of SendSome: the bytes are always taken from the start.
SendRepeats(n) ==
  /\ current # <<>> /\ n <= Len(msgbuff) - SentBytes
  /\ ends[From] \in {"open", "rdShut"} /\ ends[To] # "closed"
  /\ Len(stream) + n <= BufBytes
  /\ stream' = stream \o SubSeq(msgbuff, 1, n)
  /\ Advance(n)

SendSome(n) ==
  /\ current # <<>> /\ n <= Len(msgbuff) - SentBytes
  /\ ends[From] \in {"open", "rdShut"} /\ ends[To] # "closed"
  /\ Len(stream) + n <= BufBytes
  /\ stream' = stream \o SubSeq(msgbuff, SentBytes + 1, SentBytes + n)
  /\ Advance(n)

\* Nobody is left to read: send may still take the rest.
SendInVain ==
  /\ current # <<>>
  /\ ends[From] \in {"open", "rdShut"} /\ ends[To] = "closed"
  /\ current' = <<>>
  /\ UNCHANGED <<SentBytes, todo, sent, stream, ends, receiverVars>>

\* send returns -1 and SendPacket gives up, wherever it is in the packet.
SendFails ==
  /\ current # <<>>
  /\ ends[From] = "closed" \/ ends[To] = "closed"
  /\ current' = <<>>
  /\ UNCHANGED <<SentBytes, todo, sent, stream, ends, receiverVars>>

\* shutdown(SHUT_WR), by the thread that sends; later sends raise SIGPIPE.
StopSending ==
  /\ current = <<>> /\ From = Server /\ ends[From] # "closed"
  /\ ends' = [ends EXCEPT ![From] = "wrShut"]
  /\ UNCHANGED <<senderVars, stream, receiverVars>>

\* From's socket is closed between two calls of send: its process has ended,
\* or, in the client, TerminateConnection has run on the receive thread.
SenderCloses ==
  /\ ends[From] # "closed"
  /\ ends' = [ends EXCEPT ![From] = "closed"]
  /\ UNCHANGED <<senderVars, stream, receiverVars>>

-----------------------------------------------------------------------------
(***************************************************************************)
(* RecievePacket, and the two calls of it in RunRecvThread.                *)
(***************************************************************************)
Reads == phase \in {"header", "body"} /\ ends[To] # "closed"

Wanted == IF phase = "body" THEN BytesToRecieve(header) ELSE HeaderLen

\* The buffer was filled with zeros when it was created.
Filled(bytes) == bytes \o [i \in 1 .. Wanted - Len(bytes) |-> 0]

\* RecievePacket returns 0 with these bytes in its buffer.  A FILE_BEGIN may
\* take the thread to UserAction before it reads on.
Complete(bytes) ==
  /\ buffer' = <<>>
  /\ IF phase = "header"
       THEN /\ header' = DeserializeHeaderPacket(bytes)
            /\ phase' = "body"
            /\ UNCHANGED received
       ELSE /\ received' =
                 Append(received, CombinePacket(header,
                                    DeserializeBodyPacket(bytes, header)))
            /\ \/ phase' = "header"
               \/ header.type = Value("FILE_BEGIN") /\ phase' = "asking"
            /\ UNCHANGED header

\* recv returns n bytes.  A count beyond IntMax wraps to a negative int, which
\* the comparison with size() takes for a huge number.
RecvSome(n) ==
  /\ Reads
  /\ n <= Len(stream) /\ n <= Wanted - Len(buffer)
  /\ stream' = SubSeq(stream, n + 1, Len(stream))
  /\ LET bytes == buffer \o SubSeq(stream, 1, n)
     IN  IF Len(bytes) < Wanted /\ Len(bytes) <= IntMax
           THEN buffer' = bytes /\ UNCHANGED <<phase, header, received>>
           ELSE Complete(Filled(bytes))
  /\ UNCHANGED <<senderVars, ends>>

\* Mutant of RecvEnd: the end of the stream in a body counts as its end.
BodyEnds ==
  /\ Reads /\ stream = <<>>
  /\ ends[From] \in {"wrShut", "closed"}
  /\ IF phase = "body"
       THEN Complete(Filled(buffer))
       ELSE phase' = "ended" /\ UNCHANGED <<buffer, header, received>>
  /\ UNCHANGED <<senderVars, stream, ends>>

\* recv returns 0: RecievePacket returns 2, in the middle of a packet or not,
\* and what was read of it is dropped.
RecvEnd ==
  /\ Reads /\ stream = <<>>
  /\ ends[From] \in {"wrShut", "closed"}
  /\ phase' = "ended"
  /\ ends' = [ends EXCEPT ![To] = IF To = Client THEN "rdShut" ELSE @]
  /\ UNCHANGED <<senderVars, stream, buffer, header, received>>

\* recv returns -1: the RST of a peer that has gone away.
RecvReset ==
  /\ Reads /\ ends[From] = "closed"
  /\ phase' = "ended" /\ stream' = <<>>
  /\ ends' = [ends EXCEPT ![To] = IF To = Client THEN "closed" ELSE @]
  /\ UNCHANGED <<senderVars, buffer, header, received>>

\* The user answers the question of UserAction; the thread reads on.
Answered ==
  /\ phase = "asking"
  /\ phase' = "header"
  /\ UNCHANGED <<senderVars, stream, ends, buffer, header, received>>

\* The receiving process ends.
ReceiverCloses ==
  /\ ends[To] # "closed"
  /\ ends' = [ends EXCEPT ![To] = "closed"]
  /\ phase' = "ended" /\ stream' = <<>>
  /\ UNCHANGED <<senderVars, buffer, header, received>>

-----------------------------------------------------------------------------
SomeBytes == 1 .. BufBytes

Next ==
  \/ \E pkt \in Offered : StartPacket(pkt)
  \/ \E n \in SomeBytes : SendSome(n)
  \/ SendInVain \/ SendFails \/ StopSending \/ SenderCloses
  \/ \E n \in SomeBytes : RecvSome(n)
  \/ RecvEnd \/ RecvReset \/ Answered \/ ReceiverCloses

Spec == Init /\ [][Next]_vars

\* Whenever the receive thread is in recv, it goes on by itself.  That its user
\* answers UserAction is not promised.
Receive == (\E n \in SomeBytes : RecvSome(n)) \/ RecvEnd

FairSpec == Spec /\ WF_vars(Receive)

-----------------------------------------------------------------------------
(***************************************************************************)
(* Properties.                                                             *)
(***************************************************************************)
\* However send and recv cut the stream up, the receive thread puts together
\* the packets that were sent, in their order, with every field
\* (api.cpp:129-173, CommunMod.cpp:35-92).
ReceivedIsSent ==
  /\ Len(received) <= Len(sent)
  /\ \A i \in 1 .. Len(received) : received[i] = Raw(sent[i])

\* The peer that is asked sees the size and the name of the file that is
\* offered (CommunMod.cpp:96-136), on hosts of one byte order.
MetadataSurvives ==
  \A i \in 1 .. Len(received) :
    LET pkt == sent[i]
    IN  pkt.type = "FILE_NEG" /\ pkt.ctl = "NO_ARG"
          => DeserializeFileMetadataPacket(HostOrder[To], received[i].body)
               = Meta[pkt.file]

\* The packets on their way: sent, and not yet received.
InTransit ==
  [p \in Peer |->
     IF p = To /\ ends[To] # "closed" /\ ~(phase = "ended" /\ stream = <<>>)
       THEN SubSeq(sent, Len(received) + 1, Len(sent)) ELSE <<>>]

\* The refinement: what Transport says of whole packets holds of the bytes.
\* A packet in transit has at least its last byte in the socket buffers.
Packets == INSTANCE Connection WITH
  wire <- InTransit, sock <- ends, Cap <- BufBytes, taken <- Len(received)

PacketsAreWhole == Packets!ConnectionSpec

\* No reader waits for a byte that nobody sends: each packet arrives, or the
\* receive thread has ended, or it is left in UserAction for ever.
EveryPacketArrives ==
  []<>(phase # "asking") =>
    \A n \in 1 .. Sends :
      Len(sent) >= n ~> Len(received) >= n \/ phase = "ended"
=============================================================================
