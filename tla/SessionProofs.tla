---------------------------- MODULE SessionProofs ----------------------------
(***************************************************************************)
(* Proofs about whole sessions: in which order the frames of a file travel *)
(* (OrderInv), that old files stay as they are (OldInv), and what a copy   *)
(* holds at any moment (ContentInv), from which follows that the transfers *)
(* implement FileCopy.                                                     *)
(***************************************************************************)
EXTENDS AcceptProofs

-----------------------------------------------------------------------------
(***************************************************************************)
(* Steps that the proofs below have in common.                             *)
(***************************************************************************)
\* The process of p ends, but not because it has written to a closed connection.
Ends(p) ==
  \/ p = Client /\ Join
  \/ Leave(p) \/ Kill(p) \/ OfferThrows(p) \/ BeginThrows(p)

LEMMA EndsDies ==
  ASSUME NEW p \in Peer, Ends(p)
  PROVE  /\ \E how \in Ended : Die(p, how)
         /\ UNCHANGED <<fileVars, negotiationVars, sentChunks, lines, credit>>
BY DEF Ends, Join, Leave, Kill, OfferThrows, BeginThrows, Ended

LEMMA NextChunkType ==
  ASSUME TypeOK, NEW p \in Peer
  PROVE  sentChunks[p] + 1 \in Nat
<1>1. sentChunks[p] \in Nat \cup {NotOpen}
  BY DEF TypeOK
<1>. QED  BY <1>1 DEF NotOpen

\* A process that ends loses what was on its way to it, and nothing else.
LEMMA DieLoses ==
  ASSUME WireOK, NEW p \in Peer, NEW how, Die(p, how)
  PROVE  \A r \in Peer : PacketsTo(r)' \subseteq PacketsTo(r)
<1>1. wire' = [wire EXCEPT ![p] = <<>>]
  BY DEF Die, Close
<1>2. /\ PacketsTo(p)' = {}
      /\ PacketsTo(Other(p))' = PacketsTo(Other(p))
  BY <1>1, EmptiedEffect
<1>. QED  BY <1>2, TwoPeers

-----------------------------------------------------------------------------
(***************************************************************************)
(* The order of the frames of a file.                                      *)
(***************************************************************************)
OfFile == {"FILE_BEGIN", "FILE_CHUNK"}

\* A chunk follows the beginning of its file or another chunk, and so does
\* what SendFile sends next.
FramesInOrder ==
  \A p \in Peer :
    /\ \A i \in 1 .. Len(wire[p]) - 1 :
         wire[p][i + 1].type = "FILE_CHUNK" => wire[p][i].type \in OfFile
    /\ mainPc[Other(p)] = "sendChunks" /\ wire[p] # <<>>
         => wire[p][Len(wire[p])].type \in OfFile

\* Nothing is on its way to a closed end.
ClosedIsEmpty == \A p \in Peer : sock[p] = "closed" => wire[p] = <<>>

OrderInv == FramesInOrder /\ ClosedIsEmpty

\* What a step does to the stream towards p: nothing, or one packet is taken,
\* or all are dropped, or the thread that sends to p appends one in its turn.
StreamMoves(p) ==
  LET q == Other(p)
  IN  /\ sock[p] = "closed" => sock'[p] = "closed"
      /\ sock'[p] = "closed" => sock[p] = "closed" \/ wire'[p] = <<>>
      /\ \/ /\ wire'[p] = wire[p]
            /\ mainPc'[q] = "sendChunks"
                 => mainPc[q] = "sendChunks" \/ sock[p] = "closed"
         \/ /\ wire[p] # <<>> /\ wire'[p] = Tail(wire[p])
            /\ recvPc[p] = "recv" /\ recvPc'[p] # "recv"
            /\ mainPc'[q] = mainPc[q]
         \/ /\ wire'[p] = <<>>
            /\ recvPc'[p] = "done" \/ sock'[p] = "closed"
         \/ \E pkt \in Packet :
              /\ wire'[p] = Append(wire[p], pkt) /\ sock[p] # "closed"
              /\ \/ /\ pkt.type = "FILE_BEGIN"
                    /\ mainPc'[q] = "sendChunks"
                 \/ /\ pkt.type = "FILE_CHUNK"
                    /\ mainPc[q] = "sendChunks"
                 \/ /\ pkt.type \notin OfFile
                    /\ mainPc'[q] # "sendChunks"

\* A step that moves every stream as StreamMoves says keeps the order.
LEMMA OrderArgument ==
  ASSUME TypeOK, OrderInv, \A p \in Peer : StreamMoves(p)
  PROVE  OrderInv'
<1>. SUFFICES ASSUME NEW p \in Peer
     PROVE  /\ \A i \in 1 .. Len(wire'[p]) - 1 :
                 wire'[p][i + 1].type = "FILE_CHUNK"
                   => wire'[p][i].type \in OfFile
            /\ mainPc'[Other(p)] = "sendChunks" /\ wire'[p] # <<>>
                 => wire'[p][Len(wire'[p])].type \in OfFile
            /\ sock'[p] = "closed" => wire'[p] = <<>>
  BY DEF OrderInv, FramesInOrder, ClosedIsEmpty
<1>. DEFINE q == Other(p)
            s == wire[p]
<1>1. s \in Seq(Packet)
  BY DEF TypeOK, TransportTypeOK, WireOK
<1>2. /\ \A i \in 1 .. Len(s) - 1 :
           s[i + 1].type = "FILE_CHUNK" => s[i].type \in OfFile
      /\ mainPc[q] = "sendChunks" /\ s # <<>> => s[Len(s)].type \in OfFile
      /\ sock[p] = "closed" => s = <<>>
  BY DEF OrderInv, FramesInOrder, ClosedIsEmpty
<1>3. /\ sock[p] = "closed" => sock'[p] = "closed"
      /\ sock'[p] = "closed" => sock[p] = "closed" \/ wire'[p] = <<>>
  BY DEF StreamMoves
<1>4. CASE /\ wire'[p] = s
           /\ mainPc'[q] = "sendChunks"
                => mainPc[q] = "sendChunks" \/ sock[p] = "closed"
  BY <1>2, <1>3, <1>4
<1>5. CASE /\ s # <<>> /\ wire'[p] = Tail(s)
           /\ mainPc'[q] = mainPc[q]
  <2>1. /\ Len(Tail(s)) = Len(s) - 1 /\ Len(s) \in Nat
        /\ \A i \in 1 .. Len(s) - 1 : Tail(s)[i] = s[i + 1]
        /\ Tail(s) \in Seq(Packet)
    BY <1>1, <1>5, HeadTailProperties
  <2>2. Tail(s) # <<>> => Len(Tail(s)) \in Nat \ {0}
    BY <2>1, EmptySeq
  <2>. HIDE DEF s
  <2>. QED  BY <1>2, <1>3, <1>5, <2>1, <2>2
<1>6. CASE wire'[p] = <<>>
  BY <1>6
<1>7. ASSUME NEW pkt \in Packet,
             wire'[p] = Append(s, pkt), sock[p] # "closed",
             \/ pkt.type = "FILE_BEGIN" /\ mainPc'[q] = "sendChunks"
             \/ pkt.type = "FILE_CHUNK" /\ mainPc[q] = "sendChunks"
             \/ pkt.type \notin OfFile /\ mainPc'[q] # "sendChunks"
      PROVE  /\ \A i \in 1 .. Len(wire'[p]) - 1 :
                  wire'[p][i + 1].type = "FILE_CHUNK"
                    => wire'[p][i].type \in OfFile
             /\ mainPc'[Other(p)] = "sendChunks" /\ wire'[p] # <<>>
                  => wire'[p][Len(wire'[p])].type \in OfFile
             /\ sock'[p] = "closed" => wire'[p] = <<>>
  <2>1. /\ Len(Append(s, pkt)) = Len(s) + 1 /\ Len(s) \in Nat
        /\ \A i \in 1 .. Len(s) : Append(s, pkt)[i] = s[i]
        /\ Append(s, pkt)[Len(s) + 1] = pkt
    BY <1>1, AppendProperties
  <2>2. sock'[p] # "closed"
    <3>1. Append(s, pkt) # <<>>
      BY <1>1, AppendProperties
    <3>. QED  BY <1>3, <1>7, <3>1
  <2>3. Len(s) # 0 => s # <<>>
    OBVIOUS
  <2>. HIDE DEF s
  <2>4. \A i \in 1 .. Len(s) :
          Append(s, pkt)[i + 1].type = "FILE_CHUNK" => s[i].type \in OfFile
    BY <1>2, <1>7, <2>1, <2>3 DEF OfFile
  <2>. QED  BY <1>7, <2>1, <2>2, <2>4 DEF OfFile
<1>. QED  BY <1>4, <1>5, <1>6, <1>7 DEF StreamMoves

\* A step of p's main thread that sends pkt, or tries to.
LEMMA SendMoves ==
  ASSUME TypeOK, NEW p \in Peer, NEW pkt \in Packet,
         NEW ok \in MainPc, NEW err \in MainPc, Send(p, pkt, ok, err),
         err # "sendChunks",
         \/ pkt.type = "FILE_BEGIN" /\ ok = "sendChunks"
         \/ pkt.type = "FILE_CHUNK" /\ mainPc[p] = "sendChunks"
         \/ pkt.type \notin OfFile /\ ok # "sendChunks"
  PROVE  \A r \in Peer : StreamMoves(r)
<1>. DEFINE q == Other(p)
<1>1. q \in Peer /\ q # p /\ Other(q) = p /\ \A r \in Peer : r = p \/ r = q
  BY TwoPeers
<1>. /\ wire \in [Peer -> Seq(Packet)] /\ sock \in [Peer -> SockState]
     /\ mainPc \in [Peer -> MainPc] /\ recvPc \in [Peer -> RecvPc]
  BY DEF TypeOK, TransportTypeOK, WireOK
<1>2. CASE Delivered(p, pkt) /\ MainGoto(p, ok) /\ UNCHANGED <<recvPc, sock>>
  <2>1. /\ wire'[q] = Append(wire[q], pkt) /\ wire'[p] = wire[p]
        /\ sock[q] # "closed"
    BY <1>1, <1>2 DEF Delivered, PeerGone
  <2>2. mainPc'[p] = ok /\ mainPc'[q] = mainPc[q]
    BY <1>1, <1>2 DEF MainGoto
  <2>3. StreamMoves(p)
    BY <1>1, <1>2, <2>1, <2>2 DEF StreamMoves
  <2>4. StreamMoves(q)
    BY <1>1, <1>2, <2>1, <2>2 DEF StreamMoves
  <2>. QED  BY <1>1, <2>3, <2>4
<1>3. CASE /\ \/ Lost(p) /\ MainGoto(p, ok)
              \/ Refused(p) /\ MainGoto(p, err)
           /\ UNCHANGED <<recvPc, sock>>
  <2>1. wire' = wire /\ mainPc'[q] = mainPc[q]
    BY <1>1, <1>3 DEF Lost, Refused, MainGoto
  <2>2. mainPc'[p] = "sendChunks" => sock[q] = "closed"
    BY <1>3 DEF Lost, Refused, MainGoto, PeerGone
  <2>. QED  BY <1>1, <1>3, <2>1, <2>2 DEF StreamMoves
<1>4. CASE Die(p, "sigpipe")
  BY <1>1, <1>4
     DEF Die, Close, MainGoto, RecvGoto, StreamMoves
<1>. QED  BY <1>2, <1>3, <1>4 DEF Send

\* The steps of SendFile and of the other senders append in their turn.
LEMMA SendingMoves ==
  ASSUME TypeOK, NEW p \in Peer,
         \/ p = Server /\ (Announce \/ StopAnnounce)
         \/ SendAccept(p) \/ SendReject(p) \/ SendRequest(p)
         \/ SendBegin(p) \/ SendChunk(p) \/ SendEnd(p) \/ SendText(p)
  PROVE  \A r \in Peer : StreamMoves(r)
<1>1. /\ Text.type \notin OfFile
      /\ \A stray \in StrayCtl : Broadcast(stray).type \notin OfFile
      /\ \A f : Request(f).type \notin OfFile
      /\ \A verdict : Answer(verdict).type \notin OfFile
      /\ \A type : Marker(type).type = type
      /\ \A f, i : ChunkFrame(f, i).type = "FILE_CHUNK"
  BY DEF Text, Broadcast, Request, Answer, Marker, ChunkFrame, OfFile
<1>2. {"loop", "leave", "checkSend", "acceptSent", "rejectSent",
       "dropRequest", "requestSent", "sendChunks", "endSend", "stopShut"}
        \subseteq MainPc
  BY DEF MainPc
<1>3. outgoingFile[p] \in File \cup {NoFile}
  BY DEF TypeOK
<1>4. CASE p = Server /\ (Announce \/ StopAnnounce)
  <2>1. PICK stray \in StrayCtl, pc \in {"loop", "stopShut"} :
          Send(p, Broadcast(stray), pc, pc)
    BY <1>4 DEF Announce, StopAnnounce
  <2>. QED  BY <1>1, <1>2, <2>1, SendMoves, BuiltPackets
<1>5. CASE SendAccept(p)
  BY <1>1, <1>2, <1>5, SendMoves, BuiltPackets DEF SendAccept
<1>6. CASE SendReject(p)
  BY <1>1, <1>2, <1>6, SendMoves, BuiltPackets DEF SendReject
<1>7. CASE SendRequest(p)
  BY <1>1, <1>2, <1>3, <1>7, SendMoves, BuiltPackets DEF SendRequest
<1>8. CASE SendBegin(p)
  BY <1>1, <1>2, <1>8, SendMoves, BuiltPackets DEF SendBegin
<1>9. CASE SendChunk(p)
  <2>1. sentChunks[p] + 1 \in Nat
    BY NextChunkType
  <2>2. ChunkFrame(outgoingFile[p], sentChunks[p] + 1) \in Packet
    BY <1>3, <2>1, BuiltPackets
  <2>. QED  BY <1>1, <1>2, <1>9, <2>2, SendMoves DEF SendChunk
<1>10. CASE SendEnd(p)
  BY <1>1, <1>2, <1>10, SendMoves, BuiltPackets DEF SendEnd, OfFile
<1>11. CASE SendText(p)
  BY <1>1, <1>2, <1>11, SendMoves, BuiltPackets DEF SendText
<1>. QED  BY <1>4, <1>5, <1>6, <1>7, <1>8, <1>9, <1>10, <1>11

\* The steps that leave the streams and the ends of the connection alone and
\* do not enter the loop of SendFile.
LEMMA QuietMoves ==
  ASSUME UNCHANGED <<wire, sock>>,
         \A r \in Peer :
           mainPc'[r] = "sendChunks" => mainPc[r] = "sendChunks"
  PROVE  \A r \in Peer : StreamMoves(r)
BY TwoPeers DEF StreamMoves

\* What p's receive thread takes, it takes from the head.
LEMMA TakeMoves ==
  ASSUME TypeOK, NEW p \in Peer, Takes(p), recvPc[p] = "recv",
         NEW pc, RecvGoto(p, pc), pc # "recv", UNCHANGED <<sock, mainPc>>
  PROVE  \A r \in Peer : StreamMoves(r)
BY DEF RecvGoto, TypeOK, TransportTypeOK, WireOK, StreamMoves, Takes

\* Every step moves the streams so.
LEMMA NextMoves ==
  ASSUME TypeOK, [Next]_vars
  PROVE  \A r \in Peer : StreamMoves(r)
<1>. /\ wire \in [Peer -> Seq(Packet)] /\ sock \in [Peer -> SockState]
     /\ mainPc \in [Peer -> MainPc] /\ recvPc \in [Peer -> RecvPc]
  BY DEF TypeOK, TransportTypeOK, WireOK
<1>. USE DEF negotiationVars, flagVars, transportVars, fileVars
<1>1. ASSUME NEW p \in Peer,
             \/ MainLoop(p) \/ AnswerSent(p) \/ DropRequest(p)
             \/ RequestSent(p) \/ NothingToSend(p) \/ StartSendFile(p)
             \/ CannotSendFile(p) \/ EndSend(p)
             \/ \E name \in Name : PickTarget(p, name)
             \/ CancelSaveDialog(p)
             \/ \E f \in File : PickFile(p, f)
             \/ DeclineFile(p)
      PROVE  \A r \in Peer : StreamMoves(r)
  <2>1. UNCHANGED <<wire, sock>>
    BY <1>1 DEF MainLoop, AnswerSent, DropRequest, RequestSent, NothingToSend,
                StartSendFile, CannotSendFile, EndSend, PickTarget,
                CancelSaveDialog, PickFile, DeclineFile
  <2>2. \E pc \in MainPc \ {"sendChunks"} : MainGoto(p, pc)
    BY <1>1 DEF MainLoop, AnswerSent, DropRequest, RequestSent, NothingToSend,
                StartSendFile, CannotSendFile, EndSend, PickTarget,
                CancelSaveDialog, PickFile, DeclineFile, MainPc
  <2>. QED  BY <2>1, <2>2, QuietMoves DEF MainGoto
<1>2. ASSUME NEW p \in Peer, NEW l \in Line, ReadLine(p, l)
      PROVE  \A r \in Peer : StreamMoves(r)
  <2>1. Dispatch(p, l) # "sendChunks"
    BY DEF Dispatch, ParseCommands, Line
  <2>. QED  BY <1>2, <2>1, QuietMoves DEF ReadLine, MainGoto
<1>3. ASSUME StopShut
      PROVE  \A r \in Peer : StreamMoves(r)
  BY <1>3 DEF StopShut, Shutdown, MainGoto, StreamMoves, Peer, Server,
              Client, Other
<1>4. ASSUME NEW p \in Peer, Ends(p)
      PROVE  \A r \in Peer : StreamMoves(r)
  <2>1. PICK how \in Ended : Die(p, how)
    BY <1>4, EndsDies
  <2>2. how # "sendChunks"
    BY DEF Ended
  <2>. QED  BY <2>1, <2>2, TwoPeers
            DEF Die, Close, MainGoto, RecvGoto, StreamMoves
<1>5. ASSUME NEW p \in Peer,
             \/ \E l \in Line : AskOverwrite(p, l)
             \/ RecvLoop(p) \/ CreateTarget(p)
      PROVE  \A r \in Peer : StreamMoves(r)
  BY <1>5, QuietMoves DEF AskOverwrite, RecvLoop, CreateTarget
<1>6. ASSUME NEW p \in Peer,
             \/ RecvRequest(p) \/ RecvAccept(p) \/ RecvReject(p)
             \/ IgnoreFrame(p) \/ RecvBegin(p) \/ RecvChunk(p) \/ RecvEnd(p)
      PROVE  \A r \in Peer : StreamMoves(r)
  BY <1>6, TakeMoves
     DEF RecvRequest, RecvAccept, RecvReject, IgnoreFrame, RecvBegin,
         RecvChunk, RecvEnd, Receives
<1>7. ASSUME NEW p \in Peer, RecvText(p)
      PROVE  \A r \in Peer : StreamMoves(r)
  <2>1. CASE Close(p) /\ UNCHANGED mainPc
    BY <2>1, TwoPeers DEF Close, StreamMoves
  <2>. QED  BY <1>7, <2>1, TakeMoves DEF RecvText, Receives
<1>8. ASSUME NEW p \in Peer, RecvEof(p)
      PROVE  \A r \in Peer : StreamMoves(r)
  BY <1>8, TwoPeers DEF RecvEof, Shutdown, StreamMoves
<1>9. ASSUME NEW p \in Peer, RecvError(p)
      PROVE  \A r \in Peer : StreamMoves(r)
  BY <1>9, TwoPeers DEF RecvError, Close, RecvGoto, StreamMoves
<1>10. CASE UNCHANGED vars
  BY <1>10, QuietMoves DEF vars
<1>. QED  BY <1>1, <1>2, <1>3, <1>4, <1>5, <1>6, <1>7, <1>8, <1>9, <1>10,
             SendingMoves
          DEF Next, UserStep, MainStep, RecvStep, Ends

-----------------------------------------------------------------------------
(***************************************************************************)
(* Old files.                                                              *)
(***************************************************************************)
\* A user picks at most one target, and nothing is known of it before.
PickedOnce ==
  \A p \in Peer :
    /\ \A l \in Line : lines[p][l] <= Budget[p][l]
    /\ lines[p]["/a"] # 0 => mainPc[p] # "saveDialog"
    /\ lines[p]["/a"] # 0 \/ mainPc[p] = "saveDialog"
         => filePathOnTarget[p] = NoPath

\* p has taken the beginning of a file and more of the file is to come.
MidFile(p) ==
  IF wire[p] = <<>> THEN mainPc[Other(p)] = "sendChunks"
                    ELSE Head(wire[p]).type = "FILE_CHUNK"

NewTarget(p) == filePathOnTarget[p] \notin OldPaths(p)

\* Why no old file is touched while its user has not typed Y: RecvFile is in the
\* middle of a file only if it is still to ask, or the target is a new file,
\* or it takes no notice of the file.
Untouched(p) ==
  /\ \A path \in OldPaths(p) : Written(p, path) = OldContent
  /\ recvPc[p] = "create" => NewTarget(p)
  /\ MidFile(p) /\ recvPc[p] # "done" /\ sock[p] # "closed"
       => recvPc[p] = "askOverwrite" \/ NewTarget(p) \/ ~HandlesFrames(p)

NoYes(p) == lines[p]["Y"] = Budget[p]["Y"]

OldInv == \A p \in Peer : NoYes(p) => Untouched(p)

\* The second packet of a stream is the head of what is left.
LEMMA SecondIsNext ==
  ASSUME NEW S, NEW s \in Seq(S), s # <<>>
  PROVE  /\ Len(s) \in Nat \ {0} /\ Head(s) = s[1]
         /\ Tail(s) = <<>> => Len(s) = 1
         /\ Tail(s) # <<>> => Len(s) >= 2 /\ Head(Tail(s)) = s[2]
<1>1. Len(s) \in Nat \ {0}
  BY EmptySeq
<1>2. /\ Len(Tail(s)) = Len(s) - 1 /\ Tail(s) \in Seq(S)
      /\ \A i \in 1 .. Len(Tail(s)) : Tail(s)[i] = s[i + 1]
  BY HeadTailProperties
<1>3. ASSUME Tail(s) # <<>>
      PROVE  Len(s) >= 2 /\ Head(Tail(s)) = s[2]
  <2>1. Len(Tail(s)) \in Nat \ {0}
    BY <1>2, <1>3, EmptySeq
  <2>2. Head(Tail(s)) = Tail(s)[1]
    BY <1>2, <1>3
  <2>. QED  BY <1>1, <1>2, <2>1, <2>2
<1>4. ASSUME Tail(s) = <<>>
      PROVE  Len(s) = 1
  <2>. DEFINE t == Tail(s)
              n == Len(s)
  <2>1. t = <<>> /\ Len(t) = n - 1 /\ n \in Nat
    BY <1>1, <1>2, <1>4
  <2>. HIDE DEF t, n
  <2>2. n = 1
    BY <2>1, EmptySeq
  <2>. QED  BY <2>2 DEF n
<1>. QED  BY <1>1, <1>3, <1>4

\* Taking a packet leaves p in the middle of a file only if the packet was a
\* part of the file.
LEMMA TakeMidFile ==
  ASSUME TypeOK, OrderInv, NEW p \in Peer, Takes(p),
         mainPc' = mainPc, MidFile(p)'
  PROVE  Head(wire[p]).type \in OfFile
<1>. DEFINE s == wire[p]
<1>1. s \in Seq(Packet) /\ s # <<>> /\ wire'[p] = Tail(s)
  BY DEF TypeOK, TransportTypeOK, WireOK, Takes
<1>2. /\ Len(s) \in Nat \ {0} /\ Head(s) = s[1]
      /\ Tail(s) = <<>> => Len(s) = 1
      /\ Tail(s) # <<>> => Len(s) >= 2 /\ Head(Tail(s)) = s[2]
  BY <1>1, SecondIsNext
<1>3. /\ \A i \in 1 .. Len(s) - 1 :
           s[i + 1].type = "FILE_CHUNK" => s[i].type \in OfFile
      /\ mainPc[Other(p)] = "sendChunks" => s[Len(s)].type \in OfFile
  BY <1>1 DEF OrderInv, FramesInOrder
<1>4. IF Tail(s) = <<>> THEN mainPc[Other(p)] = "sendChunks"
                        ELSE Head(Tail(s)).type = "FILE_CHUNK"
  BY <1>1 DEF MidFile
<1>. HIDE DEF s
<1>5. CASE Tail(s) = <<>>
  BY <1>2, <1>3, <1>4, <1>5 DEF s
<1>6. CASE Tail(s) # <<>>
  <2>1. 1 \in 1 .. Len(s) - 1 /\ s[1 + 1].type = "FILE_CHUNK"
    BY <1>2, <1>4, <1>6
  <2>. QED  BY <1>2, <1>3, <2>1 DEF s
<1>. QED  BY <1>5, <1>6

\* Without a packet taken, p does not come into the middle of a file.
LEMMA KeepMidFile ==
  ASSUME TypeOK, OrderInv, NEW p \in Peer, StreamMoves(p), MidFile(p)',
         recvPc'[p] # "done", sock'[p] # "closed"
  PROVE  \/ MidFile(p)
         \/ recvPc[p] = "recv" /\ recvPc'[p] # "recv"
<1>. DEFINE s == wire[p]
            q == Other(p)
<1>1. s \in Seq(Packet)
  BY DEF TypeOK, TransportTypeOK, WireOK
<1>2. CASE /\ wire'[p] = s
           /\ mainPc'[q] = "sendChunks"
                => mainPc[q] = "sendChunks" \/ sock[p] = "closed"
  BY <1>2 DEF MidFile, StreamMoves
<1>3. ASSUME NEW pkt \in Packet, wire'[p] = Append(s, pkt),
             \/ pkt.type = "FILE_BEGIN" /\ mainPc'[q] = "sendChunks"
             \/ pkt.type = "FILE_CHUNK" /\ mainPc[q] = "sendChunks"
             \/ pkt.type \notin OfFile /\ mainPc'[q] # "sendChunks"
      PROVE  MidFile(p)
  <2>1. /\ Append(s, pkt) # <<>>
        /\ Head(Append(s, pkt)) = IF s = <<>> THEN pkt ELSE Head(s)
    BY <1>1, AppendProperties
  <2>2. Head(wire'[p]).type = "FILE_CHUNK"
    BY <1>3, <2>1 DEF MidFile
  <2>. QED  BY <1>3, <2>1, <2>2 DEF MidFile, OfFile
<1>. QED  BY <1>2, <1>3 DEF StreamMoves

\* Writing to one path leaves the files at the others.
LEMMA WriteKeeps ==
  ASSUME TypeOK, NEW p \in Peer, NEW path, NEW content,
         Write(p, path, content)
  PROVE  /\ \A r \in Peer : r # p => disk'[r] = disk[r]
         /\ \A x : x # path => Written(p, x)' = Written(p, x)
         /\ Written(p, path)' = content
BY DEF TypeOK, FileTypeOK, Write, Written, Exists

\* The path that CanReceiveFiles makes up is no path from the start.
LEMMA FreshIsNew ==
  ASSUME NEW p \in Peer, NEW path \in Path
  PROVE  FreshPath(p, path) \notin OldPaths(p)
<1>1. \A n : Append(path[2], n) # <<>>
  BY DEF Path
<1>. QED  BY <1>1 DEF FreshPath, Copy, OldPaths, Bare

\* The lines that are left only get fewer.
FewerLines ==
  \A p \in Peer : \A l \in Line : lines'[p][l] <= lines[p][l]

LEMMA TakeLineFewer ==
  ASSUME TypeOK, NEW p \in Peer, NEW l \in Line, TakeLine(p, l)
  PROVE  /\ FewerLines
         /\ lines'[p][l] = lines[p][l] - 1
BY DEF TypeOK, TakeLine, FewerLines

\* No step gives a line back.
LEMMA NextFewer ==
  ASSUME TypeOK, [Next]_vars
  PROVE  FewerLines
<1>. lines \in [Peer -> [Line -> Nat]]
  BY DEF TypeOK
<1>1. CASE lines' = lines
  BY <1>1 DEF FewerLines
<1>2. ASSUME NEW p \in Peer, NEW l \in Line, TakeLine(p, l)
      PROVE  FewerLines
  BY <1>2, TakeLineFewer
<1>3. ASSUME NEW p \in Peer, UserStep(p)
      PROVE  FewerLines
  <2>1. "Y" \in Line
    BY DEF Line
  <2>. QED  BY <1>1, <1>2, <1>3, <2>1
            DEF UserStep, ReadLine, AskOverwrite, PickTarget,
                CancelSaveDialog, PickFile, DeclineFile, OfferThrows, Kill
<1>4. ASSUME NEW p \in Peer, MainStep(p) \/ RecvStep(p)
      PROVE  lines' = lines
  BY <1>4
     DEF MainStep, Announce, StopAnnounce, StopShut, Join, MainLoop, Leave,
         SendAccept, SendReject, AnswerSent, DropRequest, SendRequest,
         RequestSent, NothingToSend, StartSendFile, CannotSendFile, SendBegin,
         SendChunk, SendEnd, EndSend, SendText, RecvStep, RecvLoop, RecvText,
         RecvRequest, RecvAccept, RecvReject, IgnoreFrame, RecvBegin,
         BeginThrows, CreateTarget, RecvChunk, RecvEnd, RecvEof, RecvError
<1>. QED  BY <1>1, <1>3, <1>4 DEF Next, vars, userVars

\* The steps of the main threads and of the users, apart from those that the
\* proofs below look at one by one, touch no disk, and the receive threads go
\* on or end with their process.
MainMoves(p) ==
  /\ UNCHANGED <<disk, filePathOnTarget, askedPath>>
  /\ recvPc' = recvPc \/ recvPc' = [recvPc EXCEPT ![p] = "done"]
  /\ \E pc \in MainPc \ {"saveDialog", "openDialog"} : MainGoto(p, pc)

LEMMA NextMain ==
  ASSUME TypeOK, NEW p \in Peer,
         \/ MainStep(p)
         \/ CancelSaveDialog(p) \/ DeclineFile(p) \/ Ends(p)
         \/ \E f \in File : PickFile(p, f)
  PROVE  MainMoves(p) /\ \A r \in Peer : incomingActive'[r] => incomingActive[r]
<1>. incomingActive \in [Peer -> BOOLEAN]
  BY DEF TypeOK
<1>. USE DEF MainPc, Ended, fileVars, negotiationVars
<1>1. ASSUME NEW pkt, NEW ok \in MainPc \ {"saveDialog", "openDialog"},
             NEW err \in MainPc \ {"saveDialog", "openDialog"},
             Send(p, pkt, ok, err),
             UNCHANGED <<disk, filePathOnTarget, askedPath>>
      PROVE  MainMoves(p)
  BY <1>1 DEF Send, Die, RecvGoto, MainMoves
<1>2. CASE \/ p = Server /\ (Announce \/ StopAnnounce)
           \/ SendAccept(p) \/ SendReject(p) \/ SendRequest(p)
           \/ SendBegin(p) \/ SendChunk(p) \/ SendEnd(p) \/ SendText(p)
  BY <1>1, <1>2
     DEF Announce, StopAnnounce, SendAccept, SendReject, SendRequest,
         SendBegin, SendChunk, SendEnd, SendText
<1>3. CASE p = Server /\ StopShut
  BY <1>3 DEF StopShut, MainMoves, MainGoto
<1>4. CASE \/ MainLoop(p) \/ AnswerSent(p) \/ DropRequest(p)
           \/ RequestSent(p) \/ NothingToSend(p) \/ StartSendFile(p)
           \/ CannotSendFile(p) \/ EndSend(p)
           \/ CancelSaveDialog(p) \/ DeclineFile(p)
           \/ \E f \in File : PickFile(p, f)
  BY <1>4
     DEF MainLoop, AnswerSent, DropRequest, RequestSent, NothingToSend,
         StartSendFile, CannotSendFile, EndSend, CancelSaveDialog, PickFile,
         DeclineFile, MainMoves
<1>5. CASE Ends(p)
  BY <1>5, EndsDies DEF Die, RecvGoto, MainMoves
<1>. QED  BY <1>2, <1>3, <1>4, <1>5 DEF MainStep, Ends

\* The user's only /a opens the save dialog, which picks the target.
LEMMA NextPicked ==
  ASSUME Inv, PickedOnce, [Next]_vars,
         \A p \in Peer : Budget[p]["/a"] <= 1
  PROVE  PickedOnce'
<1>. TypeOK /\ lines \in [Peer -> [Line -> Nat]]
     /\ mainPc \in [Peer -> MainPc]
  BY DEF Inv, TypeOK
<1>. Budget \in [Peer -> [Line -> Nat]] /\ "/a" \in Line
  BY BudgetAssumption DEF Line
<1>1. FewerLines
  BY NextFewer
<1>2. lines' \in [Peer -> [Line -> Nat]]
  BY NextInv DEF Inv, TypeOK
<1>3. \A r \in Peer : \A l \in Line : lines'[r][l] <= Budget[r][l]
  BY <1>1, <1>2 DEF FewerLines, PickedOnce
<1>. SUFFICES ASSUME NEW r \in Peer
     PROVE  /\ lines'[r]["/a"] # 0 => mainPc'[r] # "saveDialog"
            /\ lines'[r]["/a"] # 0 \/ mainPc'[r] = "saveDialog"
                 => filePathOnTarget'[r] = NoPath
  BY <1>3 DEF PickedOnce
<1>4. /\ lines[r]["/a"] # 0 => mainPc[r] # "saveDialog"
      /\ lines[r]["/a"] # 0 \/ mainPc[r] = "saveDialog"
           => filePathOnTarget[r] = NoPath
      /\ lines'[r]["/a"] # 0 => lines[r]["/a"] # 0
      /\ lines[r]["/a"] <= 1
  <2>1. lines'[r]["/a"] <= lines[r]["/a"]
    BY <1>1 DEF FewerLines
  <2>. QED  BY <1>2, <2>1 DEF PickedOnce
<1>5. CASE /\ filePathOnTarget' = filePathOnTarget
           /\ mainPc'[r] = "saveDialog" => mainPc[r] = "saveDialog"
  BY <1>4, <1>5
<1>6. ASSUME NEW p \in Peer, NEW l \in Line, ReadLine(p, l)
      PROVE  /\ lines'[r]["/a"] # 0 => mainPc'[r] # "saveDialog"
             /\ lines'[r]["/a"] # 0 \/ mainPc'[r] = "saveDialog"
                  => filePathOnTarget'[r] = NoPath
  <2>1. filePathOnTarget' = filePathOnTarget
    BY <1>6 DEF ReadLine, fileVars
  <2>2. CASE r = p /\ l = "/a"
    <3>1. lines[r]["/a"] # 0 /\ lines'[r]["/a"] = 0
      BY <1>4, <1>6, <2>2 DEF ReadLine, TakeLine
    <3>. QED  BY <1>4, <2>1, <3>1
  <2>3. CASE r = p /\ l # "/a"
    <3>1. Dispatch(p, l) # "saveDialog"
      BY <2>3 DEF Dispatch, ParseCommands, Line
    <3>. QED  BY <1>4, <1>6, <2>1, <2>3, <3>1 DEF ReadLine, MainGoto
  <2>4. CASE r # p
    BY <1>4, <1>6, <2>1, <2>4 DEF ReadLine, MainGoto
  <2>. QED  BY <2>2, <2>3, <2>4
<1>7. ASSUME NEW p \in Peer, NEW l \in Line, AskOverwrite(p, l)
      PROVE  /\ lines'[r]["/a"] # 0 => mainPc'[r] # "saveDialog"
             /\ lines'[r]["/a"] # 0 \/ mainPc'[r] = "saveDialog"
                  => filePathOnTarget'[r] = NoPath
  <2>1. filePathOnTarget[p] # NoPath
    BY <1>7 DEF AskOverwrite, Inv, NothingBeforeTarget
  <2>. QED  BY <1>4, <1>7, <2>1 DEF AskOverwrite, Inv, TypeOK, FileTypeOK
<1>8. ASSUME NEW p \in Peer, NEW name \in Name, PickTarget(p, name)
      PROVE  /\ lines'[r]["/a"] # 0 => mainPc'[r] # "saveDialog"
             /\ lines'[r]["/a"] # 0 \/ mainPc'[r] = "saveDialog"
                  => filePathOnTarget'[r] = NoPath
  BY <1>4, <1>8 DEF PickTarget, MainGoto, Inv, TypeOK, FileTypeOK
<1>9. ASSUME NEW p \in Peer, MainMoves(p)
      PROVE  /\ filePathOnTarget' = filePathOnTarget
             /\ mainPc'[r] = "saveDialog" => mainPc[r] = "saveDialog"
  BY <1>9 DEF MainMoves, MainGoto
<1>10. ASSUME NEW p \in Peer, RecvStep(p), ~BeginThrows(p)
       PROVE  filePathOnTarget' = filePathOnTarget /\ mainPc' = mainPc
  BY <1>10
     DEF RecvStep, RecvLoop, RecvText, RecvRequest, RecvAccept, RecvReject,
         IgnoreFrame, RecvBegin, CreateTarget, RecvChunk, RecvEnd, RecvEof,
         RecvError, fileVars
<1>11. CASE UNCHANGED vars
  BY <1>5, <1>11 DEF vars, fileVars
<1>. QED  BY <1>5, <1>6, <1>7, <1>8, <1>9, <1>10, <1>11, NextMain
          DEF Next, UserStep, Ends

\* A step that leaves the disk and the target of r alone.
LEMMA QuietOld ==
  ASSUME TypeOK, OrderInv, NEW r \in Peer, Untouched(r), StreamMoves(r),
         disk'[r] = disk[r], filePathOnTarget'[r] = filePathOnTarget[r],
         \/ recvPc'[r] \in {recvPc[r], "done"}
         \/ recvPc[r] = "loop" /\ recvPc'[r] = "recv",
         HandlesFrames(r)' => HandlesFrames(r)
  PROVE  Untouched(r)'
<1>1. \A path : Written(r, path)' = Written(r, path)
  BY DEF Written, Exists
<1>2. MidFile(r)' /\ recvPc'[r] # "done" /\ sock'[r] # "closed"
        => MidFile(r) /\ recvPc[r] # "done" /\ sock[r] # "closed"
  BY KeepMidFile DEF StreamMoves
<1>. QED  BY <1>1, <1>2 DEF Untouched, NewTarget

\* r's receive thread takes a packet that is not of a file.
LEMMA TakeOld ==
  ASSUME TypeOK, OrderInv, NEW r \in Peer, Untouched(r), Takes(r),
         UNCHANGED <<disk, filePathOnTarget, mainPc>>,
         Head(wire[r]).type \notin OfFile, recvPc'[r] # "create"
  PROVE  Untouched(r)'
<1>1. ~MidFile(r)'
  BY TakeMidFile
<1>. QED  BY <1>1 DEF Untouched, Written, Exists

\* The receive thread of r itself.
LEMMA RecvOld ==
  ASSUME Inv, OrderInv, NEW r \in Peer, Untouched(r), StreamMoves(r),
         "disk_full" \notin Faults, RecvStep(r), ~BeginThrows(r)
  PROVE  Untouched(r)'
<1>. TypeOK /\ recvPc \in [Peer -> RecvPc] /\ WireOK
     /\ sock \in [Peer -> SockState]
  BY DEF Inv, TypeOK, TransportTypeOK
<1>. USE DEF negotiationVars, fileVars, transportVars
<1>1. CASE RecvLoop(r) \/ RecvEof(r) \/ RecvError(r)
  <2>1. /\ disk' = disk /\ filePathOnTarget' = filePathOnTarget
        /\ HandlesFrames(r)' = HandlesFrames(r)
        /\ \/ recvPc'[r] = "done"
           \/ recvPc[r] = "loop" /\ recvPc'[r] = "recv"
    BY <1>1 DEF RecvLoop, RecvEof, RecvError, RecvGoto, HandlesFrames
  <2>. QED  BY <2>1, QuietOld
<1>2. CASE RecvText(r)
  <2>1. UNCHANGED <<disk, filePathOnTarget, mainPc>> /\ recvPc'[r] = "loop"
    BY <1>2 DEF RecvText, RecvGoto
  <2>2. CASE Close(r)
    BY <2>1, <2>2 DEF Close, Untouched, Written, Exists
  <2>3. CASE Takes(r)
    <3>1. Head(wire[r]).type \notin OfFile
      BY <1>2 DEF RecvText, Receives, OfFile
    <3>. QED  BY <2>1, <2>3, <3>1, TakeOld
  <2>. QED  BY <1>2, <2>2, <2>3 DEF RecvText
<1>3. CASE RecvRequest(r) \/ RecvAccept(r) \/ RecvReject(r) \/ RecvEnd(r)
  <2>1. /\ UNCHANGED <<disk, filePathOnTarget, mainPc>>
        /\ Takes(r) /\ recvPc'[r] = "loop"
    BY <1>3 DEF RecvRequest, RecvAccept, RecvReject, RecvEnd, RecvGoto
  <2>2. Head(wire[r]).type \notin OfFile
    BY <1>3 DEF RecvRequest, RecvAccept, RecvReject, RecvEnd, Receives, OfFile
  <2>. QED  BY <2>1, <2>2, TakeOld
<1>4. CASE IgnoreFrame(r)
  BY <1>4 DEF IgnoreFrame, HandlesFrames, Untouched, Written, Exists,
              NewTarget, RecvGoto
<1>5. CASE RecvBegin(r)
  <2>1. Exists(r, filePathOnTarget[r]) \/ NewTarget(r)
    <3>1. \A path \in OldPaths(r) : Written(r, path) = OldContent
      BY DEF Untouched
    <3>2. OldContent # <<>>
      BY DEF OldContent
    <3>. QED  BY <3>1, <3>2 DEF NewTarget, Written
  <2>2. UNCHANGED <<disk, filePathOnTarget>>
    BY <1>5 DEF RecvBegin
  <2>3. recvPc'[r] = "askOverwrite" \/ NewTarget(r)
    BY <1>5, <2>1 DEF RecvBegin, RecvGoto
  <2>4. recvPc'[r] = "create" => NewTarget(r)
    BY <1>5, <2>1 DEF RecvBegin, RecvGoto
  <2>. QED  BY <2>2, <2>3, <2>4 DEF Untouched, NewTarget, Written, Exists
<1>6. CASE CreateTarget(r)
  <2>1. NewTarget(r) /\ filePathOnTarget' = filePathOnTarget
        /\ recvPc'[r] = "loop"
    BY <1>6 DEF CreateTarget, Untouched, RecvGoto
  <2>2. \A path \in OldPaths(r) : Written(r, path)' = Written(r, path)
    <3>1. CASE Truncate(r, filePathOnTarget[r])
      BY <2>1, <3>1, WriteKeeps DEF Truncate, NewTarget
    <3>2. CASE UNCHANGED disk
      BY <3>2 DEF Written, Exists
    <3>. QED  BY <1>6, <3>1, <3>2 DEF CreateTarget
  <2>. QED  BY <2>1, <2>2 DEF Untouched, NewTarget
<1>7. CASE RecvChunk(r)
  <2>1. MidFile(r) /\ recvPc[r] = "recv" /\ wire[r] # <<>>
    BY <1>7 DEF RecvChunk, Receives, MidFile
  <2>2. sock[r] # "closed"
    BY <2>1 DEF OrderInv, ClosedIsEmpty
  <2>3. NewTarget(r)
    BY <1>7, <2>1, <2>2 DEF RecvChunk, Untouched
  <2>4. filePathOnTarget' = filePathOnTarget /\ recvPc'[r] = "loop"
    BY <1>7 DEF RecvChunk, RecvGoto
  <2>5. \A path \in OldPaths(r) : Written(r, path)' = Written(r, path)
    <3>1. CASE AppendChunk(r, filePathOnTarget[r], Head(wire[r]))
      BY <2>3, <3>1, WriteKeeps DEF AppendChunk, NewTarget
    <3>2. CASE UNCHANGED disk
      BY <3>2 DEF Written, Exists
    <3>. QED  BY <1>7, <3>1, <3>2 DEF RecvChunk
  <2>. QED  BY <2>3, <2>4, <2>5 DEF Untouched, NewTarget
<1>. QED  BY <1>1, <1>2, <1>3, <1>4, <1>5, <1>6, <1>7 DEF RecvStep

\* The answer to the overwrite question: N leads to a new file.
LEMMA AskOld ==
  ASSUME Inv, NEW r \in Peer, Untouched(r), NEW l \in Line \ {"Y"},
         AskOverwrite(r, l)
  PROVE  Untouched(r)'
<1>. TypeOK /\ recvPc \in [Peer -> RecvPc]
     /\ filePathOnTarget \in [Peer -> Path \cup {NoPath}]
  BY DEF Inv, TypeOK, FileTypeOK
<1>1. disk' = disk /\ recvPc[r] = "askOverwrite"
  BY DEF AskOverwrite
<1>2. askedPath[r] \in Path
  BY <1>1 DEF Inv, AskedPathKnown, TypeOK, FileTypeOK
<1>3. IF l = "N" THEN NewTarget(r)' ELSE recvPc'[r] = "askOverwrite"
  BY <1>2, FreshIsNew DEF AskOverwrite, RecvGoto, NewTarget
<1>4. recvPc'[r] \in {"create", "askOverwrite"}
  BY DEF AskOverwrite, RecvGoto
<1>5. l # "N" => filePathOnTarget'[r] = filePathOnTarget[r]
  BY DEF AskOverwrite
<1>. QED  BY <1>1, <1>3, <1>4, <1>5 DEF Untouched, Written, Exists

\* Picking a target: no file is on its way yet.
LEMMA PickOld ==
  ASSUME Inv, OrderInv, PickedOnce, NEW r \in Peer, Untouched(r),
         NEW name \in Name, PickTarget(r, name)
  PROVE  Untouched(r)'
<1>1. filePathOnTarget[r] = NoPath
  BY DEF PickTarget, PickedOnce
<1>2. /\ ~FrameTo(r) /\ recvPc[r] \notin Saving
      /\ mainPc[Other(r)] \notin Sending
  BY <1>1 DEF Inv, NothingBeforeTarget, Saving, Sending
<1>3. UNCHANGED <<disk, wire, recvPc>> /\ mainPc'[Other(r)] = mainPc[Other(r)]
  BY TwoPeers DEF PickTarget, MainGoto, transportVars, Inv, TypeOK
<1>4. ~MidFile(r)'
  <2>1. wire[r] # <<>> => Head(wire[r]) \in PacketsTo(r)
    BY HeadIsMember DEF Inv, TypeOK, TransportTypeOK, WireOK, PacketsTo
  <2>. QED  BY <1>2, <1>3, <2>1 DEF MidFile, FrameTo, FrameType, Sending
<1>. QED  BY <1>2, <1>3, <1>4 DEF Untouched, Written, Exists, Saving

\* No step touches an old file before its user has typed Y.
LEMMA NextOld ==
  ASSUME Inv, OrderInv, PickedOnce, OldInv, [Next]_vars,
         "disk_full" \notin Faults
  PROVE  OldInv'
<1>. TypeOK /\ recvPc \in [Peer -> RecvPc] /\ mainPc \in [Peer -> MainPc]
     /\ incomingActive \in [Peer -> BOOLEAN] /\ "Y" \in Line
     /\ lines \in [Peer -> [Line -> Nat]] /\ lines' \in [Peer -> [Line -> Nat]]
     /\ Budget \in [Peer -> [Line -> Nat]]
  BY NextInv, BudgetAssumption DEF Inv, TypeOK, Line
<1>. SUFFICES ASSUME NEW r \in Peer, NoYes(r)'
     PROVE  Untouched(r)'
  BY DEF OldInv
<1>1. NoYes(r) /\ lines'[r]["Y"] = lines[r]["Y"]
  <2>1. lines'[r]["Y"] <= lines[r]["Y"] /\ lines[r]["Y"] <= Budget[r]["Y"]
    BY NextFewer DEF FewerLines, PickedOnce
  <2>2. lines'[r]["Y"] \in Nat /\ lines[r]["Y"] \in Nat /\ Budget[r]["Y"] \in Nat
    OBVIOUS
  <2>3. lines'[r]["Y"] = Budget[r]["Y"]
    BY DEF NoYes
  <2>4. \A a, b, c \in Nat : a <= b /\ b <= c /\ a = c => b = c
    OBVIOUS
  <2>5. lines[r]["Y"] = Budget[r]["Y"]
    BY <2>1, <2>2, <2>3, <2>4
  <2>. QED  BY <2>3, <2>5 DEF NoYes
<1>2. Untouched(r) /\ StreamMoves(r)
  BY <1>1, NextMoves DEF OldInv
<1>3. ASSUME NEW p \in Peer, MainMoves(p),
             \A x \in Peer : incomingActive'[x] => incomingActive[x]
      PROVE  Untouched(r)'
  <2>1. HandlesFrames(r)' => HandlesFrames(r)
    BY <1>3 DEF HandlesFrames
  <2>2. recvPc'[r] \in {recvPc[r], "done"}
    BY <1>3 DEF MainMoves
  <2>. QED  BY <1>2, <1>3, <2>1, <2>2, QuietOld DEF MainMoves
<1>4. ASSUME NEW p \in Peer, RecvStep(p), ~BeginThrows(p), p # r
      PROVE  Untouched(r)'
  <2>. USE DEF negotiationVars, fileVars, transportVars
  <2>1. recvPc'[r] = recvPc[r] /\ incomingActive'[r] = incomingActive[r]
    BY <1>4
       DEF RecvStep, RecvLoop, RecvText, RecvRequest, RecvAccept, RecvReject,
           IgnoreFrame, RecvBegin, CreateTarget, RecvChunk, RecvEnd, RecvEof,
           RecvError, RecvGoto
  <2>2. filePathOnTarget' = filePathOnTarget
    BY <1>4
       DEF RecvStep, RecvLoop, RecvText, RecvRequest, RecvAccept, RecvReject,
           IgnoreFrame, RecvBegin, CreateTarget, RecvChunk, RecvEnd, RecvEof,
           RecvError
  <2>3. disk'[r] = disk[r]
    <3>1. CASE RecvChunk(p) \/ CreateTarget(p)
      <4>1. \/ disk' = disk
            \/ \E path, content : Write(p, path, content)
        BY <3>1 DEF RecvChunk, CreateTarget, Truncate, AppendChunk
      <4>. QED  BY <1>4, <4>1, WriteKeeps
    <3>. QED  BY <1>4, <3>1
         DEF RecvStep, RecvLoop, RecvText, RecvRequest, RecvAccept,
             RecvReject, IgnoreFrame, RecvBegin, RecvEnd, RecvEof, RecvError
  <2>. QED  BY <1>2, <2>1, <2>2, <2>3, QuietOld DEF HandlesFrames
<1>5. ASSUME NEW p \in Peer, NEW l \in Line, ReadLine(p, l)
      PROVE  Untouched(r)'
  BY <1>2, <1>5, QuietOld
     DEF ReadLine, fileVars, negotiationVars, HandlesFrames
<1>6. ASSUME NEW p \in Peer, NEW l \in Line, AskOverwrite(p, l)
      PROVE  Untouched(r)'
  <2>1. CASE p = r
    <3>1. l # "Y"
      BY <1>1, <1>6, <2>1, TakeLineFewer DEF AskOverwrite
    <3>. QED  BY <1>2, <1>6, <2>1, <3>1, AskOld
  <2>2. CASE p # r
    BY <1>2, <1>6, <2>2, QuietOld
       DEF AskOverwrite, negotiationVars, HandlesFrames, RecvGoto, Inv, TypeOK,
           FileTypeOK
  <2>. QED  BY <2>1, <2>2
<1>7. ASSUME NEW p \in Peer, NEW name \in Name, PickTarget(p, name)
      PROVE  Untouched(r)'
  <2>1. CASE p = r
    BY <1>2, <1>7, <2>1, PickOld
  <2>2. CASE p # r
    BY <1>2, <1>7, <2>2, QuietOld
       DEF PickTarget, negotiationVars, HandlesFrames, Inv, TypeOK, FileTypeOK
  <2>. QED  BY <2>1, <2>2
<1>8. CASE UNCHANGED vars
  BY <1>2, <1>8, QuietOld
     DEF vars, fileVars, negotiationVars, HandlesFrames
<1>. QED  BY <1>2, <1>3, <1>4, <1>5, <1>6, <1>7, <1>8, NextMain, RecvOld
          DEF Next, UserStep, Ends

\* As long as a user never types Y, the files that the disk held from the
\* start keep their content: whatever else the users type, whoever dies and
\* whichever files fail to open, if nobody picks a target twice and
\* CanReceiveFiles never finds the disk too small.
THEOREM OldFilesKeptHolds ==
  ASSUME "disk_full" \notin Faults, \A p \in Peer : Budget[p]["/a"] <= 1
  PROVE  Spec => []OldFilesKept
<1>. DEFINE AllInv == Inv /\ OrderInv /\ PickedOnce /\ OldInv
<1>1. Init => AllInv
  <2>. SUFFICES ASSUME Init PROVE AllInv
    OBVIOUS
  <2>1. Inv
    BY InitInv
  <2>2. /\ \A p \in Peer : wire[p] = <<>> /\ mainPc[p] \in {"announce", "loop"}
        /\ \A p \in Peer : recvPc[p] = "loop" /\ filePathOnTarget[p] = NoPath
        /\ \A p \in Peer : sock[p] = "open"
        /\ \A p \in Peer : disk[p] = [path \in OldPaths(p) |-> OldContent]
        /\ lines = Budget
    BY DEF Init, TransportInit, FileInit
  <2>3. OrderInv
    <3>1. Len(<<>>) = 0
      BY EmptySeq
    <3>. QED  BY <2>2, <3>1, TwoPeers
              DEF OrderInv, FramesInOrder, ClosedIsEmpty
  <2>4. PickedOnce
    BY <2>2, BudgetAssumption DEF PickedOnce
  <2>5. OldInv
    <3>. SUFFICES ASSUME NEW p \in Peer PROVE Untouched(p)
      BY DEF OldInv
    <3>1. \A path \in OldPaths(p) : Written(p, path) = OldContent
      BY <2>2 DEF Written, Exists
    <3>2. mainPc[Other(p)] # "sendChunks"
      BY <2>2, TwoPeers
    <3>3. ~MidFile(p) /\ recvPc[p] # "create"
      BY <2>2, <3>2 DEF MidFile
    <3>. QED  BY <3>1, <3>3 DEF Untouched
  <2>. QED  BY <2>1, <2>3, <2>4, <2>5
<1>2. AllInv /\ [Next]_vars => AllInv'
  <2>. SUFFICES ASSUME AllInv, [Next]_vars PROVE AllInv'
    OBVIOUS
  <2>1. TypeOK
    BY DEF Inv
  <2>2. OrderInv'
    BY <2>1, NextMoves, OrderArgument
  <2>. QED  BY <2>2, NextInv, NextPicked, NextOld
<1>3. AllInv => OldFilesKept
  BY DEF OldInv, NoYes, Untouched, OldFilesKept
<1>. HIDE DEF AllInv
<1>. QED  BY <1>1, <1>2, <1>3, PTL DEF Spec
-----------------------------------------------------------------------------
(***************************************************************************)
(* The content of the copies, for users who offer and accept one file each *)
(* and reject none.  A second /a or /f, and any /r, can spoil a transfer   *)
(* that is under way.                                                      *)
(***************************************************************************)
OneFileEach ==
  \A p \in Peer :
    Budget[p]["/f"] <= 1 /\ Budget[p]["/a"] <= 1 /\ Budget[p]["/r"] = 0

\* RecvFile never fails to open its file nor finds the disk too small.
DiskWorks == "disk_full" \notin Faults /\ "open_fails" \notin Faults

Rejecting == {"sendReject", "rejectSent", "dropRequest"}
IsRejection(pkt) == pkt.type = "FILE_NEG" /\ pkt.ctl = "FILE_REJECT"

\* Nobody rejects, so the request that a user has answered stays active, and
\* the server does not ignore the file (HandlesFrames).
RequestStays ==
  \A p \in Peer :
    /\ mainPc[p] \notin Rejecting
    /\ \A pkt \in PacketsTo(p) : ~IsRejection(pkt)
    /\ mainPc[p] = "saveDialog" \/ filePathOnTarget[p] # NoPath
         => incomingActive[p]

\* A step of p that sends or drops packets, but no rejection.
LEMMA RequestKept ==
  ASSUME RequestStays,
         \A r \in Peer :
           /\ mainPc'[r] \in Rejecting => mainPc[r] \in Rejecting
           /\ \A pkt \in PacketsTo(r)' : IsRejection(pkt) => pkt \in PacketsTo(r)
           /\ mainPc'[r] = "saveDialog" =>
                mainPc[r] = "saveDialog" \/ incomingActive[r]
           /\ filePathOnTarget'[r] # NoPath
                => filePathOnTarget[r] # NoPath \/ mainPc[r] = "saveDialog"
           /\ incomingActive[r] => incomingActive'[r]
  PROVE  RequestStays'
BY DEF RequestStays

\* The steps in which a main thread or a receive thread ends its process, or
\* in which it does not touch the streams at all.
LEMMA RequestMain ==
  ASSUME Inv, PickedOnce, RequestStays, OneFileEach, NEW p \in Peer,
         UserStep(p) \/ MainStep(p) \/ Ends(p)
  PROVE  RequestStays'
<1>. /\ TypeOK /\ WireOK /\ mainPc \in [Peer -> MainPc]
     /\ incomingActive \in [Peer -> BOOLEAN]
     /\ filePathOnTarget \in [Peer -> Path \cup {NoPath}]
     /\ lines \in [Peer -> [Line -> Nat]]
  BY DEF Inv, TypeOK, TransportTypeOK, FileTypeOK
<1>. USE DEF negotiationVars, flagVars, transportVars, fileVars, Rejecting
<1>1. ASSUME NEW pkt \in Packet, NEW ok \in MainPc \ Rejecting,
             NEW err \in MainPc \ Rejecting, Send(p, pkt, ok, err),
             "saveDialog" \notin {ok, err}, ~IsRejection(pkt),
             UNCHANGED <<filePathOnTarget, incomingActive>>
      PROVE  RequestStays'
  <2>1. \A r \in Peer : \A x \in PacketsTo(r)' : x \in PacketsTo(r) \/ x = pkt
    <3>1. /\ PacketsTo(p)' \subseteq PacketsTo(p)
          /\ PacketsTo(Other(p))' \subseteq PacketsTo(Other(p)) \cup {pkt}
      BY <1>1, SendEffect
    <3>. QED  BY <3>1, TwoPeers
  <2>2. \E pc \in {ok, err, "sigpipe"} : mainPc' = [mainPc EXCEPT ![p] = pc]
    BY <1>1, SendEffect
  <2>. QED  BY <1>1, <2>1, <2>2, RequestKept
<1>2. CASE \/ p = Server /\ (Announce \/ StopAnnounce)
           \/ SendAccept(p) \/ SendRequest(p)
           \/ SendBegin(p) \/ SendChunk(p) \/ SendEnd(p) \/ SendText(p)
  <2>1. /\ \A stray \in StrayCtl : ~IsRejection(Broadcast(stray))
        /\ ~IsRejection(Text) /\ ~IsRejection(Answer("FILE_ACCEPT"))
        /\ \A f : ~IsRejection(Request(f))
        /\ \A type \in FrameType : ~IsRejection(Marker(type))
        /\ \A f, i : ~IsRejection(ChunkFrame(f, i))
    BY DEF IsRejection, Broadcast, Text, Answer, Request, Marker, ChunkFrame,
           FrameType
  <2>2. {"loop", "leave", "checkSend", "acceptSent", "requestSent",
         "sendChunks", "endSend", "stopShut"} \subseteq MainPc \ Rejecting
    BY DEF MainPc
  <2>3. outgoingFile[p] \in File \cup {NoFile}
    BY DEF TypeOK
  <2>4. SendChunk(p)
          => ChunkFrame(outgoingFile[p], sentChunks[p] + 1) \in Packet
    <3>1. sentChunks[p] + 1 \in Nat
      BY NextChunkType
    <3>. QED  BY <2>3, <3>1, BuiltPackets
  <2>5. UNCHANGED <<filePathOnTarget, incomingActive>>
    BY <1>2 DEF Announce, StopAnnounce, SendAccept, SendRequest, SendBegin,
                SendChunk, SendEnd, SendText
  <2>. HIDE DEF Rejecting
  <2>6. CASE p = Server /\ (Announce \/ StopAnnounce)
    <3>1. PICK stray \in StrayCtl, pc \in {"loop", "stopShut"} :
            Send(p, Broadcast(stray), pc, pc)
      BY <2>6 DEF Announce, StopAnnounce
    <3>2. Broadcast(stray) \in Packet
      BY BuiltPackets
    <3>. QED  BY <1>1, <2>1, <2>2, <2>5, <3>1, <3>2
  <2>7. CASE SendAccept(p)
    BY <1>1, <2>1, <2>2, <2>5, <2>7, BuiltPackets
       DEF SendAccept
  <2>8. CASE SendRequest(p)
    BY <1>1, <2>1, <2>2, <2>3, <2>5, <2>8, BuiltPackets
       DEF SendRequest
  <2>9. CASE SendBegin(p)
    BY <1>1, <2>1, <2>2, <2>5, <2>9, BuiltPackets
       DEF SendBegin, FrameType
  <2>10. CASE SendChunk(p)
    BY <1>1, <2>1, <2>2, <2>4, <2>5, <2>10, BuiltPackets
       DEF SendChunk
  <2>11. CASE SendEnd(p)
    BY <1>1, <2>1, <2>2, <2>5, <2>11, BuiltPackets
       DEF SendEnd, FrameType
  <2>12. CASE SendText(p)
    BY <1>1, <2>1, <2>2, <2>5, <2>12, BuiltPackets
       DEF SendText
  <2>. QED  BY <1>2, <2>6, <2>7, <2>8, <2>9, <2>10, <2>11, <2>12
<1>3. CASE SendReject(p) \/ DropRequest(p)
  BY <1>3 DEF SendReject, DropRequest, RequestStays
<1>4. CASE Ends(p)
  <2>1. PICK how \in Ended : Die(p, how)
    BY <1>4, EndsDies
  <2>2. \A r \in Peer : PacketsTo(r)' \subseteq PacketsTo(r)
    BY <2>1, DieLoses
  <2>3. UNCHANGED <<filePathOnTarget, incomingActive>>
    BY <1>4, EndsDies
  <2>. QED  BY <2>1, <2>2, <2>3, RequestKept DEF Die, MainGoto, Ended
<1>5. ASSUME UNCHANGED <<wire, incomingActive>>,
             NEW pc \in MainPc \ Rejecting, MainGoto(p, pc),
             pc = "saveDialog" => incomingActive[p],
             filePathOnTarget' = filePathOnTarget \/ mainPc[p] = "saveDialog",
             \A r \in Peer : r # p => filePathOnTarget'[r] = filePathOnTarget[r]
      PROVE  RequestStays'
  BY <1>5, RequestKept DEF MainGoto, PacketsTo
<1>6. CASE \/ p = Server /\ StopShut
           \/ MainLoop(p) \/ AnswerSent(p) \/ RequestSent(p)
           \/ NothingToSend(p) \/ StartSendFile(p) \/ CannotSendFile(p)
           \/ EndSend(p) \/ CancelSaveDialog(p) \/ DeclineFile(p)
           \/ \E f \in File : PickFile(p, f)
           \/ \E name \in Name : PickTarget(p, name)
  <2>1. mainPc[p] # "rejectSent"
    BY DEF RequestStays
  <2>2. /\ UNCHANGED <<wire, incomingActive>>
        /\ filePathOnTarget' = filePathOnTarget \/ mainPc[p] = "saveDialog"
        /\ \A r \in Peer : r # p => filePathOnTarget'[r] = filePathOnTarget[r]
    BY <1>6
       DEF StopShut, MainLoop, AnswerSent, RequestSent, NothingToSend,
           StartSendFile, CannotSendFile, EndSend, CancelSaveDialog,
           DeclineFile, PickFile, PickTarget
  <2>3. \E pc \in MainPc \ Rejecting : MainGoto(p, pc) /\ pc # "saveDialog"
    BY <1>6, <2>1
       DEF StopShut, MainLoop, AnswerSent, RequestSent, NothingToSend,
           StartSendFile, CannotSendFile, EndSend, CancelSaveDialog,
           DeclineFile, PickFile, PickTarget, MainPc
  <2>. QED  BY <1>5, <2>2, <2>3
<1>7. ASSUME NEW l \in Line, ReadLine(p, l)
      PROVE  RequestStays'
  <2>1. l # "/r"
    <3>1. "/r" \in Line /\ lines[p]["/r"] <= Budget[p]["/r"]
      BY DEF PickedOnce, Line
    <3>2. lines[p]["/r"] <= 0
      BY <3>1 DEF OneFileEach
    <3>. QED  BY <1>7, <3>1, <3>2 DEF ReadLine, TakeLine
  <2>2. /\ Dispatch(p, l) \in MainPc \ Rejecting
        /\ Dispatch(p, l) = "saveDialog" => incomingActive[p]
    BY <2>1 DEF Dispatch, ParseCommands, Line, MainPc
  <2>. QED  BY <1>5, <1>7, <2>2 DEF ReadLine
<1>8. ASSUME NEW l \in Line, AskOverwrite(p, l)
      PROVE  RequestStays'
  <2>1. filePathOnTarget[p] # NoPath
    BY <1>8 DEF AskOverwrite, Inv, NothingBeforeTarget
  <2>. QED  BY <1>8, <2>1, RequestKept DEF AskOverwrite, PacketsTo
<1>. QED  BY <1>2, <1>3, <1>4, <1>6, <1>7, <1>8 DEF UserStep, MainStep, Ends

\* Of the receive threads only RecvReject drops a request, and nothing
\* rejects.
LEMMA NextRequest ==
  ASSUME Inv, PickedOnce, RequestStays, OneFileEach, [Next]_vars
  PROVE  RequestStays'
<1>. /\ TypeOK /\ WireOK /\ incomingActive \in [Peer -> BOOLEAN]
  BY DEF Inv, TypeOK, TransportTypeOK
<1>. USE DEF negotiationVars, flagVars, transportVars, fileVars
<1>1. ASSUME UNCHANGED <<mainPc, filePathOnTarget>>,
             \A r \in Peer : PacketsTo(r)' \subseteq PacketsTo(r),
             \A r \in Peer : incomingActive[r] => incomingActive'[r]
      PROVE  RequestStays'
  BY <1>1, RequestKept
<1>2. ASSUME NEW p \in Peer, RecvStep(p), ~BeginThrows(p)
      PROVE  RequestStays'
  <2>1. UNCHANGED <<mainPc, filePathOnTarget>>
    BY <1>2
       DEF RecvStep, RecvLoop, RecvText, RecvRequest, RecvAccept, RecvReject,
           IgnoreFrame, RecvBegin, CreateTarget, RecvChunk, RecvEnd, RecvEof,
           RecvError
  <2>2. \A r \in Peer : PacketsTo(r)' \subseteq PacketsTo(r)
    <3>1. \/ wire' = wire \/ Takes(p)
          \/ wire' = [wire EXCEPT ![p] = <<>>]
      BY <1>2
         DEF RecvStep, RecvLoop, RecvText, RecvRequest, RecvAccept,
             RecvReject, IgnoreFrame, RecvBegin, CreateTarget, RecvChunk,
             RecvEnd, RecvEof, RecvError, Close
    <3>2. wire' = wire => \A r \in Peer : PacketsTo(r)' = PacketsTo(r)
      BY DEF PacketsTo
    <3>. QED  BY <3>1, <3>2, TakesEffect, EmptiedEffect, TwoPeers
  <2>3. ~RecvReject(p)
    <3>1. wire[p] # <<>> => Head(wire[p]) \in PacketsTo(p)
      BY HeadIsMember DEF WireOK, PacketsTo
    <3>. QED  BY <3>1 DEF RecvReject, Receives, Takes, RequestStays,
                          IsRejection
  <2>4. \A r \in Peer : incomingActive[r] => incomingActive'[r]
    BY <1>2, <2>3
       DEF RecvStep, RecvLoop, RecvText, RecvRequest, RecvAccept, IgnoreFrame,
           RecvBegin, CreateTarget, RecvChunk, RecvEnd, RecvEof, RecvError
  <2>. QED  BY <1>1, <2>1, <2>2, <2>4
<1>3. CASE UNCHANGED vars
  BY <1>1, <1>3 DEF vars, PacketsTo
<1>. QED  BY <1>2, <1>3, RequestMain DEF Next, Ends

\* A user offers at most one file: until then nothing of an offer is there,
\* and afterwards OutgoingFileRequest is the file offered.
Offering == {"sendRequest", "requestSent"} \cup Sending

Unoffered(q) ==
  /\ ~activeFileNegReq[q] /\ ~fileSendInProgress[q]
  /\ sentChunks[q] = NotOpen /\ mainPc[q] \notin Offering

OfferedOnce ==
  \A q \in Peer :
    /\ lines[q]["/f"] # 0 => mainPc[q] # "openDialog"
    /\ lines[q]["/f"] # 0 \/ mainPc[q] = "openDialog" => Unoffered(q)
    /\ Unoffered(q) \/ outgoingFile[q] \in File

\* What all steps but PickFile do to r: an offer goes on from what it was.
OfferGoesOn(r) ==
  /\ activeFileNegReq'[r] => activeFileNegReq[r] \/ mainPc[r] = "requestSent"
  /\ fileSendInProgress'[r] => fileSendInProgress[r] \/ activeFileNegReq[r]
  /\ sentChunks'[r] # NotOpen
       => sentChunks[r] # NotOpen \/ mainPc[r] \in Sending
  /\ mainPc'[r] \in Offering
       => mainPc[r] \in Offering \/ fileSendInProgress[r]
  /\ outgoingFile'[r] = outgoingFile[r]

\* The open dialog takes r's only /f.
AsksOnce(r) ==
  mainPc'[r] = "openDialog" =>
    \/ mainPc[r] = "openDialog"
    \/ lines[r]["/f"] # 0 /\ lines'[r]["/f"] = 0

\* An offer that goes on is still the only one.
LEMMA OfferKept ==
  ASSUME TypeOK, TypeOK', OfferedOnce, FewerLines,
         \A r \in Peer : OfferGoesOn(r), \A r \in Peer : AsksOnce(r)
  PROVE  OfferedOnce'
<1>. SUFFICES ASSUME NEW r \in Peer
     PROVE  /\ lines'[r]["/f"] # 0 => mainPc'[r] # "openDialog"
            /\ lines'[r]["/f"] # 0 \/ mainPc'[r] = "openDialog" => Unoffered(r)'
            /\ Unoffered(r)' \/ outgoingFile'[r] \in File
  BY DEF OfferedOnce
<1>1. Unoffered(r) => Unoffered(r)'
  BY DEF Unoffered, OfferGoesOn, Offering
<1>2. lines'[r]["/f"] # 0 => lines[r]["/f"] # 0
  <2>1. "/f" \in Line
    BY DEF Line
  <2>2. lines'[r]["/f"] \in Nat /\ lines[r]["/f"] \in Nat
    BY <2>1 DEF TypeOK
  <2>3. lines'[r]["/f"] <= lines[r]["/f"]
    BY <2>1 DEF FewerLines
  <2>. QED  BY <2>2, <2>3
<1>. QED  BY <1>1, <1>2 DEF OfferedOnce, OfferGoesOn, AsksOnce

\* A step of p's main thread that only moves it.
LEMMA OfferMain ==
  ASSUME TypeOK, NEW p \in Peer,
         \/ MainStep(p) \/ CancelSaveDialog(p) \/ DeclineFile(p) \/ Ends(p)
         \/ \E l \in Line : ReadLine(p, l) \/ AskOverwrite(p, l)
         \/ \E name \in Name : PickTarget(p, name)
  PROVE  \A r \in Peer : OfferGoesOn(r)
<1>. /\ mainPc \in [Peer -> MainPc] /\ activeFileNegReq \in [Peer -> BOOLEAN]
     /\ fileSendInProgress \in [Peer -> BOOLEAN]
     /\ sentChunks \in [Peer -> Nat \cup {NotOpen}]
  BY DEF TypeOK
<1>. USE DEF negotiationVars, Offering, Sending, Ended
<1>1. ASSUME UNCHANGED negotiationVars,
             NEW pc, MainGoto(p, pc),
             pc \in Offering
               => mainPc[p] \in Offering \/ fileSendInProgress[p],
             \A r \in Peer : sentChunks'[r] # NotOpen =>
               sentChunks[r] # NotOpen \/ (r = p /\ mainPc[r] \in Sending)
      PROVE  \A r \in Peer : OfferGoesOn(r)
  BY <1>1 DEF MainGoto, OfferGoesOn
<1>2. ASSUME NEW pkt, NEW ok, NEW err, Send(p, pkt, ok, err)
      PROVE  \E pc \in {ok, err, "sigpipe"} : MainGoto(p, pc)
  BY <1>2 DEF Send, Die
<1>3. CASE \/ p = Server /\ (Announce \/ StopAnnounce)
           \/ SendAccept(p) \/ SendReject(p) \/ SendRequest(p) \/ SendEnd(p)
           \/ SendText(p)
  <2>1. UNCHANGED <<negotiationVars, sentChunks>>
    BY <1>3 DEF Announce, StopAnnounce, SendAccept, SendReject, SendRequest,
                SendEnd, SendText
  <2>2. \E pc : /\ MainGoto(p, pc)
                /\ pc \in Offering => mainPc[p] \in Offering
    BY <1>2, <1>3 DEF Announce, StopAnnounce, SendAccept, SendReject,
                SendRequest, SendEnd, SendText
  <2>. QED  BY <1>1, <2>1, <2>2
<1>4. CASE SendBegin(p) \/ SendChunk(p)
  <2>1. UNCHANGED negotiationVars /\ mainPc[p] \in Sending
        /\ \A r \in Peer : r # p => sentChunks'[r] = sentChunks[r]
    BY <1>4 DEF SendBegin, SendChunk
  <2>2. \E pc : MainGoto(p, pc)
    BY <1>2, <1>4 DEF SendBegin, SendChunk
  <2>. QED  BY <1>1, <2>1, <2>2
<1>5. CASE \/ p = Server /\ StopShut
           \/ Ends(p) \/ MainLoop(p)
           \/ NothingToSend(p) \/ CannotSendFile(p)
           \/ CancelSaveDialog(p) \/ DeclineFile(p)
           \/ \E name \in Name : PickTarget(p, name)
  <2>1. UNCHANGED <<negotiationVars, sentChunks>>
    BY <1>5, EndsDies
       DEF StopShut, MainLoop, NothingToSend, CannotSendFile,
           CancelSaveDialog, DeclineFile, PickTarget
  <2>2. \E pc : MainGoto(p, pc) /\ pc \notin Offering
    BY <1>5, EndsDies
       DEF StopShut, Die, MainLoop, NothingToSend, CannotSendFile,
           CancelSaveDialog, DeclineFile, PickTarget
  <2>. QED  BY <1>1, <2>1, <2>2
<1>6. CASE AnswerSent(p) \/ RequestSent(p) \/ EndSend(p) \/ DropRequest(p)
  <2>1. UNCHANGED <<sentChunks, outgoingFile>>
        /\ \E pc : MainGoto(p, pc) /\ pc \notin Offering
    BY <1>6 DEF AnswerSent, RequestSent, EndSend, DropRequest
  <2>2. /\ \A r \in Peer : activeFileNegReq'[r]
             => activeFileNegReq[r] \/ mainPc[r] = "requestSent"
        /\ \A r \in Peer : fileSendInProgress'[r] => fileSendInProgress[r]
    BY <1>6 DEF AnswerSent, RequestSent, EndSend, DropRequest
  <2>. QED  BY <2>1, <2>2 DEF MainGoto, OfferGoesOn
<1>7. CASE StartSendFile(p)
  BY <1>1, <1>7 DEF StartSendFile
<1>8. ASSUME NEW l \in Line, ReadLine(p, l)
      PROVE  \A r \in Peer : OfferGoesOn(r)
  <2>1. Dispatch(p, l) \notin Offering
    BY DEF Dispatch, ParseCommands, Line
  <2>. QED  BY <1>1, <1>8, <2>1 DEF ReadLine
<1>9. ASSUME NEW l \in Line, AskOverwrite(p, l)
      PROVE  \A r \in Peer : OfferGoesOn(r)
  BY <1>9 DEF AskOverwrite, OfferGoesOn
<1>. QED  BY <1>3, <1>4, <1>5, <1>6, <1>7, <1>8, <1>9 DEF MainStep, Ends

\* Every step goes on with an offer or makes the only one.
LEMMA NextOffered ==
  ASSUME TypeOK, TypeOK', PickedOnce, OfferedOnce, OneFileEach, [Next]_vars
  PROVE  OfferedOnce'
<1>. /\ mainPc \in [Peer -> MainPc] /\ activeFileNegReq \in [Peer -> BOOLEAN]
     /\ fileSendInProgress \in [Peer -> BOOLEAN]
     /\ lines \in [Peer -> [Line -> Nat]] /\ "/f" \in Line /\ "Y" \in Line
     /\ outgoingFile \in [Peer -> File \cup {NoFile}]
  BY DEF TypeOK, Line
<1>. USE DEF negotiationVars
<1>1. FewerLines
  BY NextFewer
<1>2. ASSUME NEW p \in Peer,
             \/ MainStep(p) \/ CancelSaveDialog(p) \/ DeclineFile(p) \/ Ends(p)
             \/ \E l \in Line : AskOverwrite(p, l)
             \/ \E name \in Name : PickTarget(p, name)
      PROVE  OfferedOnce'
  <2>1. \A r \in Peer : AsksOnce(r)
    <3>1. CASE \/ \E l \in Line : AskOverwrite(p, l)
               \/ \E name \in Name : PickTarget(p, name)
      BY <3>1 DEF AskOverwrite, PickTarget, MainGoto, AsksOnce
    <3>2. CASE \/ MainStep(p) \/ CancelSaveDialog(p) \/ DeclineFile(p)
               \/ Ends(p)
      <4>1. MainMoves(p)
        BY <3>2, NextMain
      <4>. QED  BY <4>1 DEF MainMoves, MainGoto, AsksOnce
    <3>. QED  BY <1>2, <3>1, <3>2
  <2>. QED  BY <1>1, <1>2, <2>1, OfferMain, OfferKept
<1>3. ASSUME NEW p \in Peer, NEW l \in Line, ReadLine(p, l)
      PROVE  OfferedOnce'
  <2>1. l = "/f" => lines[p]["/f"] # 0 /\ lines'[p]["/f"] = 0
    <3>1. lines[p]["/f"] <= Budget[p]["/f"] /\ Budget[p]["/f"] <= 1
      BY DEF PickedOnce, OneFileEach
    <3>2. lines[p]["/f"] \in Nat /\ Budget[p]["/f"] \in Nat
      BY BudgetAssumption
    <3>3. lines[p]["/f"] <= 1
      BY <3>1, <3>2
    <3>. QED  BY <1>3, <3>2, <3>3 DEF ReadLine, TakeLine
  <2>2. Dispatch(p, l) = "openDialog" => l = "/f"
    BY DEF Dispatch, ParseCommands, Line
  <2>3. \A r \in Peer : AsksOnce(r)
    BY <1>3, <2>1, <2>2 DEF ReadLine, MainGoto, AsksOnce
  <2>. QED  BY <1>1, <1>3, <2>3, OfferMain, OfferKept
<1>4. ASSUME NEW p \in Peer, NEW f \in File, PickFile(p, f)
      PROVE  OfferedOnce'
  <2>1. mainPc[p] = "openDialog" /\ lines[p]["/f"] = 0
    BY <1>4 DEF PickFile, OfferedOnce
  <2>2. \A r \in Peer : lines'[r]["/f"] = lines[r]["/f"]
    BY <1>4 DEF PickFile, TakeLine
  <2>3. mainPc'[p] = "sendRequest" /\ outgoingFile'[p] = f
    BY <1>4 DEF PickFile, MainGoto
  <2>4. \A r \in Peer : r # p =>
          /\ mainPc'[r] = mainPc[r] /\ outgoingFile'[r] = outgoingFile[r]
          /\ activeFileNegReq'[r] = activeFileNegReq[r]
          /\ fileSendInProgress'[r] = fileSendInProgress[r]
          /\ sentChunks'[r] = sentChunks[r]
    BY <1>4 DEF PickFile, MainGoto
  <2>. QED  BY <2>1, <2>2, <2>3, <2>4 DEF OfferedOnce, Unoffered
<1>5. ASSUME NEW p \in Peer, RecvStep(p), ~BeginThrows(p)
      PROVE  OfferedOnce'
  <2>1. UNCHANGED <<mainPc, sentChunks, outgoingFile>>
    BY <1>5
       DEF RecvStep, RecvLoop, RecvText, RecvRequest, RecvAccept, RecvReject,
           IgnoreFrame, RecvBegin, CreateTarget, RecvChunk, RecvEnd, RecvEof,
           RecvError
  <2>2. \A r \in Peer :
          /\ activeFileNegReq'[r] => activeFileNegReq[r]
          /\ fileSendInProgress'[r]
               => fileSendInProgress[r] \/ activeFileNegReq[r]
    BY <1>5
       DEF RecvStep, RecvLoop, RecvText, RecvRequest, RecvAccept, RecvReject,
           IgnoreFrame, RecvBegin, CreateTarget, RecvChunk, RecvEnd, RecvEof,
           RecvError
  <2>3. \A r \in Peer : OfferGoesOn(r) /\ AsksOnce(r)
    BY <2>1, <2>2 DEF OfferGoesOn, AsksOnce
  <2>. QED  BY <1>1, <2>3, OfferKept
<1>6. CASE UNCHANGED vars
  <2>1. \A r \in Peer : OfferGoesOn(r) /\ AsksOnce(r)
    BY <1>6 DEF vars, OfferGoesOn, AsksOnce
  <2>. QED  BY <1>1, <2>1, OfferKept
<1>. QED  BY <1>2, <1>3, <1>4, <1>5, <1>6 DEF Next, UserStep, Ends

\* A user who answers at most one request lets the peer begin at most one
\* file: the answer still to be typed, still to be sent, sent and not used,
\* and used are one.
Begun(q) == sentChunks[q] # NotOpen \/ mainPc[q] \in Sending
Answering == {"saveDialog", "sendAccept"}

BegunOnce ==
  \A p \in Peer :
    LET q == Other(p)
        answers == lines[p]["/a"] + (IF mainPc[p] \in Answering THEN 1 ELSE 0)
    IN  answers + credit[q] + (IF Begun(q) THEN 1 ELSE 0) <= 1

\* Every step passes the answer on, or uses it up.
LEMMA NextBegun ==
  ASSUME TypeOK, TypeOK', BegunOnce, [Next]_vars
  PROVE  BegunOnce'
<1>. /\ mainPc \in [Peer -> MainPc] /\ credit \in [Peer -> Int]
     /\ sentChunks \in [Peer -> Nat \cup {NotOpen}]
     /\ lines \in [Peer -> [Line -> Nat]] /\ "/a" \in Line
     /\ credit' \in [Peer -> Int] /\ lines' \in [Peer -> [Line -> Nat]]
  BY DEF TypeOK, Line
<1>. USE DEF Answering
<1>1. FewerLines
  BY NextFewer
<1>2. \A p \in Peer : lines'[p]["/a"] <= lines[p]["/a"]
  BY <1>1 DEF FewerLines
<1>3. ASSUME credit' = credit,
             \A r \in Peer : Begun(r)' => Begun(r),
             \A r \in Peer : mainPc'[r] \in Answering => mainPc[r] \in Answering
      PROVE  BegunOnce'
  <2>. SUFFICES ASSUME NEW p \in Peer
       PROVE  lines'[p]["/a"] + (IF mainPc'[p] \in Answering THEN 1 ELSE 0)
                + credit'[Other(p)] + (IF Begun(Other(p))' THEN 1 ELSE 0) <= 1
    BY DEF BegunOnce
  <2>1. lines[p]["/a"] + (IF mainPc[p] \in Answering THEN 1 ELSE 0)
          + credit[Other(p)] + (IF Begun(Other(p)) THEN 1 ELSE 0) <= 1
    BY DEF BegunOnce
  <2>2. Other(p) \in Peer
    BY TwoPeers
  <2>3. /\ Begun(Other(p))' => Begun(Other(p))
        /\ mainPc'[p] \in Answering => mainPc[p] \in Answering
        /\ credit'[Other(p)] = credit[Other(p)]
    BY <1>3, <2>2
  <2>. HIDE DEF Answering
  <2>. QED  BY <1>2, <2>1, <2>2, <2>3
<1>4. ASSUME NEW p \in Peer, MainStep(p), ~SendAccept(p), ~StartSendFile(p)
      PROVE  BegunOnce'
  <2>1. credit' = credit
    BY <1>4
       DEF MainStep, Announce, StopAnnounce, StopShut, Join, MainLoop, Leave,
           SendReject, AnswerSent, DropRequest, SendRequest, RequestSent,
           NothingToSend, CannotSendFile, SendBegin, SendChunk, SendEnd,
           EndSend, SendText
  <2>3. /\ mainPc'[p] \notin Answering
        /\ mainPc'[p] \in Sending => mainPc[p] \in Sending
    <3>. USE DEF Sending, Ended
    <3>1. CASE \/ p = Server /\ (Announce \/ StopAnnounce)
               \/ SendReject(p) \/ SendRequest(p) \/ SendBegin(p)
               \/ SendChunk(p) \/ SendEnd(p) \/ SendText(p)
      BY <3>1 DEF Announce, StopAnnounce, SendReject, SendRequest, SendBegin,
                  SendChunk, SendEnd, SendText, Send, Die, MainGoto
    <3>2. CASE \/ p = Server /\ StopShut
               \/ p = Client /\ Join
               \/ MainLoop(p) \/ Leave(p) \/ AnswerSent(p) \/ DropRequest(p)
               \/ RequestSent(p) \/ NothingToSend(p) \/ CannotSendFile(p)
               \/ EndSend(p)
      BY <3>2 DEF StopShut, Join, Die, MainLoop, Leave, AnswerSent,
                  DropRequest, RequestSent, NothingToSend, CannotSendFile,
                  EndSend, MainGoto
    <3>. QED  BY <1>4, <3>1, <3>2 DEF MainStep
  <2>4. \A r \in Peer : OfferGoesOn(r)
    BY <1>4, OfferMain
  <2>5. \A r \in Peer : r # p => mainPc'[r] = mainPc[r]
    <3>1. MainMoves(p)
      BY <1>4, NextMain
    <3>. QED  BY <3>1 DEF MainMoves, MainGoto
  <2>. QED  BY <1>3, <2>1, <2>3, <2>4, <2>5 DEF Begun, OfferGoesOn
<1>5. ASSUME NEW p \in Peer, SendAccept(p)
      PROVE  BegunOnce'
  <2>1. mainPc'[p] \notin Answering \cup Sending /\ mainPc[p] = "sendAccept"
        /\ \A r \in Peer : r # p => mainPc'[r] = mainPc[r]
    BY <1>5 DEF SendAccept, Send, Die, MainGoto, Sending
  <2>2. lines' = lines /\ sentChunks' = sentChunks
        /\ credit'[Other(p)] = credit[Other(p)] + 1
        /\ credit'[p] = credit[p]
    BY <1>5, TwoPeers DEF SendAccept
  <2>3. \A r \in Peer : Begun(r)' => Begun(r)
    BY <2>1, <2>2 DEF Begun
  <2>. SUFFICES ASSUME NEW r \in Peer
       PROVE  lines'[r]["/a"] + (IF mainPc'[r] \in Answering THEN 1 ELSE 0)
                + credit'[Other(r)] + (IF Begun(Other(r))' THEN 1 ELSE 0) <= 1
    BY DEF BegunOnce
  <2>4. lines[r]["/a"] + (IF mainPc[r] \in Answering THEN 1 ELSE 0)
          + credit[Other(r)] + (IF Begun(Other(r)) THEN 1 ELSE 0) <= 1
    BY DEF BegunOnce
  <2>5. Other(r) \in Peer /\ (r # p => Other(r) = p)
    BY TwoPeers
  <2>6. Begun(Other(r))' => Begun(Other(r))
    BY <2>3, <2>5
  <2>7. CASE r = p
    BY <2>1, <2>2, <2>4, <2>5, <2>6, <2>7
  <2>8. CASE r # p
    BY <2>1, <2>2, <2>4, <2>5, <2>6, <2>8
  <2>. QED  BY <2>7, <2>8
<1>6. ASSUME NEW p \in Peer, StartSendFile(p)
      PROVE  BegunOnce'
  <2>1. mainPc'[p] = "sendBegin"
        /\ \A r \in Peer : r # p => mainPc'[r] = mainPc[r]
    BY <1>6 DEF StartSendFile, MainGoto
  <2>2. /\ lines' = lines /\ credit'[p] = credit[p] - 1
        /\ \A r \in Peer : r # p => /\ credit'[r] = credit[r]
                                    /\ sentChunks'[r] = sentChunks[r]
    BY <1>6 DEF StartSendFile
  <2>. SUFFICES ASSUME NEW r \in Peer
       PROVE  lines'[r]["/a"] + (IF mainPc'[r] \in Answering THEN 1 ELSE 0)
                + credit'[Other(r)] + (IF Begun(Other(r))' THEN 1 ELSE 0) <= 1
    BY DEF BegunOnce
  <2>4. lines[r]["/a"] + (IF mainPc[r] \in Answering THEN 1 ELSE 0)
          + credit[Other(r)] + (IF Begun(Other(r)) THEN 1 ELSE 0) <= 1
    BY DEF BegunOnce
  <2>5. Other(r) \in Peer /\ (r # p => Other(r) = p) /\ Other(p) # p
    BY TwoPeers
  <2>6. mainPc'[r] \in Answering => mainPc[r] \in Answering
    BY <2>1
  <2>7. CASE r = p
    <3>1. Begun(Other(r))' => Begun(Other(r))
      BY <2>1, <2>2, <2>5, <2>7 DEF Begun
    <3>2. credit'[Other(r)] = credit[Other(r)]
      BY <2>2, <2>5, <2>7
    <3>. HIDE DEF Answering
    <3>. QED  BY <2>2, <2>4, <2>5, <2>6, <3>1, <3>2
  <2>8. CASE r # p
    <3>1. credit'[Other(r)] = credit[Other(r)] - 1
      BY <2>2, <2>5, <2>8
    <3>. HIDE DEF Answering
    <3>. QED  BY <2>2, <2>4, <2>5, <2>6, <3>1
  <2>. QED  BY <2>7, <2>8
<1>7. ASSUME NEW p \in Peer, NEW l \in Line, ReadLine(p, l)
      PROVE  BegunOnce'
  <2>1. Dispatch(p, l) \notin Sending \cup {"sendAccept"}
        /\ (Dispatch(p, l) = "saveDialog" => l = "/a")
    BY DEF Dispatch, ParseCommands, Line, Sending
  <2>2. \A r \in Peer : Begun(r)' => Begun(r)
    BY <1>7, <2>1 DEF ReadLine, MainGoto, Begun
  <2>3. ~(mainPc'[p] \in Answering) \/ lines'[p]["/a"] = lines[p]["/a"] - 1
    BY <1>7, <2>1 DEF ReadLine, MainGoto, TakeLine
  <2>. SUFFICES ASSUME NEW r \in Peer
       PROVE  lines'[r]["/a"] + (IF mainPc'[r] \in Answering THEN 1 ELSE 0)
                + credit'[Other(r)] + (IF Begun(Other(r))' THEN 1 ELSE 0) <= 1
    BY DEF BegunOnce
  <2>4. lines[r]["/a"] + (IF mainPc[r] \in Answering THEN 1 ELSE 0)
          + credit[Other(r)] + (IF Begun(Other(r)) THEN 1 ELSE 0) <= 1
    BY DEF BegunOnce
  <2>5. Other(r) \in Peer /\ credit' = credit
    BY <1>7, TwoPeers DEF ReadLine
  <2>6. Begun(Other(r))' => Begun(Other(r))
    BY <2>2, <2>5
  <2>7. \/ mainPc'[r] \in Answering => mainPc[r] \in Answering
        \/ lines'[r]["/a"] = lines[r]["/a"] - 1
    BY <1>7, <2>3 DEF ReadLine, MainGoto
  <2>. HIDE DEF Answering
  <2>. QED  BY <1>2, <2>4, <2>5, <2>6, <2>7
<1>8. ASSUME NEW p \in Peer,
             \/ \E l \in Line : AskOverwrite(p, l)
             \/ \E name \in Name : PickTarget(p, name)
             \/ CancelSaveDialog(p)
             \/ \E f \in File : PickFile(p, f)
             \/ DeclineFile(p) \/ Ends(p)
      PROVE  BegunOnce'
  <2>1. UNCHANGED <<credit, sentChunks>>
    BY <1>8, EndsDies
       DEF AskOverwrite, PickTarget, CancelSaveDialog, PickFile, DeclineFile
  <2>2. \A r \in Peer :
          /\ mainPc'[r] \in Answering => mainPc[r] \in Answering
          /\ mainPc'[r] \in Sending => mainPc[r] \in Sending
    BY <1>8, EndsDies
       DEF AskOverwrite, PickTarget, CancelSaveDialog, PickFile, DeclineFile,
           Die, MainGoto, Ended, Sending
  <2>. QED  BY <1>3, <2>1, <2>2 DEF Begun
<1>9. ASSUME NEW p \in Peer, RecvStep(p), ~BeginThrows(p)
      PROVE  BegunOnce'
  <2>1. UNCHANGED <<credit, sentChunks, mainPc>>
    BY <1>9
       DEF RecvStep, RecvLoop, RecvText, RecvRequest, RecvAccept, RecvReject,
           IgnoreFrame, RecvBegin, CreateTarget, RecvChunk, RecvEnd, RecvEof,
           RecvError
  <2>. QED  BY <1>3, <2>1 DEF Begun
<1>10. CASE UNCHANGED vars
  BY <1>3, <1>10 DEF vars, Begun
<1>. QED  BY <1>4, <1>5, <1>6, <1>7, <1>8, <1>9, <1>10
          DEF Next, UserStep, Ends

-----------------------------------------------------------------------------
(***************************************************************************)
(* Streams that carry a part of a file.                                    *)
(***************************************************************************)
\* After its first b packets s carries chunk m + 1 to chunk n of f, in order;
\* it carries no other chunk, and no end of a file before that.
Carries(s, b, f, m, n) ==
  /\ n - m \in 0 .. Len(s) - b
  /\ \A i \in 1 .. Len(s) :
       IF i > b /\ i <= b + n - m
         THEN s[i] = ChunkFrame(f, m + i - b)
         ELSE /\ s[i].type # "FILE_CHUNK"
              /\ s[i].type = "FILE_END" => i > b

\* The next chunk of the file is sent right behind the others.
LEMMA CarriesNextChunk ==
  ASSUME NEW s \in Seq(Packet), NEW f, NEW b \in Nat, NEW m \in Nat,
         NEW n \in Nat, Carries(s, b, f, m, n), Len(s) = b + n - m,
         NEW pkt \in Packet, pkt = ChunkFrame(f, n + 1)
  PROVE  Carries(Append(s, pkt), b, f, m, n + 1)
<1>. DEFINE t == Append(s, pkt)
            l == Len(s)
<1>1. /\ l \in Nat /\ Len(t) = l + 1 /\ t[l + 1] = pkt
      /\ \A i \in 1 .. l : t[i] = s[i]
  BY AppendProperties
<1>2. /\ n - m \in 0 .. l - b
      /\ \A i \in 1 .. l :
           IF i > b /\ i <= b + n - m
             THEN s[i] = ChunkFrame(f, m + i - b)
             ELSE /\ s[i].type # "FILE_CHUNK"
                  /\ s[i].type = "FILE_END" => i > b
  BY DEF Carries
<1>. HIDE DEF t, l
<1>3. l = b + n - m
  BY DEF l
<1>4. (n + 1) - m \in 0 .. Len(t) - b
  BY <1>1, <1>2, <1>3
<1>5. ASSUME NEW i \in 1 .. Len(t)
      PROVE  IF i > b /\ i <= b + (n + 1) - m
               THEN t[i] = ChunkFrame(f, m + i - b)
               ELSE /\ t[i].type # "FILE_CHUNK"
                    /\ t[i].type = "FILE_END" => i > b
  <2>1. CASE i = l + 1
    <3>1. m + i - b = n + 1
      BY <1>1, <1>3, <2>1
    <3>. QED  BY <1>1, <1>2, <1>3, <2>1, <3>1
  <2>2. CASE i # l + 1
    <3>1. i \in 1 .. l
      BY <1>1, <2>2
    <3>2. i <= b + (n + 1) - m /\ i <= b + n - m
      BY <1>1, <1>3, <3>1
    <3>. QED  BY <1>1, <1>2, <3>1, <3>2
  <2>. QED  BY <2>1, <2>2
<1>. QED  BY <1>4, <1>5 DEF Carries, t

\* Any other packet is sent, the end of the file among them.
LEMMA CarriesOther ==
  ASSUME NEW s \in Seq(Packet), NEW f, NEW b \in Nat, NEW m \in Nat,
         NEW n \in Nat, Carries(s, b, f, m, n), b <= Len(s),
         NEW pkt \in Packet, pkt.type # "FILE_CHUNK"
  PROVE  Carries(Append(s, pkt), b, f, m, n)
<1>. DEFINE t == Append(s, pkt)
            l == Len(s)
<1>1. /\ l \in Nat /\ Len(t) = l + 1 /\ t[l + 1] = pkt
      /\ \A i \in 1 .. l : t[i] = s[i]
  BY AppendProperties
<1>2. /\ n - m \in 0 .. l - b
      /\ \A i \in 1 .. l :
           IF i > b /\ i <= b + n - m
             THEN s[i] = ChunkFrame(f, m + i - b)
             ELSE /\ s[i].type # "FILE_CHUNK"
                  /\ s[i].type = "FILE_END" => i > b
  BY DEF Carries
<1>. HIDE DEF t, l
<1>3. b <= l
  BY DEF l
<1>4. ASSUME NEW i \in 1 .. Len(t)
      PROVE  IF i > b /\ i <= b + n - m
               THEN t[i] = ChunkFrame(f, m + i - b)
               ELSE /\ t[i].type # "FILE_CHUNK"
                    /\ t[i].type = "FILE_END" => i > b
  <2>1. CASE i = l + 1
    BY <1>1, <1>2, <1>3, <2>1
  <2>2. CASE i # l + 1
    <3>1. i \in 1 .. l
      BY <1>1, <2>2
    <3>. QED  BY <1>1, <1>2, <3>1
  <2>. QED  BY <2>1, <2>2
<1>. QED  BY <1>1, <1>2, <1>4 DEF Carries, t

\* The beginning of the file is sent, with nothing of it before.
LEMMA CarriesBegin ==
  ASSUME NEW s \in Seq(Packet), NEW f, NEW pkt \in Packet,
         pkt.type = "FILE_BEGIN",
         \A i \in 1 .. Len(s) : s[i].type \notin {"FILE_CHUNK", "FILE_END"}
  PROVE  Carries(Append(s, pkt), Len(s) + 1, f, 0, 0)
<1>. DEFINE t == Append(s, pkt)
            l == Len(s)
<1>1. /\ l \in Nat /\ Len(t) = l + 1 /\ t[l + 1] = pkt
      /\ \A i \in 1 .. l : t[i] = s[i]
  BY AppendProperties
<1>2. \A i \in 1 .. l : t[i].type \notin {"FILE_CHUNK", "FILE_END"}
  BY <1>1
<1>. HIDE DEF t, l
<1>. QED
  <2>1. 0 - 0 \in 0 .. Len(t) - (l + 1)
    BY <1>1
  <2>2. ASSUME NEW i \in 1 .. Len(t)
        PROVE  /\ ~(i > l + 1 /\ i <= l + 1 + 0 - 0)
               /\ t[i].type \notin {"FILE_CHUNK", "FILE_END"}
    BY <1>1, <1>2, <2>2
  <2>. QED  BY <2>1, <2>2 DEF Carries, t, l

\* A packet is taken from before the file.
LEMMA CarriesTailBefore ==
  ASSUME NEW s \in Seq(Packet), s # <<>>, NEW f, NEW b \in Nat \ {0},
         NEW m \in Nat, NEW n \in Nat, Carries(s, b, f, m, n)
  PROVE  /\ Carries(Tail(s), b - 1, f, m, n)
         /\ Head(s).type \notin {"FILE_CHUNK", "FILE_END"}
<1>. DEFINE t == Tail(s)
            l == Len(s)
<1>1. /\ Len(t) = l - 1 /\ l \in Nat \ {0} /\ Head(s) = s[1]
      /\ \A i \in 1 .. l - 1 : t[i] = s[i + 1]
  BY HeadTailProperties, EmptySeq
<1>2. /\ n - m \in 0 .. l - b
      /\ \A i \in 1 .. l :
           IF i > b /\ i <= b + n - m
             THEN s[i] = ChunkFrame(f, m + i - b)
             ELSE /\ s[i].type # "FILE_CHUNK"
                  /\ s[i].type = "FILE_END" => i > b
  BY DEF Carries
<1>. HIDE DEF t, l
<1>3. ASSUME NEW i \in 1 .. Len(t)
      PROVE  IF i > b - 1 /\ i <= (b - 1) + n - m
               THEN t[i] = ChunkFrame(f, m + i - (b - 1))
               ELSE /\ t[i].type # "FILE_CHUNK"
                    /\ t[i].type = "FILE_END" => i > b - 1
  <2>1. i \in 1 .. l - 1 /\ i + 1 \in 1 .. l /\ t[i] = s[i + 1]
    BY <1>1
  <2>2. m + (i + 1) - b = m + i - (b - 1)
    OBVIOUS
  <2>3. IF i + 1 > b /\ i + 1 <= b + n - m
          THEN s[i + 1] = ChunkFrame(f, m + (i + 1) - b)
          ELSE /\ s[i + 1].type # "FILE_CHUNK"
               /\ s[i + 1].type = "FILE_END" => i + 1 > b
    BY <1>2, <2>1
  <2>. QED  BY <2>1, <2>2, <2>3
<1>4. n - m \in 0 .. Len(t) - (b - 1)
  BY <1>1, <1>2
<1>5. Head(s).type \notin {"FILE_CHUNK", "FILE_END"}
  <2>1. 1 \in 1 .. l
    BY <1>1
  <2>. QED  BY <1>1, <1>2, <2>1
<1>. QED  BY <1>3, <1>4, <1>5 DEF Carries, t

\* A packet is taken from the file, or when nothing of it is left.
LEMMA CarriesTailWithin ==
  ASSUME NEW s \in Seq(Packet), s # <<>>, NEW f,
         NEW m \in Nat, NEW n \in Nat, Carries(s, 0, f, m, n)
  PROVE  IF Head(s).type = "FILE_CHUNK"
           THEN /\ m < n /\ Head(s) = ChunkFrame(f, m + 1)
                /\ Carries(Tail(s), 0, f, m + 1, n)
           ELSE m = n /\ Carries(Tail(s), 0, f, m, n)
<1>. DEFINE t == Tail(s)
            l == Len(s)
<1>1. /\ Len(t) = l - 1 /\ l \in Nat \ {0} /\ Head(s) = s[1]
      /\ \A i \in 1 .. l - 1 : t[i] = s[i + 1]
  BY HeadTailProperties, EmptySeq
<1>2. /\ n - m \in 0 .. l - 0
      /\ \A i \in 1 .. l :
           IF i > 0 /\ i <= 0 + n - m
             THEN s[i] = ChunkFrame(f, m + i - 0)
             ELSE /\ s[i].type # "FILE_CHUNK"
                  /\ s[i].type = "FILE_END" => i > 0
  BY DEF Carries
<1>3. \A k : ChunkFrame(f, k).type = "FILE_CHUNK"
  BY DEF ChunkFrame
<1>. HIDE DEF t, l
<1>4. CASE Head(s).type = "FILE_CHUNK"
  <2>1. 1 \in 1 .. l
    BY <1>1
  <2>2. 1 <= n - m /\ s[1] = ChunkFrame(f, m + 1)
    BY <1>1, <1>2, <1>4, <2>1
  <2>3. ASSUME NEW i \in 1 .. Len(t)
        PROVE  IF i > 0 /\ i <= 0 + n - (m + 1)
                 THEN t[i] = ChunkFrame(f, (m + 1) + i - 0)
                 ELSE /\ t[i].type # "FILE_CHUNK"
                      /\ t[i].type = "FILE_END" => i > 0
    <3>1. i \in 1 .. l - 1 /\ i + 1 \in 1 .. l /\ t[i] = s[i + 1]
      BY <1>1
    <3>2. m + (i + 1) - 0 = (m + 1) + i - 0
      OBVIOUS
    <3>3. IF i + 1 > 0 /\ i + 1 <= 0 + n - m
            THEN s[i + 1] = ChunkFrame(f, m + (i + 1) - 0)
            ELSE s[i + 1].type # "FILE_CHUNK"
      BY <1>2, <3>1
    <3>. QED  BY <3>1, <3>2, <3>3
  <2>4. n - (m + 1) \in 0 .. Len(t) - 0
    BY <1>1, <1>2, <2>2
  <2>. QED  BY <1>1, <1>4, <2>2, <2>3, <2>4 DEF Carries, t
<1>5. CASE Head(s).type # "FILE_CHUNK"
  <2>1. 1 \in 1 .. l
    BY <1>1
  <2>2. n = m
    BY <1>1, <1>2, <1>3, <1>5, <2>1
  <2>3. ASSUME NEW i \in 1 .. Len(t)
        PROVE  ~(i > 0 /\ i <= 0 + n - m) /\ t[i].type # "FILE_CHUNK" /\ i > 0
    <3>1. i \in 1 .. l - 1 /\ i + 1 \in 1 .. l /\ t[i] = s[i + 1]
      BY <1>1
    <3>. QED  BY <1>2, <2>2, <3>1
  <2>4. n - m \in 0 .. Len(t) - 0
    BY <1>1, <2>2
  <2>. QED  BY <1>5, <2>2, <2>3, <2>4 DEF Carries, t
<1>. QED  BY <1>4, <1>5

-----------------------------------------------------------------------------
(***************************************************************************)
(* The transfer to p, step by step.                                        *)
(***************************************************************************)
\* RecvFile has written nothing yet of the file sent to p.
Vacant(p) == Written(p, filePathOnTarget[p]) \in {<<>>, OldContent}

EndTo(p) == \E pkt \in PacketsTo(p) : pkt.type = "FILE_END"

\* What holds before a file is opened, and what its end shows.
Waits(p) ==
  LET q == Other(p)
  IN  /\ sentChunks[q] = NotOpen
           => /\ ~FrameTo(p) /\ recvPc[p] \notin Saving
              /\ mainPc[q] # "sendChunks"
      /\ mainPc[q] = "sendBegin" => sentChunks[q] = NotOpen
      /\ EndTo(p) => mainPc[q] # "sendChunks"
      /\ sentChunks[q] = NotOpen \/ BeginPending(p) => Vacant(p)

IsOpen(p) == sock[p] # "closed"

\* Packets sent to p are not lost.
Live(p) == IsOpen(p) /\ (recvPc[p] # "done" \/ IsOpen(Other(p)))

\* A file is being sent to p, or what is left of it is on its way.
Underway(p) ==
  /\ Live(p) /\ sentChunks[Other(p)] # NotOpen
  /\ IsOpen(Other(p)) \/ FrameTo(p) \/ recvPc[p] \in Saving

\* The b-th packet on its way to p is the beginning of the file; or b = 0, RecvFile
\* has taken it, and has written m chunks once it has created the target.
Position(p, b, m) ==
  /\ \A i \in 1 .. Len(wire[p]) : wire[p][i].type = "FILE_BEGIN" => i = b
  /\ IF b # 0
       THEN /\ m = 0 /\ recvPc[p] \notin Saving
            /\ wire[p][b] = Marker("FILE_BEGIN")
       ELSE IF recvPc[p] \in Saving
              THEN m = 0
              ELSE Written(p, filePathOnTarget[p])
                     = Prefix(outgoingFile[Other(p)], m)

\* The copy has m chunks and the stream those up to n, which are all that have
\* been read, unless the sender's end was closed when it sent the last one.
Placed(p, b, m, n) ==
  LET q == Other(p)
  IN  /\ n <= sentChunks[q]
      /\ IsOpen(q) \/ EndTo(p) => n = sentChunks[q]
      /\ b <= Len(wire[p]) /\ Position(p, b, m)
      /\ Carries(wire[p], b, outgoingFile[q], m, n)

Content(p) == Underway(p) => \E b, m, n \in Nat : Placed(p, b, m, n)

Transfer(p) == Waits(p) /\ Content(p)

\* A step that leaves the transfer to p alone, or ends it at the end of p.
LEMMA TransferKept ==
  ASSUME NEW p \in Peer, Transfer(p),
         wire'[p] = wire[p] \/ (wire'[p] = <<>> /\ ~Live(p)'),
         outgoingFile'[Other(p)] = outgoingFile[Other(p)],
         sentChunks'[Other(p)] = sentChunks[Other(p)],
         Written(p, filePathOnTarget[p])' = Written(p, filePathOnTarget[p]),
         recvPc'[p] \in Saving => recvPc[p] \in Saving,
         Live(p)' => Live(p) /\ (recvPc[p] \in Saving => recvPc'[p] \in Saving),
         mainPc'[Other(p)] \in Sending => mainPc'[Other(p)] = mainPc[Other(p)],
         IsOpen(Other(p))' => IsOpen(Other(p))
  PROVE  Transfer(p)'
<1>. DEFINE q == Other(p)
<1>1. PacketsTo(p)' \subseteq PacketsTo(p)
      /\ (Live(p)' => PacketsTo(p)' = PacketsTo(p))
  <2>1. Len(<<>>) = 0
    BY EmptySeq
  <2>. QED  BY <2>1 DEF PacketsTo
<1>2. /\ FrameTo(p)' => FrameTo(p)
      /\ EndTo(p)' => EndTo(p)
      /\ BeginPending(p)' => BeginPending(p)
  BY <1>1 DEF FrameTo, EndTo, BeginPending, Saving
<1>3. Vacant(p) => Vacant(p)'
  BY DEF Vacant
<1>4. Waits(p)'
  BY <1>2, <1>3 DEF Transfer, Waits, Sending
<1>5. ASSUME Underway(p)'
      PROVE  \E b, m, n \in Nat : Placed(p, b, m, n)'
  <2>1. Live(p)' /\ Live(p) /\ wire'[p] = wire[p]
        /\ (recvPc[p] \in Saving <=> recvPc'[p] \in Saving)
    BY <1>5 DEF Underway
  <2>2. Underway(p)
    BY <1>2, <1>5, <2>1 DEF Underway
  <2>3. PICK b \in Nat, m \in Nat, n \in Nat : Placed(p, b, m, n)
    BY <2>2 DEF Transfer, Content
  <2>4. Position(p, b, m)'
    BY <2>1, <2>3 DEF Placed, Position
  <2>5. Placed(p, b, m, n)'
    BY <1>2, <2>1, <2>3, <2>4 DEF Placed
  <2>. QED  BY <2>5
<1>. QED  BY <1>4, <1>5 DEF Transfer, Content

\* The peer sends something that does not belong to the file or ends it.
LEMMA TransferSends ==
  ASSUME TypeOK, NEW p \in Peer, Transfer(p), NEW pkt \in Packet,
         wire'[p] = Append(wire[p], pkt),
         \/ pkt.type \notin FrameType
         \/ pkt.type = "FILE_END" /\ sentChunks[Other(p)] # NotOpen,
         outgoingFile'[Other(p)] = outgoingFile[Other(p)],
         sentChunks'[Other(p)] = sentChunks[Other(p)],
         Written(p, filePathOnTarget[p])' = Written(p, filePathOnTarget[p]),
         recvPc'[p] = recvPc[p], mainPc'[p] = mainPc[p],
         mainPc'[Other(p)] \notin Sending, UNCHANGED sock, IsOpen(Other(p))
  PROVE  Transfer(p)'
<1>. DEFINE q == Other(p)
            s == wire[p]
<1>1. s \in Seq(Packet)
  BY DEF TypeOK, TransportTypeOK, WireOK
<1>2. /\ Len(s) \in Nat /\ Len(Append(s, pkt)) = Len(s) + 1
      /\ Append(s, pkt)[Len(s) + 1] = pkt
      /\ \A i \in 1 .. Len(s) : Append(s, pkt)[i] = s[i]
  BY <1>1, AppendProperties
<1>3. PacketsTo(p)' = PacketsTo(p) \cup {pkt}
  BY <1>2 DEF PacketsTo
<1>4. pkt.type \notin OfFile /\ pkt # Marker("FILE_BEGIN")
  BY DEF OfFile, FrameType, Marker
<1>5. /\ FrameTo(p)' => FrameTo(p) \/ sentChunks[q] # NotOpen
      /\ BeginPending(p)' => BeginPending(p)
  BY <1>3, <1>4 DEF FrameTo, BeginPending, FrameType
<1>6. Vacant(p) => Vacant(p)'
  BY DEF Vacant
<1>7. Waits(p)'
  BY <1>5, <1>6 DEF Transfer, Waits, Sending
<1>8. ASSUME Underway(p)'
      PROVE  \E b, m, n \in Nat : Placed(p, b, m, n)'
  <2>1. Underway(p)
    BY <1>8 DEF Underway, Live, IsOpen
  <2>2. PICK b \in Nat, m \in Nat, n \in Nat : Placed(p, b, m, n)
    BY <2>1 DEF Transfer, Content
  <2>3. n = sentChunks[q] /\ b <= Len(s)
        /\ Carries(s, b, outgoingFile[q], m, n)
    BY <2>2 DEF Placed
  <2>4. Carries(Append(s, pkt), b, outgoingFile[q], m, n)
    BY <1>1, <1>4, <2>3, CarriesOther DEF OfFile
  <2>5. /\ b \in 0 .. Len(s) /\ (b # 0 => b \in 1 .. Len(s))
        /\ b <= Len(s) + 1
    BY <1>2, <2>3
  <2>6. Position(p, b, m)'
    <3>1. \A i \in 1 .. Len(s) + 1 :
            Append(s, pkt)[i].type = "FILE_BEGIN" => i \in 1 .. Len(s)
      BY <1>2, <1>4 DEF OfFile
    <3>2. \A i \in 1 .. Len(s) + 1 :
            Append(s, pkt)[i].type = "FILE_BEGIN" => i = b
      BY <1>2, <2>2, <3>1 DEF Placed, Position
    <3>3. b # 0 => Append(s, pkt)[b] = s[b]
      BY <1>2, <2>5
    <3>. HIDE DEF s
    <3>. QED  BY <1>2, <2>2, <3>2, <3>3 DEF Placed, Position, s
  <2>7. Placed(p, b, m, n)'
    BY <1>2, <2>3, <2>4, <2>5, <2>6 DEF Placed
  <2>. QED  BY <2>7
<1>. QED  BY <1>7, <1>8 DEF Transfer, Content

\* What SendPacket does not deliver was sent to a closed end, or from one.
LEMMA NotDelivered ==
  ASSUME NEW p \in Peer, Lost(Other(p)) \/ Refused(Other(p))
  PROVE  ~Live(p) \/ ~IsOpen(Other(p))
BY TwoPeers DEF Lost, Refused, PeerGone, Live, IsOpen

\* The four outcomes of a packet sent to p.
LEMMA SendOutcomes ==
  ASSUME TypeOK, NEW p \in Peer, NEW pkt, NEW ok, NEW err,
         Send(Other(p), pkt, ok, err)
  PROVE  /\ mainPc'[p] = mainPc[p]
         /\ recvPc'[p] = recvPc[p]
         /\ \/ /\ wire'[p] = Append(wire[p], pkt) /\ mainPc'[Other(p)] = ok
               /\ UNCHANGED sock /\ IsOpen(Other(p))
            \/ /\ wire'[p] = wire[p] /\ mainPc'[Other(p)] \in {ok, err}
               /\ UNCHANGED sock /\ (~Live(p) \/ ~IsOpen(Other(p)))
            \/ /\ wire'[p] = wire[p] /\ mainPc'[Other(p)] = "sigpipe"
               /\ ~IsOpen(Other(p))' /\ sock'[p] = sock[p]
<1>. DEFINE q == Other(p)
<1>1. q \in Peer /\ q # p /\ Other(q) = p
  BY TwoPeers
<1>. /\ wire \in [Peer -> Seq(Packet)] /\ mainPc \in [Peer -> MainPc]
     /\ recvPc \in [Peer -> RecvPc] /\ sock \in [Peer -> SockState]
  BY DEF TypeOK, TransportTypeOK, WireOK
<1>2. CASE Delivered(q, pkt) /\ MainGoto(q, ok) /\ UNCHANGED <<recvPc, sock>>
  BY <1>1, <1>2 DEF Delivered, Writable, MainGoto, IsOpen
<1>3. CASE /\ \/ Lost(q) /\ MainGoto(q, ok)
              \/ Refused(q) /\ MainGoto(q, err)
           /\ UNCHANGED <<recvPc, sock>>
  <2>1. ~Live(p) \/ ~IsOpen(q)
    BY <1>3, NotDelivered
  <2>2. wire' = wire
    BY <1>3 DEF Lost, Refused
  <2>. QED  BY <1>1, <1>3, <2>1, <2>2 DEF MainGoto
<1>4. CASE Die(q, "sigpipe")
  BY <1>1, <1>4 DEF Die, Close, MainGoto, RecvGoto, IsOpen
<1>. QED  BY <1>2, <1>3, <1>4 DEF Send

\* SendFile sends FILE_BEGIN.
LEMMA TransferBegins ==
  ASSUME TypeOK, NEW p \in Peer, Transfer(p), SendBegin(Other(p))
  PROVE  Transfer(p)'
<1>. DEFINE q == Other(p)
            s == wire[p]
            pkt == Marker("FILE_BEGIN")
<1>1. q \in Peer /\ q # p
  BY TwoPeers
<1>2. s \in Seq(Packet) /\ pkt \in Packet /\ pkt.type = "FILE_BEGIN"
  BY BuiltPackets DEF TypeOK, TransportTypeOK, WireOK, Marker
<1>3. /\ mainPc[q] = "sendBegin" /\ sentChunks'[q] = 0
      /\ Send(q, pkt, "sendChunks", "endSend")
      /\ UNCHANGED <<outgoingFile, filePathOnTarget, disk>>
  BY <1>1 DEF SendBegin, TypeOK, fileVars, negotiationVars
<1>5. /\ sentChunks[q] = NotOpen /\ ~FrameTo(p) /\ recvPc[p] \notin Saving
      /\ Vacant(p)
  BY <1>3 DEF Transfer, Waits
<1>6. /\ mainPc'[p] = mainPc[p] /\ recvPc'[p] = recvPc[p]
      /\ \/ /\ wire'[p] = Append(s, pkt) /\ mainPc'[q] = "sendChunks"
         \/ /\ wire'[p] = s /\ mainPc'[q] \in {"sendChunks", "endSend"}
            /\ UNCHANGED sock /\ (~Live(p) \/ ~IsOpen(q))
         \/ /\ wire'[p] = s /\ mainPc'[q] = "sigpipe" /\ ~IsOpen(q)'
  BY <1>3, SendOutcomes
<1>7. /\ Len(s) \in Nat /\ Len(Append(s, pkt)) = Len(s) + 1
      /\ Append(s, pkt)[Len(s) + 1] = pkt
      /\ \A i \in 1 .. Len(s) : Append(s, pkt)[i] = s[i]
  BY <1>2, AppendProperties
<1>8. \A i \in 1 .. Len(s) :
        s[i].type \notin {"FILE_BEGIN", "FILE_CHUNK", "FILE_END"}
  BY <1>5 DEF FrameTo, PacketsTo, FrameType
<1>9. PacketsTo(p)' \subseteq PacketsTo(p) \cup {pkt}
      /\ (wire'[p] = s => PacketsTo(p)' = PacketsTo(p))
  BY <1>6, <1>7 DEF PacketsTo
<1>10. Waits(p)'
  <2>1. ~EndTo(p)'
    BY <1>2, <1>5, <1>9 DEF EndTo, FrameTo, FrameType
  <2>2. Vacant(p)'
    BY <1>3, <1>5 DEF Vacant, Written, Exists
  <2>3. sentChunks'[q] # NotOpen /\ mainPc'[q] # "sendBegin"
    BY <1>3, <1>6 DEF NotOpen
  <2>. QED  BY <2>1, <2>2, <2>3 DEF Waits
<1>11. ASSUME Underway(p)'
       PROVE  \E b, m, n \in Nat : Placed(p, b, m, n)'
  <2>1. wire'[p] = Append(s, pkt)
    <3>1. ASSUME wire'[p] = s
          PROVE  IsOpen(q)' /\ Live(p)'
      BY <1>5, <1>6, <1>9, <1>11, <3>1 DEF Underway, FrameTo
    <3>. QED  BY <1>6, <3>1 DEF Live, IsOpen
  <2>2. PICK b \in Nat : b = Len(s) + 1
    BY <1>7
  <2>3. Carries(Append(s, pkt), b, outgoingFile[q], 0, 0)
    BY <1>2, <1>8, <2>2, CarriesBegin
  <2>4. Position(p, b, 0)'
    <3>1. \A i \in 1 .. Len(s) + 1 :
            Append(s, pkt)[i].type = "FILE_BEGIN" => i = b
      BY <1>7, <1>8, <2>2
    <3>2. b # 0 /\ recvPc'[p] \notin Saving /\ Append(s, pkt)[b] = pkt
      BY <1>5, <1>6, <1>7, <2>2
    <3>. HIDE DEF s, pkt
    <3>. QED  BY <1>7, <2>1, <3>1, <3>2 DEF Position, pkt
  <2>5. Placed(p, b, 0, 0)'
    <3>1. b <= Len(Append(s, pkt)) /\ 0 <= 0
      BY <1>7, <2>2
    <3>. HIDE DEF s, pkt
    <3>. QED  BY <1>3, <2>1, <2>3, <2>4, <3>1 DEF Placed
  <2>. QED  BY <2>5
<1>. QED  BY <1>10, <1>11 DEF Transfer, Content

\* SendFile sends the next chunk.
LEMMA TransferReads ==
  ASSUME TypeOK, OrderInv, NEW p \in Peer, Transfer(p),
         SendChunk(Other(p))
  PROVE  Transfer(p)'
<1>. DEFINE q == Other(p)
            s == wire[p]
            f == outgoingFile[q]
            k == sentChunks[q]
            pkt == ChunkFrame(f, k + 1)
<1>1. q \in Peer /\ q # p
  BY TwoPeers
<1>2. mainPc[q] = "sendChunks" /\ k \in Nat
  BY <1>1 DEF SendChunk, Transfer, Waits, TypeOK
<1>3. s \in Seq(Packet) /\ pkt \in Packet /\ pkt.type = "FILE_CHUNK"
  <2>1. f \in File \cup {NoFile} /\ k + 1 \in Nat
    BY <1>1, <1>2 DEF TypeOK
  <2>2. pkt \in Packet
    BY <2>1, BuiltPackets
  <2>. QED  BY <2>2 DEF TypeOK, TransportTypeOK, WireOK, ChunkFrame
<1>4. /\ sentChunks'[q] = k + 1
      /\ Send(q, pkt, "sendChunks", "endSend")
      /\ UNCHANGED <<outgoingFile, filePathOnTarget, disk>>
  BY <1>1 DEF SendChunk, TypeOK, fileVars, negotiationVars
<1>5. ~EndTo(p)
  BY <1>2 DEF Transfer, Waits
<1>6. /\ mainPc'[p] = mainPc[p] /\ recvPc'[p] = recvPc[p]
      /\ \/ /\ wire'[p] = Append(s, pkt) /\ mainPc'[q] = "sendChunks"
            /\ UNCHANGED sock /\ IsOpen(q)
         \/ /\ wire'[p] = s /\ mainPc'[q] \in {"sendChunks", "endSend"}
            /\ UNCHANGED sock /\ (~Live(p) \/ ~IsOpen(q))
         \/ /\ wire'[p] = s /\ mainPc'[q] = "sigpipe"
            /\ ~IsOpen(q)' /\ sock'[p] = sock[p]
  <2>. HIDE DEF pkt
  <2>. QED  BY <1>4, SendOutcomes
<1>. HIDE DEF pkt
<1>7. /\ Len(s) \in Nat /\ Len(Append(s, pkt)) = Len(s) + 1
      /\ Append(s, pkt)[Len(s) + 1] = pkt
      /\ \A i \in 1 .. Len(s) : Append(s, pkt)[i] = s[i]
  BY <1>3, AppendProperties
<1>8. PacketsTo(p)' \subseteq PacketsTo(p) \cup {pkt}
      /\ (wire'[p] = s => PacketsTo(p)' = PacketsTo(p))
  BY <1>6, <1>7 DEF PacketsTo
<1>9. ~EndTo(p)' /\ (BeginPending(p)' => BeginPending(p))
  <2>1. pkt # Marker("FILE_BEGIN")
    BY <1>3 DEF Marker
  <2>. QED  BY <1>3, <1>5, <1>6, <1>8, <2>1 DEF EndTo, BeginPending
<1>10. Waits(p)'
  <2>1. Vacant(p) => Vacant(p)'
    BY <1>4 DEF Vacant, Written, Exists
  <2>2. sentChunks'[q] # NotOpen /\ mainPc'[q] # "sendBegin"
    BY <1>2, <1>4, <1>6 DEF NotOpen
  <2>. QED  BY <1>9, <2>1, <2>2 DEF Transfer, Waits
<1>11. ASSUME Underway(p)', wire'[p] = Append(s, pkt), UNCHANGED sock,
              IsOpen(q)
       PROVE  \E b, m, n \in Nat : Placed(p, b, m, n)'
  <2>1. Underway(p)
    <3>1. Live(p)
      BY <1>6, <1>11 DEF Underway, Live, IsOpen
    <3>. QED  BY <1>2, <1>11, <3>1 DEF Underway, NotOpen
  <2>2. PICK b \in Nat, m \in Nat, n \in Nat : Placed(p, b, m, n)
    BY <2>1 DEF Transfer, Content
  <2>3. n = k /\ b <= Len(s) /\ Position(p, b, m) /\ Carries(s, b, f, m, n)
    BY <1>11, <2>2 DEF Placed
  <2>4. Len(s) = b + n - m
    <3>1. s # <<>> => s[Len(s)].type \in OfFile /\ Len(s) \in 1 .. Len(s)
      BY <1>2, <1>3, <1>7, EmptySeq DEF OrderInv, FramesInOrder
    <3>2. s = <<>> => Len(s) = 0
      BY EmptySeq
    <3>3. n - m \in 0 .. Len(s) - b
      BY <2>3 DEF Carries
    <3>4. ASSUME s # <<>>, Len(s) > b + n - m
          PROVE  FALSE
      <4>1. s[Len(s)].type # "FILE_CHUNK"
        <5>. HIDE DEF s
        <5>1. PICK l \in 1 .. Len(s) : l = Len(s)
          BY <3>1, <3>4
        <5>2. ~(l > b /\ l <= b + n - m)
          BY <1>7, <3>4, <5>1
        <5>3. IF l > b /\ l <= b + n - m
                THEN s[l] = ChunkFrame(f, m + l - b)
                ELSE s[l].type # "FILE_CHUNK"
          BY <2>3 DEF Carries
        <5>. QED  BY <5>1, <5>2, <5>3
      <4>2. s[Len(s)].type = "FILE_BEGIN"
        BY <3>1, <3>4, <4>1 DEF OfFile
      <4>3. Len(s) = b
        BY <2>3, <3>1, <3>4, <4>2 DEF Position
      <4>. HIDE DEF s
      <4>. QED  BY <1>7, <3>3, <3>4, <4>3
    <3>. HIDE DEF s
    <3>. QED  BY <1>7, <2>3, <3>2, <3>3, <3>4
  <2>5. Carries(Append(s, pkt), b, f, m, n + 1)
    BY <1>3, <2>3, <2>4, CarriesNextChunk DEF pkt
  <2>6. Position(p, b, m)'
    <3>1. \A i \in 1 .. Len(s) + 1 :
            Append(s, pkt)[i].type = "FILE_BEGIN" => i \in 1 .. Len(s)
      BY <1>3, <1>7
    <3>2. \A i \in 1 .. Len(s) + 1 :
            Append(s, pkt)[i].type = "FILE_BEGIN" => i = b
      BY <1>7, <2>3, <3>1 DEF Position
    <3>3. b # 0 => b \in 1 .. Len(s) /\ Append(s, pkt)[b] = s[b]
      BY <1>7, <2>3
    <3>4. Written(p, filePathOnTarget[p])' = Written(p, filePathOnTarget[p])
      BY <1>4 DEF Written, Exists
    <3>. HIDE DEF s
    <3>. QED  BY <1>4, <1>6, <1>7, <1>11, <2>3, <3>2, <3>3, <3>4
              DEF Position, s
  <2>7. Placed(p, b, m, n + 1)'
    <3>1. n + 1 \in Nat /\ n + 1 = sentChunks'[q] /\ b <= Len(s) + 1
      BY <1>4, <1>7, <2>3
    <3>. QED  BY <1>4, <1>7, <1>11, <2>5, <2>6, <3>1 DEF Placed
  <2>. QED  BY <2>7
<1>12. ASSUME Underway(p)', wire'[p] = s, ~IsOpen(q)', sock'[p] = sock[p]
       PROVE  \E b, m, n \in Nat : Placed(p, b, m, n)'
  <2>1. Live(p) /\ (FrameTo(p) \/ recvPc[p] \in Saving)
    BY <1>6, <1>8, <1>12 DEF Underway, Live, IsOpen, FrameTo
  <2>2. Underway(p)
    BY <1>2, <2>1 DEF Underway, NotOpen
  <2>3. PICK b \in Nat, m \in Nat, n \in Nat : Placed(p, b, m, n)
    BY <2>2 DEF Transfer, Content
  <2>4. ~IsOpen(q)' /\ ~EndTo(p)'
    BY <1>9, <1>12
  <2>5. Position(p, b, m)'
    <3>1. Written(p, filePathOnTarget[p])' = Written(p, filePathOnTarget[p])
      BY <1>4 DEF Written, Exists
    <3>. QED  BY <1>4, <1>6, <1>12, <2>3, <3>1 DEF Placed, Position
  <2>6. n <= sentChunks'[q]
    BY <1>2, <1>4, <2>3 DEF Placed
  <2>7. Placed(p, b, m, n)'
    BY <1>4, <1>12, <2>3, <2>4, <2>5, <2>6 DEF Placed
  <2>. QED  BY <2>7
<1>13. ASSUME Underway(p)'
       PROVE  \E b, m, n \in Nat : Placed(p, b, m, n)'
  <2>1. CASE wire'[p] = Append(s, pkt) /\ UNCHANGED sock /\ IsOpen(q)
    BY <1>11, <1>13, <2>1
  <2>2. CASE wire'[p] = s /\ ~IsOpen(q)' /\ sock'[p] = sock[p]
    BY <1>12, <1>13, <2>2
  <2>3. ~(UNCHANGED sock /\ ~Live(p))
    BY <1>6, <1>13 DEF Underway, Live, IsOpen
  <2>4. UNCHANGED sock /\ ~IsOpen(q) => ~IsOpen(q)' /\ sock'[p] = sock[p]
    BY DEF IsOpen
  <2>. QED  BY <1>6, <2>1, <2>2, <2>3, <2>4
<1>. QED  BY <1>10, <1>13 DEF Transfer, Content

\* As long as no file has been opened, a target or a file may still be picked.
LEMMA TransferUnopened ==
  ASSUME NEW p \in Peer, Transfer(p), sentChunks[Other(p)] = NotOpen,
         sentChunks'[Other(p)] = NotOpen, wire'[p] = wire[p],
         recvPc'[p] = recvPc[p], mainPc'[Other(p)] # "sendChunks", Vacant(p)'
  PROVE  Transfer(p)'
<1>1. PacketsTo(p)' = PacketsTo(p)
  BY DEF PacketsTo
<1>2. ~FrameTo(p) /\ recvPc[p] \notin Saving
  BY DEF Transfer, Waits
<1>3. ~FrameTo(p)' /\ ~EndTo(p)'
  BY <1>1, <1>2 DEF FrameTo, EndTo, FrameType
<1>. QED  BY <1>2, <1>3 DEF Transfer, Waits, Content, Underway

\* What is left of a stream when p's receive thread has taken a packet.
LEMMA TakeEffect ==
  ASSUME TypeOK, NEW p \in Peer, Takes(p)
  PROVE  LET s == wire[p]
         IN  /\ s \in Seq(Packet) /\ s # <<>> /\ wire'[p] = Tail(s)
             /\ Len(s) \in Nat \ {0} /\ Len(Tail(s)) = Len(s) - 1
             /\ Head(s) = s[1]
             /\ \A i \in 1 .. Len(s) - 1 : Tail(s)[i] = s[i + 1]
             /\ PacketsTo(p)' \subseteq PacketsTo(p)
             /\ Head(s) \in PacketsTo(p)
<1>. DEFINE s == wire[p]
<1>1. s \in Seq(Packet) /\ s # <<>> /\ wire'[p] = Tail(s)
  BY DEF TypeOK, TransportTypeOK, WireOK, Takes
<1>2. /\ Len(s) \in Nat \ {0} /\ Len(Tail(s)) = Len(s) - 1
      /\ Head(s) = s[1]
      /\ \A i \in 1 .. Len(s) - 1 : Tail(s)[i] = s[i + 1]
  BY <1>1, HeadTailProperties, EmptySeq
<1>3. PacketsTo(p)' \subseteq PacketsTo(p) /\ Head(s) \in PacketsTo(p)
  BY TakesEffect DEF TypeOK, TransportTypeOK
<1>. QED  BY <1>1, <1>2, <1>3

\* p's receive thread takes a packet that is not part of the file.
LEMMA TransferTakes ==
  ASSUME TypeOK, NEW p \in Peer, Transfer(p), Takes(p),
         Head(wire[p]).type \notin OfFile, recvPc[p] = "recv",
         recvPc'[p] \notin Saving,
         UNCHANGED <<sock, filePathOnTarget, disk, mainPc, outgoingFile,
                     sentChunks>>
  PROVE  Transfer(p)'
<1>. DEFINE q == Other(p)
            s == wire[p]
            f == outgoingFile[q]
<1>1. /\ s \in Seq(Packet) /\ s # <<>> /\ wire'[p] = Tail(s)
      /\ Len(s) \in Nat \ {0} /\ Len(Tail(s)) = Len(s) - 1
      /\ Head(s) = s[1]
      /\ \A i \in 1 .. Len(s) - 1 : Tail(s)[i] = s[i + 1]
      /\ PacketsTo(p)' \subseteq PacketsTo(p)
  BY TakeEffect
<1>2. /\ FrameTo(p)' => FrameTo(p)
      /\ EndTo(p)' => EndTo(p)
      /\ BeginPending(p)' => BeginPending(p)
  BY <1>1 DEF FrameTo, EndTo, BeginPending, Saving
<1>3. Written(p, filePathOnTarget[p])' = Written(p, filePathOnTarget[p])
      /\ Vacant(p)' = Vacant(p)
  BY DEF Vacant, Written, Exists
<1>4. Waits(p)'
  BY <1>2, <1>3 DEF Transfer, Waits
<1>5. ASSUME Underway(p)'
      PROVE  \E b, m, n \in Nat : Placed(p, b, m, n)'
  <2>1. Underway(p)
    BY <1>2, <1>5 DEF Underway, Live, IsOpen
  <2>2. PICK b \in Nat, m \in Nat, n \in Nat : Placed(p, b, m, n)
    BY <2>1 DEF Transfer, Content
  <2>3. /\ n <= sentChunks[q] /\ (IsOpen(q) \/ EndTo(p) => n = sentChunks[q])
        /\ b <= Len(s) /\ Position(p, b, m) /\ Carries(s, b, f, m, n)
    BY <2>2 DEF Placed
  <2>4. recvPc[p] \notin Saving
    BY DEF Saving
  <2>5. CASE b = 0
    <3>1. Carries(Tail(s), 0, f, m, n)
      BY <1>1, <2>3, <2>5, CarriesTailWithin DEF OfFile
    <3>2. \A i \in 1 .. Len(s) - 1 : i + 1 \in 1 .. Len(s)
      BY <1>1
    <3>3. \A i \in 1 .. Len(s) - 1 : Tail(s)[i].type # "FILE_BEGIN"
      BY <1>1, <2>3, <2>5, <3>2 DEF Position
    <3>4. Position(p, 0, m)'
      <4>. HIDE DEF s
      <4>. QED  BY <1>1, <1>3, <2>3, <2>4, <2>5, <3>3 DEF Position, s
    <3>5. Placed(p, 0, m, n)' /\ 0 \in Nat
      <4>1. 0 <= Len(Tail(s))
        BY <1>1
      <4>. QED  BY <1>1, <1>2, <2>3, <3>1, <3>4, <4>1 DEF Placed, IsOpen
    <3>. QED  BY <3>5
  <2>6. CASE b # 0
    <3>1. PICK c \in Nat : c + 1 = b
      BY <2>6
    <3>2. Carries(Tail(s), c, f, m, n)
      <4>1. b - 1 = c /\ b \in Nat \ {0}
        BY <2>6, <3>1
      <4>. QED  BY <1>1, <2>3, <4>1, CarriesTailBefore
    <3>3. c # 0
      <4>1. s[b].type = "FILE_BEGIN"
        BY <2>3, <2>6 DEF Position, Marker
      <4>. QED  BY <1>1, <3>1, <4>1 DEF OfFile
    <3>4. c \in 1 .. Len(s) - 1 /\ Tail(s)[c] = s[b]
      BY <1>1, <2>3, <3>1, <3>3
    <3>5. \A i \in 1 .. Len(s) - 1 : Tail(s)[i].type = "FILE_BEGIN" => i = c
      <4>1. \A i \in 1 .. Len(s) - 1 : i + 1 \in 1 .. Len(s)
        BY <1>1
      <4>2. \A i \in 1 .. Len(s) - 1 :
              Tail(s)[i].type = "FILE_BEGIN" => i + 1 = b
        BY <1>1, <2>3, <4>1 DEF Position
      <4>. QED  BY <3>1, <4>2
    <3>6. Position(p, c, m)'
      <4>. HIDE DEF s
      <4>. QED  BY <1>1, <2>3, <2>6, <3>3, <3>4, <3>5 DEF Position, s
    <3>7. Placed(p, c, m, n)'
      <4>1. c <= Len(Tail(s))
        BY <1>1, <3>4
      <4>. QED  BY <1>1, <1>2, <2>3, <3>2, <3>6, <4>1 DEF Placed, IsOpen
    <3>. QED  BY <3>7
  <2>. QED  BY <2>5, <2>6
<1>. QED  BY <1>4, <1>5 DEF Transfer, Content

\* What p's receive thread takes of a file shows where the file is.
LEMMA FrameIsPlaced ==
  ASSUME TypeOK, NEW p \in Peer, Transfer(p), Takes(p),
         Head(wire[p]).type \in FrameType, recvPc[p] = "recv", IsOpen(p)
  PROVE  /\ Underway(p)
         /\ \E b, m, n \in Nat : Placed(p, b, m, n)
<1>1. FrameTo(p)
  BY TakeEffect DEF FrameTo
<1>2. Underway(p)
  BY <1>1 DEF Transfer, Waits, Underway, Live
<1>. QED  BY <1>2 DEF Transfer, Content

\* FILE_BEGIN is taken: RecvFile is to ask, or to create the target.
LEMMA TransferBeginTaken ==
  ASSUME TypeOK, DiskWorks, NEW p \in Peer, Transfer(p), IsOpen(p),
         RecvBegin(p)
  PROVE  Transfer(p)'
<1>. DEFINE q == Other(p)
            s == wire[p]
            f == outgoingFile[q]
<1>1. /\ Takes(p) /\ Head(s).type = "FILE_BEGIN" /\ recvPc[p] = "recv"
      /\ recvPc'[p] \in Saving
      /\ UNCHANGED <<sock, filePathOnTarget, disk, mainPc, outgoingFile,
                     sentChunks>>
  BY DEF RecvBegin, Receives, RecvGoto, DiskWorks, negotiationVars, Saving,
         TypeOK
<1>2. /\ s \in Seq(Packet) /\ s # <<>> /\ wire'[p] = Tail(s)
      /\ Len(s) \in Nat \ {0} /\ Len(Tail(s)) = Len(s) - 1
      /\ Head(s) = s[1]
      /\ \A i \in 1 .. Len(s) - 1 : Tail(s)[i] = s[i + 1]
      /\ PacketsTo(p)' \subseteq PacketsTo(p)
  BY <1>1, TakeEffect
<1>3. PICK b \in Nat, m \in Nat, n \in Nat : Placed(p, b, m, n)
  BY <1>1, FrameIsPlaced DEF FrameType
<1>4. sentChunks[q] # NotOpen
  BY <1>1, FrameIsPlaced DEF FrameType, Underway
<1>5. /\ n <= sentChunks[q] /\ (IsOpen(q) \/ EndTo(p) => n = sentChunks[q])
      /\ Position(p, b, m) /\ Carries(s, b, f, m, n)
  BY <1>3 DEF Placed
<1>6. b = 1 /\ m = 0 /\ s[1] = Marker("FILE_BEGIN")
  BY <1>1, <1>2, <1>5 DEF Position
<1>7. BeginPending(p)
  BY <1>2, <1>6 DEF BeginPending, PacketsTo
<1>8. Vacant(p)'
  BY <1>1, <1>7 DEF Transfer, Waits, Vacant, Written, Exists
<1>9. EndTo(p)' => EndTo(p)
  BY <1>2 DEF EndTo
<1>10. Waits(p)'
  BY <1>1, <1>4, <1>8, <1>9 DEF Transfer, Waits
<1>11. Carries(Tail(s), 0, f, 0, n)
  <2>1. Carries(Tail(s), 1 - 1, f, 0, n)
    BY <1>2, <1>5, <1>6, CarriesTailBefore
  <2>. QED  BY <2>1
<1>12. Position(p, 0, 0)'
  <2>1. \A i \in 1 .. Len(s) - 1 : i + 1 \in 1 .. Len(s) /\ i + 1 # 1
    BY <1>2
  <2>2. \A i \in 1 .. Len(s) - 1 : Tail(s)[i].type # "FILE_BEGIN"
    BY <1>2, <1>5, <1>6, <2>1 DEF Position
  <2>. HIDE DEF s
  <2>. QED  BY <1>1, <1>2, <2>2 DEF Position
<1>13. Placed(p, 0, 0, n)' /\ 0 \in Nat
  <2>1. 0 <= Len(Tail(s))
    BY <1>2
  <2>. QED  BY <1>1, <1>2, <1>5, <1>9, <1>11, <1>12, <2>1 DEF Placed, IsOpen
<1>. QED  BY <1>10, <1>13 DEF Transfer, Content

\* The copy grows by its next chunk.
LEMMA PrefixGrows ==
  ASSUME NEW f, NEW m \in Nat
  PROVE  /\ Append(Prefix(f, m), <<f, m + 1>>) = Prefix(f, m + 1)
         /\ Len(Prefix(f, m)) = m
         /\ Prefix(f, 0) = <<>>
BY DEF Prefix

\* What RecvFile writes is the next chunk of the copy.
LEMMA ChunkTaken ==
  ASSUME TypeOK, DiskWorks, NEW p \in Peer, Transfer(p), IsOpen(p),
         RecvChunk(p)
  PROVE  LET q == Other(p)
             s == wire[p]
             f == outgoingFile[q]
         IN  /\ sentChunks[q] # NotOpen
             /\ \A i \in 1 .. Len(s) : s[i].type # "FILE_BEGIN"
             /\ \E m, n \in Nat :
                  /\ m < n /\ n <= sentChunks[q]
                  /\ IsOpen(q) \/ EndTo(p) => n = sentChunks[q]
                  /\ Carries(Tail(s), 0, f, m + 1, n)
                  /\ Written(p, filePathOnTarget[p]) = Prefix(f, m)
                  /\ Written(p, filePathOnTarget[p])' = Prefix(f, m + 1)
<1>. DEFINE q == Other(p)
            s == wire[p]
            f == outgoingFile[q]
            path == filePathOnTarget[p]
<1>1. /\ Takes(p) /\ Head(s).type = "FILE_CHUNK" /\ recvPc[p] = "recv"
      /\ AppendChunk(p, path, Head(s))
      /\ UNCHANGED filePathOnTarget
  BY DEF RecvChunk, Receives, DiskWorks
<1>2. s \in Seq(Packet) /\ s # <<>> /\ Len(s) \in Nat
  BY <1>1, TakeEffect
<1>3. PICK b \in Nat, m \in Nat, n \in Nat : Placed(p, b, m, n)
  BY <1>1, FrameIsPlaced DEF FrameType
<1>4. sentChunks[q] # NotOpen
  BY <1>1, FrameIsPlaced DEF FrameType, Underway
<1>5. /\ n <= sentChunks[q] /\ (IsOpen(q) \/ EndTo(p) => n = sentChunks[q])
      /\ Position(p, b, m) /\ Carries(s, b, f, m, n)
  BY <1>3 DEF Placed
<1>6. b = 0
  BY <1>1, <1>2, <1>5, CarriesTailBefore
<1>7. /\ m < n /\ Head(s) = ChunkFrame(f, m + 1)
      /\ Carries(Tail(s), 0, f, m + 1, n)
  BY <1>1, <1>2, <1>5, <1>6, CarriesTailWithin
<1>8. /\ Written(p, path) = Prefix(f, m)
      /\ \A i \in 1 .. Len(s) : s[i].type # "FILE_BEGIN"
  <2>1. \A i \in 1 .. Len(s) : i # 0
    BY <1>2
  <2>. HIDE DEF s
  <2>. QED  BY <1>1, <1>5, <1>6, <2>1 DEF Position, Saving, s
<1>9. Written(p, path)' = Prefix(f, m + 1)
  <2>. DEFINE content == Append(Prefix(f, m), <<f, m + 1>>)
  <2>1. PICK x, c : x = path /\ c = content
    OBVIOUS
  <2>2. Head(s).file = f /\ Head(s).part = m + 1
    BY <1>7 DEF ChunkFrame
  <2>3. Write(p, x, c)
    BY <1>1, <1>8, <2>1, <2>2 DEF AppendChunk
  <2>4. Written(p, x)' = c
    BY <2>3, WriteKeeps
  <2>5. content = Prefix(f, m + 1)
    BY PrefixGrows
  <2>. HIDE DEF content
  <2>. QED  BY <1>1, <2>1, <2>4, <2>5
<1>. QED  BY <1>4, <1>5, <1>7, <1>8, <1>9

\* FILE_CHUNK is taken: it is the next chunk of the copy.
LEMMA TransferChunkTaken ==
  ASSUME TypeOK, DiskWorks, NEW p \in Peer, Transfer(p), IsOpen(p),
         RecvChunk(p)
  PROVE  Transfer(p)'
<1>. DEFINE q == Other(p)
            s == wire[p]
            f == outgoingFile[q]
            path == filePathOnTarget[p]
<1>1. /\ Takes(p) /\ recvPc'[p] = "loop"
      /\ UNCHANGED <<sock, filePathOnTarget, mainPc, outgoingFile, sentChunks>>
  BY DEF RecvChunk, RecvGoto, negotiationVars, TypeOK
<1>2. /\ wire'[p] = Tail(s)
      /\ Len(s) \in Nat \ {0} /\ Len(Tail(s)) = Len(s) - 1
      /\ \A i \in 1 .. Len(s) - 1 : Tail(s)[i] = s[i + 1]
      /\ PacketsTo(p)' \subseteq PacketsTo(p)
  BY <1>1, TakeEffect
<1>3. /\ sentChunks[q] # NotOpen
      /\ \A i \in 1 .. Len(s) : s[i].type # "FILE_BEGIN"
  BY ChunkTaken
<1>4. PICK m \in Nat, n \in Nat :
        /\ n <= sentChunks[q] /\ (IsOpen(q) \/ EndTo(p) => n = sentChunks[q])
        /\ Carries(Tail(s), 0, f, m + 1, n)
        /\ Written(p, path)' = Prefix(f, m + 1)
  BY ChunkTaken
<1>5. ~BeginPending(p)'
  <2>1. \A pkt \in PacketsTo(p) : pkt.type # "FILE_BEGIN"
    BY <1>3 DEF PacketsTo
  <2>. QED  BY <1>1, <1>2, <2>1 DEF BeginPending, Marker
<1>6. EndTo(p)' => EndTo(p)
  BY <1>2 DEF EndTo
<1>7. Waits(p)'
  BY <1>1, <1>3, <1>5, <1>6 DEF Transfer, Waits
<1>8. Position(p, 0, m + 1)'
  <2>1. \A i \in 1 .. Len(s) - 1 : i + 1 \in 1 .. Len(s)
    BY <1>2
  <2>2. \A i \in 1 .. Len(s) - 1 : Tail(s)[i].type # "FILE_BEGIN"
    BY <1>2, <1>3, <2>1
  <2>3. recvPc'[p] \notin Saving
    BY <1>1 DEF Saving
  <2>. HIDE DEF s
  <2>. QED  BY <1>1, <1>2, <1>4, <2>2, <2>3 DEF Position
<1>9. Placed(p, 0, m + 1, n)' /\ 0 \in Nat /\ m + 1 \in Nat
  <2>1. 0 <= Len(Tail(s))
    BY <1>2
  <2>. QED  BY <1>1, <1>2, <1>4, <1>6, <1>8, <2>1 DEF Placed, IsOpen
<1>. QED  BY <1>7, <1>9 DEF Transfer, Content

\* The target is created, and it is empty.
LEMMA TransferCreates ==
  ASSUME TypeOK, DiskWorks, NEW p \in Peer, Transfer(p), IsOpen(p),
         CreateTarget(p)
  PROVE  Transfer(p)'
<1>. DEFINE q == Other(p)
            s == wire[p]
            f == outgoingFile[q]
            path == filePathOnTarget[p]
<1>1. /\ recvPc[p] = "create" /\ recvPc'[p] = "loop"
      /\ Truncate(p, path)
      /\ UNCHANGED <<wire, sock, filePathOnTarget, mainPc, outgoingFile,
                     sentChunks>>
  BY DEF CreateTarget, RecvGoto, DiskWorks, negotiationVars, transportVars,
         TypeOK
<1>2. Written(p, path)' = <<>>
  BY <1>1, WriteKeeps DEF Truncate
<1>3. PacketsTo(p)' = PacketsTo(p)
  BY <1>1 DEF PacketsTo
<1>4. Waits(p)'
  <2>1. Vacant(p)'
    BY <1>1, <1>2 DEF Vacant
  <2>2. sentChunks[q] # NotOpen
    BY <1>1 DEF Transfer, Waits, Saving
  <2>3. EndTo(p)' = EndTo(p)
    BY <1>3 DEF EndTo
  <2>. QED  BY <1>1, <2>1, <2>2, <2>3 DEF Transfer, Waits
<1>5. Underway(p)
  <2>1. recvPc[p] \in Saving /\ recvPc[p] # "done"
    BY <1>1 DEF Saving
  <2>. QED  BY <2>1 DEF Transfer, Waits, Underway, Live
<1>6. PICK b \in Nat, m \in Nat, n \in Nat : Placed(p, b, m, n)
  BY <1>5 DEF Transfer, Content
<1>7. b = 0 /\ m = 0
  BY <1>1, <1>6 DEF Placed, Position, Saving
<1>8. Position(p, b, m)'
  BY <1>1, <1>2, <1>6, <1>7, PrefixGrows DEF Placed, Position, Saving
<1>9. Placed(p, b, m, n)'
  BY <1>1, <1>3, <1>6, <1>8 DEF Placed, IsOpen, EndTo
<1>. QED  BY <1>4, <1>9 DEF Transfer, Content

\* The user answers whether a file is to be overwritten.
LEMMA TransferAsks ==
  ASSUME Inv, NEW p \in Peer, Transfer(p), IsOpen(p), NEW l \in Line,
         AskOverwrite(p, l)
  PROVE  Transfer(p)'
<1>. DEFINE q == Other(p)
<1>1. /\ recvPc[p] = "askOverwrite" /\ recvPc'[p] \in Saving
      /\ UNCHANGED <<wire, sock, disk, mainPc, outgoingFile, sentChunks>>
      /\ filePathOnTarget'[p] \in {filePathOnTarget[p],
                                   FreshPath(p, askedPath[p])}
  BY DEF AskOverwrite, RecvGoto, Saving, negotiationVars, transportVars, Inv,
         TypeOK, FileTypeOK
<1>2. Vacant(p)
  BY <1>1 DEF Transfer, Waits, BeginPending
<1>3. Vacant(p)'
  <2>1. askedPath[p] \in Path
    BY <1>1 DEF Inv, AskedPathKnown, TypeOK, FileTypeOK
  <2>2. ~Exists(p, FreshPath(p, askedPath[p]))
    BY <2>1, FreshPathIsFree DEF Inv, TypeOK
  <2>3. PICK path : path = filePathOnTarget'[p]
    OBVIOUS
  <2>4. Written(p, path) \in {<<>>, OldContent}
    BY <1>1, <1>2, <2>2, <2>3 DEF Vacant, Written
  <2>5. disk' = disk
    BY <1>1
  <2>. QED  BY <2>3, <2>4, <2>5 DEF Vacant, Written, Exists
<1>4. PacketsTo(p)' = PacketsTo(p)
  BY <1>1 DEF PacketsTo
<1>5. sentChunks[q] # NotOpen
  BY <1>1 DEF Transfer, Waits, Saving
<1>6. EndTo(p)' = EndTo(p)
  BY <1>4 DEF EndTo
<1>7. Waits(p)'
  BY <1>1, <1>3, <1>5, <1>6 DEF Transfer, Waits
<1>8. Underway(p)
  <2>1. recvPc[p] \in Saving /\ recvPc[p] # "done"
    BY <1>1 DEF Saving
  <2>. QED  BY <1>5, <2>1 DEF Underway, Live
<1>9. PICK b \in Nat, m \in Nat, n \in Nat : Placed(p, b, m, n)
  BY <1>8 DEF Transfer, Content
<1>10. Position(p, b, m)'
  BY <1>1, <1>9 DEF Placed, Position, Saving
<1>11. Placed(p, b, m, n)'
  BY <1>1, <1>6, <1>9, <1>10 DEF Placed, IsOpen
<1>. QED  BY <1>7, <1>11 DEF Transfer, Content

\* A step that touches neither the stream to p nor p's receive thread nor its
\* copy.
LEMMA TransferAway ==
  ASSUME NEW p \in Peer, Transfer(p),
         wire'[p] = wire[p], recvPc'[p] = recvPc[p], disk'[p] = disk[p],
         filePathOnTarget'[p] = filePathOnTarget[p],
         outgoingFile'[Other(p)] = outgoingFile[Other(p)],
         sentChunks'[Other(p)] = sentChunks[Other(p)],
         mainPc'[Other(p)] \in Sending => mainPc'[Other(p)] = mainPc[Other(p)],
         \A r \in Peer : IsOpen(r)' => IsOpen(r)
  PROVE  Transfer(p)'
<1>1. Live(p)' => Live(p)
  BY TwoPeers DEF Live
<1>2. Written(p, filePathOnTarget[p])' = Written(p, filePathOnTarget[p])
  BY DEF Written, Exists
<1>. QED  BY <1>1, <1>2, TwoPeers, TransferKept

\* What p itself sends has no part in the transfer to p.
LEMMA TransferAnswers ==
  ASSUME TypeOK, NEW p \in Peer, Transfer(p),
         NEW pkt, NEW ok, NEW err, Send(p, pkt, ok, err),
         UNCHANGED <<disk, filePathOnTarget, outgoingFile>>,
         sentChunks'[Other(p)] = sentChunks[Other(p)]
  PROVE  Transfer(p)'
<1>. DEFINE q == Other(p)
<1>1. q \in Peer /\ q # p
  BY TwoPeers
<1>. /\ wire \in [Peer -> Seq(Packet)] /\ mainPc \in [Peer -> MainPc]
     /\ recvPc \in [Peer -> RecvPc] /\ sock \in [Peer -> SockState]
  BY DEF TypeOK, TransportTypeOK, WireOK
<1>2. mainPc'[q] = mainPc[q]
  BY <1>1 DEF Send, Die, MainGoto
<1>3. CASE wire'[p] = wire[p] /\ UNCHANGED <<recvPc, sock>>
  <2>1. \A r \in Peer : IsOpen(r)' => IsOpen(r)
    BY <1>3 DEF IsOpen
  <2>. QED  BY <1>1, <1>2, <1>3, <2>1, TransferAway
<1>4. CASE Die(p, "sigpipe")
  <2>1. /\ wire'[p] = <<>> /\ recvPc'[p] = "done" /\ mainPc'[p] = "sigpipe"
        /\ sock' = [sock EXCEPT ![p] = "closed"]
    BY <1>4 DEF Die, Close, MainGoto, RecvGoto
  <2>2. ~Live(p)'
    BY <2>1 DEF Live, IsOpen
  <2>3. Written(p, filePathOnTarget[p])' = Written(p, filePathOnTarget[p])
    BY DEF Written, Exists
  <2>4. recvPc'[p] \notin Saving /\ (IsOpen(q)' => IsOpen(q))
    BY <1>1, <2>1 DEF IsOpen, Saving
  <2>. QED  BY <1>1, <1>2, <2>1, <2>2, <2>3, <2>4, TransferKept
<1>5. (wire'[p] = wire[p] /\ UNCHANGED <<recvPc, sock>>) \/ Die(p, "sigpipe")
  BY <1>1 DEF Send, Delivered, Lost, Refused
<1>. QED  BY <1>3, <1>4, <1>5

\* What the peer sends besides FILE_BEGIN and the chunks.
LEMMA TransferHears ==
  ASSUME TypeOK, NEW p \in Peer, Transfer(p), NEW pkt \in Packet, NEW ok \in MainPc \ Sending,
         NEW err \in MainPc \ Sending,
         Send(Other(p), pkt, ok, err),
         \/ pkt.type \notin FrameType
         \/ pkt.type = "FILE_END" /\ sentChunks[Other(p)] # NotOpen,
         UNCHANGED <<disk, filePathOnTarget, outgoingFile, sentChunks>>
  PROVE  Transfer(p)'
<1>. DEFINE q == Other(p)
<1>1. q \in Peer /\ q # p
  BY TwoPeers
<1>2. /\ mainPc'[p] = mainPc[p] /\ recvPc'[p] = recvPc[p]
      /\ \/ /\ wire'[p] = Append(wire[p], pkt) /\ mainPc'[q] = ok
            /\ UNCHANGED sock /\ IsOpen(q)
         \/ /\ wire'[p] = wire[p] /\ mainPc'[q] \in {ok, err}
            /\ UNCHANGED sock
         \/ /\ wire'[p] = wire[p] /\ mainPc'[q] = "sigpipe"
            /\ ~IsOpen(q)' /\ sock'[p] = sock[p]
  BY SendOutcomes
<1>3. Written(p, filePathOnTarget[p])' = Written(p, filePathOnTarget[p])
  BY DEF Written, Exists
<1>4. mainPc'[q] \notin Sending
  BY <1>2 DEF Sending
<1>5. CASE wire'[p] = Append(wire[p], pkt) /\ UNCHANGED sock /\ IsOpen(q)
  BY <1>1, <1>2, <1>3, <1>4, <1>5, TransferSends
<1>6. CASE /\ wire'[p] = wire[p]
           /\ UNCHANGED sock \/ (~IsOpen(q)' /\ sock'[p] = sock[p])
  <2>1. \A r \in Peer : IsOpen(r)' => IsOpen(r)
    BY <1>1, <1>6, TwoPeers DEF IsOpen
  <2>. QED  BY <1>1, <1>2, <1>4, <1>6, <2>1, TransferAway
<1>. QED  BY <1>2, <1>5, <1>6

\* The steps of the main threads that send nothing.
LEMMA QuietTransfer ==
  ASSUME TypeOK, NEW p \in Peer, Transfer(p), NEW r \in Peer,
         UNCHANGED <<wire, recvPc, fileVars, outgoingFile, sentChunks>>,
         \A x \in Peer : IsOpen(x)' => IsOpen(x),
         NEW pc \in MainPc, MainGoto(r, pc), pc \notin Sending
  PROVE  Transfer(p)'
<1>1. Other(p) \in Peer
  BY TwoPeers
<1>. mainPc \in [Peer -> MainPc]
  BY DEF TypeOK
<1>2. mainPc'[Other(p)] \in Sending => mainPc'[Other(p)] = mainPc[Other(p)]
  BY <1>1 DEF MainGoto
<1>. QED  BY <1>1, <1>2, TransferAway DEF fileVars

\* A process ends.
LEMMA DieTransfer ==
  ASSUME TypeOK, NEW p \in Peer, Transfer(p), NEW r \in Peer,
         NEW how \in Ended, Die(r, how),
         UNCHANGED <<fileVars, outgoingFile, sentChunks>>
  PROVE  Transfer(p)'
<1>. DEFINE q == Other(p)
<1>1. q \in Peer /\ q # p /\ (r = p \/ r = q)
  BY TwoPeers
<1>. /\ wire \in [Peer -> Seq(Packet)] /\ mainPc \in [Peer -> MainPc]
     /\ recvPc \in [Peer -> RecvPc] /\ sock \in [Peer -> SockState]
  BY DEF TypeOK, TransportTypeOK, WireOK
<1>2. /\ \A x \in Peer : IsOpen(x)' => IsOpen(x)
      /\ mainPc'[q] \in Sending => mainPc'[q] = mainPc[q]
  BY <1>1 DEF Die, Close, MainGoto, IsOpen, Sending, Ended
<1>3. CASE r = q
  BY <1>1, <1>2, <1>3, TransferAway
     DEF Die, Close, MainGoto, RecvGoto, fileVars
<1>4. CASE r = p
  <2>1. wire'[p] = <<>> /\ recvPc'[p] = "done" /\ sock'[p] = "closed"
    BY <1>4 DEF Die, Close, RecvGoto
  <2>2. ~Live(p)' /\ recvPc'[p] \notin Saving
    BY <2>1 DEF Live, IsOpen, Saving
  <2>3. Written(p, filePathOnTarget[p])' = Written(p, filePathOnTarget[p])
    BY DEF Written, Exists, fileVars
  <2>. QED  BY <1>1, <1>2, <2>1, <2>2, <2>3, TransferKept
<1>. QED  BY <1>1, <1>3, <1>4

-----------------------------------------------------------------------------
(***************************************************************************)
(* The inductive invariant of the content, and that every step keeps it.   *)
(***************************************************************************)
\* A receive thread that has taken a FILE_BEGIN has its end open.
SavesOpen == \A p \in Peer : recvPc[p] \in Saving => IsOpen(p)

ContentInv ==
  /\ Inv /\ OrderInv /\ SavesOpen /\ PickedOnce
  /\ RequestStays /\ OfferedOnce /\ BegunOnce /\ CreditCovers
  /\ \A p \in Peer : Transfer(p)

\* A closed end stays closed.
LEMMA StaysClosed ==
  ASSUME TypeOK, [Next]_vars
  PROVE  \A p \in Peer : IsOpen(p)' => IsOpen(p)
BY NextMoves DEF StreamMoves, IsOpen

\* No end is closed under a receive thread that saves a file, but by the end
\* of its process.
LEMMA NextSaves ==
  ASSUME TypeOK, OrderInv, SavesOpen, [Next]_vars
  PROVE  SavesOpen'
<1>. /\ sock \in [Peer -> SockState] /\ recvPc \in [Peer -> RecvPc]
  BY DEF TypeOK, TransportTypeOK
<1>. USE DEF negotiationVars, flagVars, transportVars, fileVars
<1>1. ASSUME \A r \in Peer : IsOpen(r) => IsOpen(r)',
             \A r \in Peer :
               recvPc'[r] \in Saving => recvPc[r] \in Saving \/ IsOpen(r)
      PROVE  SavesOpen'
  BY <1>1 DEF SavesOpen
<1>2. ASSUME NEW p \in Peer, NEW how, Die(p, how)
      PROVE  SavesOpen'
  BY <1>2 DEF Die, Close, RecvGoto, SavesOpen, IsOpen, Saving
<1>3. ASSUME UNCHANGED <<sock, recvPc>>
      PROVE  SavesOpen'
  BY <1>3 DEF SavesOpen, IsOpen
<1>4. ASSUME NEW p \in Peer, NEW pkt, NEW ok, NEW err, Send(p, pkt, ok, err)
      PROVE  SavesOpen'
  BY <1>2, <1>3, <1>4 DEF Send
<1>5. CASE \E p \in Peer : MainStep(p) \/ Ends(p)
  <2>. PICK p \in Peer : MainStep(p) \/ Ends(p)
    BY <1>5
  <2>1. CASE \/ p = Server /\ (Announce \/ StopAnnounce)
             \/ SendAccept(p) \/ SendReject(p) \/ SendRequest(p)
             \/ SendBegin(p) \/ SendChunk(p) \/ SendEnd(p) \/ SendText(p)
    BY <1>4, <2>1
       DEF Announce, StopAnnounce, SendAccept, SendReject, SendRequest,
           SendBegin, SendChunk, SendEnd, SendText
  <2>2. CASE p = Server /\ StopShut
    BY <1>1, <2>2 DEF StopShut, Shutdown, IsOpen
  <2>3. CASE Ends(p)
    BY <1>2, <2>3, EndsDies
  <2>4. CASE \/ MainLoop(p) \/ AnswerSent(p) \/ DropRequest(p)
             \/ RequestSent(p) \/ NothingToSend(p) \/ StartSendFile(p)
             \/ CannotSendFile(p) \/ EndSend(p)
    BY <1>3, <2>4
       DEF MainLoop, AnswerSent, DropRequest, RequestSent, NothingToSend,
           StartSendFile, CannotSendFile, EndSend
  <2>. QED  BY <2>1, <2>2, <2>3, <2>4 DEF MainStep, Ends
<1>6. ASSUME NEW p \in Peer, UserStep(p), ~Ends(p)
      PROVE  SavesOpen'
  <2>1. ASSUME NEW l \in Line, AskOverwrite(p, l)
        PROVE  SavesOpen'
    <3>1. sock' = sock /\ \A r \in Peer :
            recvPc'[r] \in Saving => recvPc[r] \in Saving
      BY <2>1 DEF AskOverwrite, RecvGoto, Saving
    <3>. QED  BY <1>1, <3>1 DEF IsOpen
  <2>. QED  BY <1>3, <1>6, <2>1
            DEF UserStep, ReadLine, PickTarget, CancelSaveDialog, PickFile,
                DeclineFile, Ends
<1>7. ASSUME NEW p \in Peer, RecvStep(p), ~BeginThrows(p)
      PROVE  SavesOpen'
  <2>1. CASE RecvText(p) \/ RecvError(p)
    BY <2>1 DEF RecvText, RecvError, Close, RecvGoto, SavesOpen, IsOpen, Saving
  <2>2. CASE RecvBegin(p)
    <3>1. IsOpen(p)
      BY <2>2 DEF RecvBegin, Receives, OrderInv, ClosedIsEmpty, IsOpen
    <3>. QED  BY <2>2, <3>1 DEF RecvBegin, RecvGoto, SavesOpen, IsOpen
  <2>3. CASE \/ RecvLoop(p) \/ RecvRequest(p) \/ RecvAccept(p)
             \/ RecvReject(p) \/ IgnoreFrame(p) \/ CreateTarget(p)
             \/ RecvChunk(p) \/ RecvEnd(p) \/ RecvEof(p)
    <3>1. \A r \in Peer : IsOpen(r) => IsOpen(r)'
      BY <2>3
         DEF RecvLoop, RecvRequest, RecvAccept, RecvReject, IgnoreFrame,
             CreateTarget, RecvChunk, RecvEnd, RecvEof, Shutdown, IsOpen
    <3>2. \A r \in Peer : recvPc'[r] \in Saving => recvPc[r] \in Saving
      BY <2>3
         DEF RecvLoop, RecvRequest, RecvAccept, RecvReject, IgnoreFrame,
             CreateTarget, RecvChunk, RecvEnd, RecvEof, RecvGoto, Saving
    <3>. QED  BY <1>1, <3>1, <3>2
  <2>. QED  BY <1>7, <2>1, <2>2, <2>3 DEF RecvStep
<1>8. CASE UNCHANGED vars
  BY <1>3, <1>8 DEF vars
<1>. QED  BY <1>5, <1>6, <1>7, <1>8 DEF Next, Ends

\* While the user of p still has to answer, or while the answer has not been
\* used, the file for p has not been begun.
LEMMA NotBegun ==
  ASSUME ContentInv, NEW p \in Peer,
         mainPc[p] = "saveDialog" \/ Holds(Other(p))
  PROVE  ~Begun(Other(p))
<1>. DEFINE q == Other(p)
            answers == lines[p]["/a"]
                         + (IF mainPc[p] \in Answering THEN 1 ELSE 0)
<1>1. q \in Peer
  BY TwoPeers
<1>2. answers + credit[q] + (IF Begun(q) THEN 1 ELSE 0) <= 1
  BY DEF ContentInv, BegunOnce
<1>3. credit[q] >= Acceptances(wire[q]) + Held(q)
  BY <1>1 DEF ContentInv, CreditCovers
<1>4. credit[q] \in Int /\ Acceptances(wire[q]) \in Nat
      /\ lines[p]["/a"] \in Nat
  <2>1. wire[q] \in Seq(Packet)
    BY <1>1 DEF ContentInv, Inv, TypeOK, TransportTypeOK, WireOK
  <2>2. "/a" \in Line
    BY DEF Line
  <2>. QED  BY <1>1, <2>1, <2>2, AcceptancesType
            DEF ContentInv, Inv, TypeOK
<1>5. Held(q) \in {0, 1} /\ (Holds(q) => Held(q) = 1)
  BY DEF Held
<1>6. mainPc[p] = "saveDialog" => mainPc[p] \in Answering
  BY DEF Answering
<1>. HIDE DEF q
<1>. QED  BY <1>2, <1>3, <1>4, <1>5, <1>6 DEF q

\* The steps of the main threads.
LEMMA TransferMain ==
  ASSUME ContentInv, NEW p \in Peer, NEW r \in Peer, MainStep(r)
  PROVE  Transfer(p)'
<1>. DEFINE q == Other(p)
<1>1. q \in Peer /\ q # p /\ (r = p \/ r = q)
  BY TwoPeers
<1>2. /\ TypeOK /\ Inv /\ OrderInv /\ Transfer(p)
      /\ mainPc \in [Peer -> MainPc] /\ sentChunks \in [Peer -> Nat \cup {NotOpen}]
      /\ \A x \in Peer : IsOpen(x)' => IsOpen(x)
  BY StaysClosed DEF ContentInv, Inv, TypeOK, Next
<1>. USE DEF transportVars, negotiationVars, fileVars
<1>3. CASE \/ r = Server /\ StopShut
           \/ MainLoop(r) \/ AnswerSent(r) \/ DropRequest(r)
           \/ RequestSent(r) \/ NothingToSend(r) \/ CannotSendFile(r)
           \/ EndSend(r)
  <2>1. UNCHANGED <<wire, recvPc, fileVars, outgoingFile, sentChunks>>
    BY <1>3 DEF StopShut, MainLoop, AnswerSent, DropRequest, RequestSent,
                NothingToSend, CannotSendFile, EndSend
  <2>2. \E pc \in MainPc \ Sending : MainGoto(r, pc)
    BY <1>3 DEF StopShut, MainLoop, AnswerSent, DropRequest, RequestSent,
                NothingToSend, CannotSendFile, EndSend, MainPc, Sending
  <2>. QED  BY <1>2, <2>1, <2>2, QuietTransfer
<1>4. CASE Ends(r)
  <2>1. PICK how \in Ended : Die(r, how)
    BY <1>4, EndsDies
  <2>2. UNCHANGED <<fileVars, outgoingFile, sentChunks>>
    BY <1>4, EndsDies
  <2>. QED  BY <1>2, <2>1, <2>2, DieTransfer
<1>5. ASSUME \/ r = Server /\ (Announce \/ StopAnnounce)
             \/ SendAccept(r) \/ SendReject(r) \/ SendRequest(r)
             \/ SendBegin(r) \/ SendChunk(r) \/ SendEnd(r) \/ SendText(r)
      PROVE  /\ UNCHANGED <<disk, filePathOnTarget, outgoingFile>>
             /\ SendBegin(r) \/ SendChunk(r) \/ sentChunks' = sentChunks
             /\ sentChunks'[Other(r)] = sentChunks[Other(r)]
             /\ \E pkt, ok, err : Send(r, pkt, ok, err)
  <2>1. UNCHANGED <<disk, filePathOnTarget, outgoingFile>>
    BY <1>5
       DEF Announce, StopAnnounce, SendAccept, SendReject, SendRequest,
           SendBegin, SendChunk, SendEnd, SendText
  <2>2. SendBegin(r) \/ SendChunk(r) \/ sentChunks' = sentChunks
    BY <1>5
       DEF Announce, StopAnnounce, SendAccept, SendReject, SendRequest,
           SendEnd, SendText
  <2>3. sentChunks'[Other(r)] = sentChunks[Other(r)]
    BY <1>2, <2>2, TwoPeers DEF SendBegin, SendChunk
  <2>4. \E pkt, ok, err : Send(r, pkt, ok, err)
    BY <1>5
       DEF Announce, StopAnnounce, SendAccept, SendReject, SendRequest,
           SendBegin, SendChunk, SendEnd, SendText
  <2>. QED  BY <2>1, <2>2, <2>3, <2>4
<1>6. CASE /\ r = p
           /\ \/ r = Server /\ (Announce \/ StopAnnounce)
              \/ SendAccept(r) \/ SendReject(r) \/ SendRequest(r)
              \/ SendBegin(r) \/ SendChunk(r) \/ SendEnd(r) \/ SendText(r)
  BY <1>2, <1>5, <1>6, TransferAnswers
<1>7. CASE r = q /\ (SendBegin(r) \/ SendChunk(r))
  BY <1>1, <1>2, <1>7, TransferBegins, TransferReads
<1>8. CASE /\ r = q
           /\ \/ r = Server /\ (Announce \/ StopAnnounce)
              \/ SendAccept(r) \/ SendReject(r) \/ SendRequest(r)
              \/ SendEnd(r) \/ SendText(r)
  <2>1. \E pkt \in Packet, ok, err \in MainPc \ Sending :
          /\ Send(q, pkt, ok, err)
          /\ \/ pkt.type \notin FrameType
             \/ pkt.type = "FILE_END" /\ sentChunks[q] # NotOpen
    <3>1. {"loop", "leave", "checkSend", "acceptSent", "rejectSent",
           "dropRequest", "requestSent", "endSend", "stopShut"}
             \subseteq MainPc \ Sending
      BY DEF MainPc, Sending
    <3>2. CASE r = Server /\ (Announce \/ StopAnnounce)
      <4>1. PICK stray \in StrayCtl, pc \in {"loop", "stopShut"} :
              Send(q, Broadcast(stray), pc, pc)
        BY <1>8, <3>2 DEF Announce, StopAnnounce
      <4>2. Broadcast(stray) \in Packet /\ Broadcast(stray).type \notin FrameType
        BY BuiltPackets DEF Broadcast, FrameType
      <4>. QED  BY <3>1, <4>1, <4>2
    <3>3. CASE SendAccept(r)
      <4>1. Answer("FILE_ACCEPT") \in Packet
            /\ Answer("FILE_ACCEPT").type \notin FrameType
        BY BuiltPackets DEF Answer, FrameType
      <4>. QED  BY <1>8, <3>1, <3>3, <4>1 DEF SendAccept
    <3>4. CASE SendReject(r)
      <4>1. Answer("FILE_REJECT") \in Packet
            /\ Answer("FILE_REJECT").type \notin FrameType
        BY BuiltPackets DEF Answer, FrameType
      <4>. QED  BY <1>8, <3>1, <3>4, <4>1 DEF SendReject
    <3>5. CASE SendRequest(r)
      <4>1. outgoingFile[q] \in File \cup {NoFile}
        BY <1>1, <1>2 DEF TypeOK
      <4>2. Request(outgoingFile[q]) \in Packet
            /\ Request(outgoingFile[q]).type \notin FrameType
        BY <4>1, BuiltPackets DEF Request, FrameType
      <4>. QED  BY <1>8, <3>1, <3>5, <4>2 DEF SendRequest
    <3>6. CASE SendEnd(r)
      <4>1. Marker("FILE_END") \in Packet /\ Marker("FILE_END").type = "FILE_END"
        BY BuiltPackets DEF Marker, FrameType
      <4>2. sentChunks[q] # NotOpen
        BY <1>2, <1>8, <3>6 DEF SendEnd, Transfer, Waits
      <4>. QED  BY <1>8, <3>1, <3>6, <4>1, <4>2 DEF SendEnd
    <3>7. CASE SendText(r)
      <4>1. Text \in Packet /\ Text.type \notin FrameType
        BY BuiltPackets DEF Text, FrameType
      <4>. QED  BY <1>8, <3>1, <3>7, <4>1 DEF SendText
    <3>. QED  BY <1>8, <3>2, <3>3, <3>4, <3>5, <3>6, <3>7
  <2>2. UNCHANGED <<disk, filePathOnTarget, outgoingFile, sentChunks>>
    BY <1>8
       DEF Announce, StopAnnounce, SendAccept, SendReject, SendRequest,
           SendEnd, SendText
  <2>. QED  BY <1>2, <1>5, <1>8, <2>1, <2>2, TransferHears
<1>9. CASE StartSendFile(r)
  <2>1. /\ mainPc[r] = "checkSend" /\ fileSendInProgress[r]
        /\ MainGoto(r, "sendBegin")
        /\ sentChunks' = [sentChunks EXCEPT ![r] = NotOpen]
        /\ UNCHANGED <<wire, recvPc, disk, filePathOnTarget, outgoingFile>>
    BY <1>9 DEF StartSendFile
  <2>3. CASE r = p
    BY <1>1, <1>2, <2>1, <2>3, TransferAway DEF MainGoto
  <2>4. CASE r = q
    <3>1. Holds(q)
      BY <2>1, <2>4 DEF Holds, Busy, Ended, Sending
    <3>2. sentChunks[q] = NotOpen
      BY <3>1, NotBegun DEF Begun
    <3>3. Vacant(p)'
      BY <1>2, <2>1, <3>2 DEF Transfer, Waits, Vacant, Written, Exists
    <3>4. sentChunks'[q] = NotOpen /\ mainPc'[q] = "sendBegin"
      BY <1>1, <1>2, <2>1, <2>4 DEF MainGoto
    <3>. QED  BY <1>2, <2>1, <3>2, <3>3, <3>4, TransferUnopened
  <2>. QED  BY <1>1, <2>3, <2>4
<1>. QED  BY <1>1, <1>3, <1>4, <1>6, <1>7, <1>8, <1>9 DEF MainStep, Ends

\* The steps of the users.
LEMMA TransferUser ==
  ASSUME ContentInv, NEW p \in Peer, NEW r \in Peer, UserStep(r)
  PROVE  Transfer(p)'
<1>. DEFINE q == Other(p)
<1>1. q \in Peer /\ q # p /\ (r = p \/ r = q)
  BY TwoPeers
<1>2. /\ TypeOK /\ Inv /\ Transfer(p)
      /\ mainPc \in [Peer -> MainPc] /\ recvPc \in [Peer -> RecvPc]
      /\ filePathOnTarget \in [Peer -> Path \cup {NoPath}]
      /\ outgoingFile \in [Peer -> File \cup {NoFile}]
      /\ \A x \in Peer : IsOpen(x)' => IsOpen(x)
  BY StaysClosed DEF ContentInv, Inv, TypeOK, FileTypeOK, Next
<1>. USE DEF transportVars, negotiationVars
<1>3. ASSUME \/ \E l \in Line : ReadLine(r, l)
             \/ CancelSaveDialog(r) \/ DeclineFile(r)
      PROVE  Transfer(p)'
  <2>1. UNCHANGED <<wire, recvPc, fileVars, outgoingFile, sentChunks>>
    BY <1>3 DEF ReadLine, CancelSaveDialog, DeclineFile
  <2>2. \E pc \in MainPc \ Sending : MainGoto(r, pc)
    <3>1. \A l : Dispatch(r, l) \in MainPc \ Sending
      <4>1. \A l : Dispatch(r, l) \in {"leave", "loop", "join", "saveDialog",
                                      "sendReject", "stopAnnounce",
                                      "openDialog", "checkSend"}
        BY DEF Dispatch
      <4>. QED  BY <4>1 DEF MainPc, Sending
    <3>2. "checkSend" \in MainPc \ Sending
      BY DEF MainPc, Sending
    <3>. QED  BY <1>3, <3>1, <3>2 DEF ReadLine, CancelSaveDialog, DeclineFile
  <2>. QED  BY <1>2, <2>1, <2>2, QuietTransfer
<1>4. CASE Ends(r)
  <2>1. PICK how \in Ended : Die(r, how)
    BY <1>4, EndsDies
  <2>2. UNCHANGED <<fileVars, outgoingFile, sentChunks>>
    BY <1>4, EndsDies
  <2>. QED  BY <1>2, <2>1, <2>2, DieTransfer
<1>5. ASSUME NEW l \in Line, AskOverwrite(r, l)
      PROVE  Transfer(p)'
  <2>1. CASE r = p
    <3>1. IsOpen(p)
      BY <1>5, <2>1 DEF ContentInv, SavesOpen, Saving, AskOverwrite
    <3>. QED  BY <1>2, <1>5, <2>1, <3>1, TransferAsks
  <2>2. CASE r = q
    BY <1>1, <1>2, <1>5, <2>2, TransferAway
       DEF AskOverwrite, RecvGoto
  <2>. QED  BY <1>1, <2>1, <2>2
<1>6. ASSUME NEW f \in File, PickFile(r, f)
      PROVE  Transfer(p)'
  <2>1. /\ mainPc[r] = "openDialog" /\ MainGoto(r, "sendRequest")
        /\ outgoingFile' = [outgoingFile EXCEPT ![r] = f]
        /\ UNCHANGED <<wire, recvPc, disk, filePathOnTarget, sentChunks>>
    BY <1>6 DEF PickFile, fileVars
  <2>3. CASE r = p
    BY <1>1, <1>2, <2>1, <2>3, TransferAway DEF MainGoto
  <2>4. CASE r = q
    <3>1. sentChunks[q] = NotOpen
      BY <1>1, <2>1, <2>4 DEF ContentInv, OfferedOnce, Unoffered
    <3>2. Vacant(p)'
      BY <1>2, <2>1, <3>1 DEF Transfer, Waits, Vacant, Written, Exists
    <3>3. sentChunks'[q] = NotOpen /\ mainPc'[q] = "sendRequest"
      BY <1>1, <1>2, <2>1, <2>4, <3>1 DEF MainGoto
    <3>. QED  BY <1>2, <2>1, <3>1, <3>2, <3>3, TransferUnopened
  <2>. QED  BY <1>1, <2>3, <2>4
<1>7. ASSUME NEW name \in Name, PickTarget(r, name)
      PROVE  Transfer(p)'
  <2>1. /\ mainPc[r] = "saveDialog" /\ MainGoto(r, "sendAccept")
        /\ filePathOnTarget' = [filePathOnTarget EXCEPT ![r] = Bare(name)]
        /\ UNCHANGED <<wire, recvPc, disk, outgoingFile, sentChunks>>
    BY <1>7 DEF PickTarget
  <2>3. mainPc'[q] \in Sending => mainPc'[q] = mainPc[q]
    BY <1>1, <1>2, <2>1 DEF MainGoto, Sending
  <2>4. CASE r = q
    BY <1>1, <1>2, <2>1, <2>3, <2>4, TransferAway
  <2>5. CASE r = p
    <3>1. sentChunks[q] = NotOpen /\ mainPc[q] \notin Sending
      BY <2>1, <2>5, NotBegun DEF Begun
    <3>2. disk[p] = [path \in OldPaths(p) |-> OldContent]
      BY <2>1, <2>5 DEF ContentInv, PickedOnce, Inv, NothingBeforeTarget
    <3>3. Vacant(p)'
      <4>1. \A path : Written(p, path) \in {<<>>, OldContent}
        BY <3>2 DEF Written, Exists
      <4>2. PICK path : path = filePathOnTarget'[p]
        OBVIOUS
      <4>. QED  BY <2>1, <4>1, <4>2 DEF Vacant, Written, Exists
    <3>4. mainPc'[q] # "sendChunks"
      BY <2>3, <3>1 DEF Sending
    <3>. QED  BY <1>2, <2>1, <3>1, <3>3, <3>4, TransferUnopened
  <2>. QED  BY <1>1, <2>4, <2>5
<1>. QED  BY <1>3, <1>4, <1>5, <1>6, <1>7 DEF UserStep, Ends

\* The steps of the receive thread at the other end.
LEMMA TransferElsewhere ==
  ASSUME TypeOK, NEW p \in Peer, Transfer(p),
         RecvStep(Other(p)), ~BeginThrows(Other(p))
  PROVE  Transfer(p)'
<1>. DEFINE q == Other(p)
<1>1. q \in Peer /\ q # p
  BY TwoPeers
<1>. /\ wire \in [Peer -> Seq(Packet)] /\ recvPc \in [Peer -> RecvPc]
  BY DEF TypeOK, TransportTypeOK, WireOK
<1>. USE DEF transportVars, negotiationVars, fileVars
<1>2. UNCHANGED <<mainPc, outgoingFile, sentChunks, filePathOnTarget>>
  BY DEF RecvStep, RecvLoop, RecvText, RecvRequest, RecvAccept, RecvReject,
         IgnoreFrame, RecvBegin, CreateTarget, RecvChunk, RecvEnd, RecvEof,
         RecvError
<1>3. \E pc : RecvGoto(q, pc)
  BY DEF RecvStep, RecvLoop, RecvText, RecvRequest, RecvAccept, RecvReject,
         IgnoreFrame, RecvBegin, CreateTarget, RecvChunk, RecvEnd, RecvEof,
         RecvError
<1>4. \/ wire' = wire \/ Takes(q)
      \/ wire' = [wire EXCEPT ![q] = <<>>]
  BY DEF RecvStep, RecvLoop, RecvText, RecvRequest, RecvAccept, RecvReject,
         IgnoreFrame, RecvBegin, CreateTarget, RecvChunk, RecvEnd, RecvEof,
         RecvError, Close
<1>5. disk'[p] = disk[p]
  <2>1. \/ disk' = disk
        \/ \E path, content : Write(q, path, content)
    BY DEF RecvStep, RecvLoop, RecvText, RecvRequest, RecvAccept, RecvReject,
           IgnoreFrame, RecvBegin, CreateTarget, RecvChunk, RecvEnd, RecvEof,
           RecvError, Truncate, AppendChunk
  <2>. QED  BY <1>1, <2>1, WriteKeeps
<1>6. wire'[p] = wire[p] /\ recvPc'[p] = recvPc[p]
  BY <1>1, <1>3, <1>4 DEF Takes, RecvGoto
<1>7. \A r \in Peer : IsOpen(r)' => IsOpen(r)
  BY <1>1, StaysClosed DEF Next
<1>. QED  BY <1>1, <1>2, <1>5, <1>6, <1>7, TransferAway

\* The steps of the receive thread of p.
LEMMA TransferRecv ==
  ASSUME ContentInv, DiskWorks, NEW p \in Peer, RecvStep(p), ~BeginThrows(p)
  PROVE  Transfer(p)'
<1>. DEFINE q == Other(p)
<1>1. q \in Peer /\ q # p
  BY TwoPeers
<1>2. /\ TypeOK /\ Inv /\ Transfer(p)
      /\ wire \in [Peer -> Seq(Packet)] /\ recvPc \in [Peer -> RecvPc]
      /\ sock \in [Peer -> SockState]
      /\ \A r \in Peer : IsOpen(r)' => IsOpen(r)
  BY StaysClosed DEF ContentInv, Inv, TypeOK, TransportTypeOK, WireOK, Next
<1>. USE DEF transportVars, negotiationVars, fileVars
<1>3. wire[p] # <<>> => Head(wire[p]) \in PacketsTo(p) /\ IsOpen(p)
  BY <1>2, HeadIsMember
     DEF PacketsTo, ContentInv, OrderInv, ClosedIsEmpty, IsOpen
<1>4. CASE \/ RecvText(p) /\ UNCHANGED sock
           \/ RecvRequest(p) \/ RecvAccept(p) \/ RecvReject(p) \/ RecvEnd(p)
  <2>1. recvPc[p] = "recv" /\ wire[p] # <<>> /\ Head(wire[p]).type \notin OfFile
    BY <1>4 DEF RecvText, RecvRequest, RecvAccept, RecvReject, RecvEnd,
                Receives, OfFile
  <2>2. IsOpen(p)
    BY <1>3, <2>1
  <2>3. Takes(p) /\ UNCHANGED sock
    BY <1>2, <1>4, <2>2
       DEF RecvText, RecvRequest, RecvAccept, RecvReject, RecvEnd, Close,
           IsOpen
  <2>4. recvPc'[p] \notin Saving
        /\ UNCHANGED <<filePathOnTarget, disk, mainPc, outgoingFile,
                       sentChunks>>
    BY <1>2, <1>4 DEF RecvText, RecvRequest, RecvAccept, RecvReject, RecvEnd,
                      RecvGoto, Saving
  <2>. QED  BY <1>2, <2>1, <2>3, <2>4, TransferTakes
<1>5. ~IgnoreFrame(p)
  <2>. SUFFICES ASSUME IgnoreFrame(p) PROVE FALSE
    OBVIOUS
  <2>1. FrameTo(p)
    BY <1>3 DEF IgnoreFrame, Receives, FrameTo
  <2>2. filePathOnTarget[p] # NoPath
    BY <1>2, <2>1 DEF Inv, NothingBeforeTarget
  <2>3. incomingActive[p]
    BY <2>2 DEF ContentInv, RequestStays
  <2>. QED  BY <2>3 DEF IgnoreFrame, HandlesFrames
<1>6. CASE RecvBegin(p) \/ CreateTarget(p) \/ RecvChunk(p)
  <2>1. IsOpen(p)
    <3>1. CASE CreateTarget(p)
      BY <3>1 DEF CreateTarget, ContentInv, SavesOpen, Saving
    <3>2. CASE RecvBegin(p) \/ RecvChunk(p)
      BY <1>3, <3>2 DEF RecvBegin, RecvChunk, Receives
    <3>. QED  BY <1>6, <3>1, <3>2
  <2>. QED  BY <1>2, <1>6, <2>1, TransferBeginTaken, TransferCreates,
               TransferChunkTaken
<1>7. CASE RecvLoop(p) \/ RecvEof(p)
  <2>1. /\ wire' = wire
        /\ UNCHANGED <<fileVars, mainPc, outgoingFile, sentChunks>>
    BY <1>7 DEF RecvLoop, RecvEof
  <2>2. recvPc[p] \notin Saving \cup {"done"} /\ recvPc'[p] \notin Saving
    BY <1>2, <1>7 DEF RecvLoop, RecvEof, RecvGoto, Saving
  <2>3. Live(p)' => Live(p)
    BY <1>1, <1>2, <2>2 DEF Live
  <2>4. Written(p, filePathOnTarget[p])' = Written(p, filePathOnTarget[p])
    BY <2>1 DEF Written, Exists
  <2>. QED  BY <1>1, <1>2, <2>1, <2>2, <2>3, <2>4, TransferKept
\* The client obeys END_CONNECTION, or recv fails.
<1>8. CASE (RecvText(p) /\ ~UNCHANGED sock) \/ RecvError(p)
  <2>1. /\ wire'[p] = <<>> /\ recvPc'[p] \notin Saving
        /\ UNCHANGED <<fileVars, mainPc, outgoingFile, sentChunks>>
    BY <1>2, <1>8 DEF RecvText, RecvError, Close, RecvGoto, Saving
  <2>2. ~Live(p)'
    <3>1. CASE RecvText(p) /\ ~UNCHANGED sock
      <4>1. sock'[p] = "closed"
        BY <1>2, <3>1 DEF RecvText, Close
      <4>. QED  BY <4>1 DEF Live, IsOpen
    <3>2. CASE RecvError(p)
      <4>1. sock[q] = "closed" /\ recvPc'[p] = "done"
        BY <1>2, <3>2 DEF RecvError, RecvGoto, ConnectionReset, PeerGone
      <4>2. ~IsOpen(q)'
        BY <1>1, <1>2, <4>1 DEF IsOpen
      <4>. QED  BY <4>1, <4>2 DEF Live
    <3>. QED  BY <1>8, <3>1, <3>2
  <2>3. Written(p, filePathOnTarget[p])' = Written(p, filePathOnTarget[p])
    BY <2>1 DEF Written, Exists
  <2>. QED  BY <1>1, <1>2, <2>1, <2>2, <2>3, TransferKept
<1>. QED  BY <1>4, <1>5, <1>6, <1>7, <1>8 DEF RecvStep

LEMMA ContentInit ==
  ASSUME OneFileEach
  PROVE  Init => ContentInv
<1>. SUFFICES ASSUME Init PROVE ContentInv
  OBVIOUS
<1>1. Inv /\ CreditCovers
  BY InitInv, InitCovers
<1>2. /\ \A p \in Peer : wire[p] = <<>> /\ mainPc[p] \in {"announce", "loop"}
      /\ \A p \in Peer : recvPc[p] = "loop" /\ filePathOnTarget[p] = NoPath
      /\ \A p \in Peer : sock[p] = "open" /\ connected[p]
      /\ \A p \in Peer : disk[p] = [path \in OldPaths(p) |-> OldContent]
      /\ \A p \in Peer : sentChunks[p] = NotOpen /\ credit[p] = 0
      /\ \A p \in Peer : ~activeFileNegReq[p] /\ ~fileSendInProgress[p]
      /\ lines = Budget
  BY DEF Init, TransportInit, FileInit
<1>3. Len(<<>>) = 0
  BY EmptySeq
<1>4. \A p \in Peer : PacketsTo(p) = {}
  BY <1>2, <1>3 DEF PacketsTo
<1>5. \A p \in Peer : mainPc[p] \notin Ended \cup Rejecting \cup Sending
                                       \cup Answering \cup Offering
                      /\ mainPc[p] \notin {"saveDialog", "openDialog"}
  BY <1>2 DEF Ended, Rejecting, Sending, Answering, Offering
<1>6. SavesOpen
  BY <1>2 DEF SavesOpen, Saving
<1>7. OrderInv
  <2>1. \A p \in Peer : mainPc[Other(p)] # "sendChunks"
    BY <1>5, TwoPeers DEF Sending
  <2>. QED  BY <1>2, <1>3, <2>1 DEF OrderInv, FramesInOrder, ClosedIsEmpty
<1>8. PickedOnce
  BY <1>2, <1>5, BudgetAssumption DEF PickedOnce
<1>9. RequestStays
  BY <1>2, <1>4, <1>5 DEF RequestStays
<1>10. OfferedOnce
  BY <1>2, <1>5 DEF OfferedOnce, Unoffered
<1>11. BegunOnce
  <2>. SUFFICES ASSUME NEW p \in Peer
       PROVE  lines[p]["/a"] + (IF mainPc[p] \in Answering THEN 1 ELSE 0)
                + credit[Other(p)] + (IF Begun(Other(p)) THEN 1 ELSE 0) <= 1
    BY DEF BegunOnce
  <2>1. Other(p) \in Peer
    BY TwoPeers
  <2>2. ~Begun(Other(p)) /\ credit[Other(p)] = 0 /\ mainPc[p] \notin Answering
    BY <1>2, <1>5, <2>1 DEF Begun
  <2>3. lines[p]["/a"] <= 1 /\ lines[p]["/a"] \in Nat
    <3>1. "/a" \in Line /\ lines = Budget
      BY <1>2 DEF Line
    <3>. QED  BY <3>1, BudgetAssumption DEF OneFileEach
  <2>. QED  BY <2>2, <2>3
<1>12. ASSUME NEW p \in Peer
       PROVE  Transfer(p)
  <2>1. Other(p) \in Peer
    BY TwoPeers
  <2>2. ~FrameTo(p) /\ ~EndTo(p) /\ recvPc[p] \notin Saving
    BY <1>2, <1>4 DEF FrameTo, EndTo, Saving
  <2>3. Vacant(p)
    <3>1. PICK path : path = filePathOnTarget[p]
      OBVIOUS
    <3>2. PICK d : d = disk[p]
      OBVIOUS
    <3>3. d = [x \in OldPaths(p) |-> OldContent]
      BY <1>2, <3>2
    <3>. QED  BY <3>1, <3>2, <3>3 DEF Vacant, Written, Exists
  <2>4. mainPc[Other(p)] \notin Sending /\ sentChunks[Other(p)] = NotOpen
    BY <1>2, <1>5, <2>1
  <2>. QED  BY <2>2, <2>3, <2>4
            DEF Transfer, Waits, Content, Underway, Sending
<1>. QED  BY <1>1, <1>6, <1>7, <1>8, <1>9, <1>10, <1>11, <1>12 DEF ContentInv

LEMMA ContentNext ==
  ASSUME OneFileEach, DiskWorks
  PROVE  ContentInv /\ [Next]_vars => ContentInv'
<1>. SUFFICES ASSUME ContentInv, [Next]_vars PROVE ContentInv'
  OBVIOUS
<1>1. /\ Inv /\ OrderInv /\ SavesOpen /\ PickedOnce /\ RequestStays
      /\ OfferedOnce /\ BegunOnce /\ CreditCovers
      /\ TypeOK
  BY DEF ContentInv, Inv
<1>2. Inv' /\ TypeOK'
  BY <1>1, NextInv DEF Inv
<1>3. SavesOpen'
  BY <1>1, NextSaves
<1>4. OrderInv'
  BY <1>1, NextMoves, OrderArgument
<1>5. PickedOnce'
  BY <1>1, NextPicked DEF OneFileEach
<1>6. RequestStays'
  BY <1>1, NextRequest
<1>7. OfferedOnce' /\ BegunOnce' /\ CreditCovers'
  BY <1>1, <1>2, NextOffered, NextBegun, NextCovers
<1>8. ASSUME NEW p \in Peer
      PROVE  Transfer(p)'
  <2>1. ASSUME NEW r \in Peer, UserStep(r) \/ MainStep(r)
        PROVE  Transfer(p)'
    BY <2>1, TransferUser, TransferMain
  <2>2. ASSUME NEW r \in Peer, RecvStep(r)
        PROVE  Transfer(p)'
    <3>1. Transfer(p) /\ (r = p \/ r = Other(p))
      BY TwoPeers DEF ContentInv
    <3>2. CASE BeginThrows(r)
      <4>1. PICK how \in Ended : Die(r, how)
        BY <3>2, EndsDies DEF Ends
      <4>2. UNCHANGED <<fileVars, outgoingFile, sentChunks>>
        BY <3>2 DEF BeginThrows, negotiationVars
      <4>. QED  BY <1>1, <3>1, <4>1, <4>2, DieTransfer
    <3>3. CASE ~BeginThrows(r)
      BY <1>1, <2>2, <3>1, <3>3, TransferRecv, TransferElsewhere
    <3>. QED  BY <3>2, <3>3
  <2>3. CASE UNCHANGED vars
    <3>1. /\ UNCHANGED <<wire, sock, recvPc, mainPc, disk, filePathOnTarget>>
          /\ UNCHANGED <<outgoingFile, sentChunks>>
      BY <2>3 DEF vars, transportVars, fileVars, negotiationVars
    <3>2. Transfer(p) /\ \A r \in Peer : IsOpen(r)' => IsOpen(r)
      BY <3>1 DEF ContentInv, IsOpen
    <3>. QED  BY <3>1, <3>2, TransferAway
  <2>. QED  BY <2>1, <2>2, <2>3 DEF Next
<1>. QED  BY <1>2, <1>3, <1>4, <1>5, <1>6, <1>7, <1>8 DEF ContentInv

\* What has been written and what is on its way are what has been read, in
\* order and complete, while neither end of the connection is closed.
THEOREM StreamIntactHolds ==
  ASSUME OneFileEach, DiskWorks
  PROVE  Spec => []StreamIntact
<1>1. ContentInv => StreamIntact
  <2>. SUFFICES ASSUME ContentInv, NEW p \in Peer,
                       IsOpen(p), IsOpen(Other(p)),
                       sentChunks[Other(p)] # NotOpen, ~BeginPending(p)
       PROVE  LET f == outgoingFile[Other(p)]
                  copy == Written(p, filePathOnTarget[p])
              IN  /\ copy = Prefix(f, Len(copy))
                  /\ ChunksFollow(p, f, Len(copy), sentChunks[Other(p)])
    BY DEF StreamIntact, IsOpen
  <2>. DEFINE q == Other(p)
              s == wire[p]
              f == outgoingFile[q]
              copy == Written(p, filePathOnTarget[p])
  <2>1. Underway(p)
    BY DEF Underway, Live
  <2>2. PICK b \in Nat, m \in Nat, n \in Nat : Placed(p, b, m, n)
    BY <2>1 DEF ContentInv, Transfer, Content
  <2>3. /\ n = sentChunks[q] /\ b <= Len(s) /\ Position(p, b, m)
        /\ Carries(s, b, f, m, n)
    BY <2>2 DEF Placed
  <2>4. recvPc[p] \notin Saving /\ Marker("FILE_BEGIN") \notin PacketsTo(p)
    BY DEF BeginPending, Saving
  <2>5. b = 0
    <3>1. Len(s) \in Nat
      BY DEF ContentInv, Inv, TypeOK, TransportTypeOK, WireOK
    <3>2. b # 0 => b \in 1 .. Len(s) /\ s[b] = Marker("FILE_BEGIN")
      BY <2>3, <3>1 DEF Position
    <3>. QED  BY <2>4, <3>2 DEF PacketsTo
  <2>6. copy = Prefix(f, m)
    BY <2>3, <2>4, <2>5 DEF Position
  <2>7. Len(copy) = m
    BY <2>6, PrefixGrows
  <2>8. ChunksFollow(p, f, m, n)
    <3>1. /\ n - m \in 0 .. Len(s) - 0
          /\ \A i \in 1 .. Len(s) :
               IF i > 0 /\ i <= 0 + n - m
                 THEN s[i] = ChunkFrame(f, m + i - 0)
                 ELSE s[i].type # "FILE_CHUNK"
      BY <2>3, <2>5 DEF Carries
    <3>2. Len(s) \in Nat
      BY DEF ContentInv, Inv, TypeOK, TransportTypeOK, WireOK
    <3>. HIDE DEF s
    <3>3. \A i \in 1 .. Len(s) : m + i - 0 = m + i
      BY <3>2
    <3>. QED  BY <3>1, <3>2, <3>3 DEF ChunksFollow, s
  <2>. QED  BY <2>3, <2>6, <2>7, <2>8
<1>. QED  BY <1>1, ContentInit, ContentNext, PTL DEF Spec

\* When "File recieved." is announced, the target holds all that has been read.
THEOREM AnnouncedFileIsCompleteHolds ==
  ASSUME OneFileEach, DiskWorks
  PROVE  Spec => []AnnouncedFileIsComplete
<1>1. ContentInv => AnnouncedFileIsComplete
  <2>. SUFFICES ASSUME ContentInv, NEW p \in Peer, Receives(p, {"FILE_END"})
       PROVE  Written(p, filePathOnTarget[p])
                = Prefix(outgoingFile[Other(p)], sentChunks[Other(p)])
    BY DEF AnnouncedFileIsComplete
  <2>. DEFINE q == Other(p)
              s == wire[p]
              f == outgoingFile[q]
  <2>1. /\ recvPc[p] = "recv" /\ s # <<>> /\ Head(s).type = "FILE_END"
        /\ s \in Seq(Packet)
    BY DEF Receives, ContentInv, Inv, TypeOK, TransportTypeOK, WireOK
  <2>2. Head(s) \in PacketsTo(p)
    BY <2>1, HeadIsMember DEF PacketsTo
  <2>3. EndTo(p) /\ FrameTo(p)
    BY <2>1, <2>2 DEF EndTo, FrameTo, FrameType
  <2>4. Transfer(p) /\ IsOpen(p)
    BY <2>1 DEF ContentInv, OrderInv, ClosedIsEmpty, IsOpen
  <2>5. sentChunks[q] # NotOpen
    BY <2>3, <2>4 DEF Transfer, Waits
  <2>6. Underway(p)
    BY <2>1, <2>3, <2>4, <2>5 DEF Underway, Live
  <2>7. PICK b \in Nat, m \in Nat, n \in Nat : Placed(p, b, m, n)
    BY <2>4, <2>6 DEF Transfer, Content
  <2>8. n = sentChunks[q] /\ Position(p, b, m) /\ Carries(s, b, f, m, n)
    BY <2>3, <2>7 DEF Placed
  <2>9. b = 0
    BY <2>1, <2>8, CarriesTailBefore
  <2>10. m = n
    <3>1. Carries(s, 0, f, m, n) /\ Head(s).type # "FILE_CHUNK"
      BY <2>1, <2>8, <2>9
    <3>. HIDE DEF s, f
    <3>. QED  BY <2>1, <3>1, CarriesTailWithin
  <2>. QED  BY <2>1, <2>8, <2>9, <2>10 DEF Position, Saving
<1>. QED  BY <1>1, ContentInit, ContentNext, PTL DEF Spec

-----------------------------------------------------------------------------
(***************************************************************************)
(* A transfer in either direction implements FileCopy.                     *)
(***************************************************************************)
Agreed(p) == filePathOnTarget[p] # NoPath

\* The steps of FileCopy, for the transfer to p.
CopyMoves(p) ==
  LET q == Other(p)
      f == outgoingFile[q]
      k == sentChunks[q]
      c == CopyAt(p)
  IN  \/ /\ Agreed(p)' <=> Agreed(p)
         /\ outgoingFile'[q] = f /\ sentChunks'[q] = k /\ CopyAt(p)' = c
      \/ /\ k = NotOpen /\ outgoingFile'[q] \in File
         /\ Agreed(p)' <=> Agreed(p)
         /\ sentChunks'[q] = k /\ CopyAt(p)' = c
      \/ /\ Agreed(p)'
         /\ outgoingFile'[q] = f /\ sentChunks'[q] = k /\ CopyAt(p)' = c
      \/ /\ Agreed(p) /\ f # NoFile /\ k = NotOpen /\ sentChunks'[q] = 0
         /\ Agreed(p)'
         /\ outgoingFile'[q] = f /\ CopyAt(p)' = c
      \/ /\ k # NotOpen /\ k < Chunks[f] /\ sentChunks'[q] = k + 1
         /\ Agreed(p)' <=> Agreed(p)
         /\ outgoingFile'[q] = f /\ CopyAt(p)' = c
      \/ /\ Len(c) < k /\ CopyAt(p)' = Append(c, <<f, Len(c) + 1>>)
         /\ Agreed(p)' <=> Agreed(p)
         /\ outgoingFile'[q] = f /\ sentChunks'[q] = k

\* A step that touches neither the target, nor the offer, nor the copy.
LEMMA CopyStays ==
  ASSUME NEW p \in Peer,
         disk'[p] = disk[p], filePathOnTarget'[p] = filePathOnTarget[p]
  PROVE  CopyAt(p)' = CopyAt(p) /\ (Agreed(p)' <=> Agreed(p))
BY DEF CopyAt, Written, Exists, Agreed

\* Nothing has been copied where RecvFile has written nothing.
LEMMA VacantCopy ==
  ASSUME NEW p \in Peer, Vacant(p)
  PROVE  CopyAt(p) = <<>>
BY DEF Vacant, CopyAt

\* The first chunks of a file are no old content.
LEMMA PrefixIsCopy ==
  ASSUME NEW p \in Peer, NEW f, NEW m \in Nat,
         Written(p, filePathOnTarget[p]) = Prefix(f, m)
  PROVE  CopyAt(p) = Prefix(f, m)
<1>1. ASSUME Prefix(f, m) = OldContent
      PROVE  FALSE
  <2>1. Len(OldContent) = 1 /\ OldContent[1] = <<NoFile, 0>>
    BY DEF OldContent
  <2>2. m = 1
    BY <1>1, <2>1, PrefixGrows
  <2>3. Prefix(f, m)[1] = <<f, 1>>
    BY <2>2 DEF Prefix
  <2>. QED  BY <1>1, <2>1, <2>3
<1>. QED  BY <1>1 DEF CopyAt

\* The main threads open the file and read its chunks.
LEMMA CopyMain ==
  ASSUME ContentInv, NEW p \in Peer, NEW r \in Peer, MainStep(r)
  PROVE  CopyMoves(p)
<1>. DEFINE q == Other(p)
<1>1. q \in Peer /\ q # p /\ (r = p \/ r = q)
  BY TwoPeers
<1>2. /\ TypeOK /\ Inv /\ Transfer(p)
      /\ sentChunks \in [Peer -> Nat \cup {NotOpen}]
  BY DEF ContentInv, Inv, TypeOK
<1>3. UNCHANGED <<disk, filePathOnTarget, outgoingFile>>
  BY DEF MainStep, Announce, StopAnnounce, StopShut, Join, MainLoop, Leave,
         SendAccept, SendReject, AnswerSent, DropRequest, SendRequest,
         RequestSent, NothingToSend, StartSendFile, CannotSendFile, SendBegin,
         SendChunk, SendEnd, EndSend, SendText, fileVars, negotiationVars
<1>4. CopyAt(p)' = CopyAt(p) /\ (Agreed(p)' <=> Agreed(p))
      /\ outgoingFile'[q] = outgoingFile[q]
  BY <1>3, CopyStays
<1>5. CASE sentChunks'[q] = sentChunks[q]
  BY <1>4, <1>5 DEF CopyMoves
<1>6. CASE StartSendFile(q)
  <2>1. Holds(q)
    BY <1>6 DEF StartSendFile, Holds, Busy, Ended, Sending
  <2>2. sentChunks[q] = NotOpen
    BY <2>1, NotBegun DEF Begun
  <2>3. sentChunks'[q] = NotOpen
    BY <1>1, <1>2, <1>6 DEF StartSendFile
  <2>. QED  BY <1>5, <2>2, <2>3
<1>7. CASE SendBegin(q)
  <2>1. mainPc[q] = "sendBegin" /\ sentChunks'[q] = 0
    BY <1>1, <1>2, <1>7 DEF SendBegin
  <2>2. sentChunks[q] = NotOpen
    BY <1>2, <2>1 DEF Transfer, Waits
  <2>3. Agreed(p)
    BY <1>1, <1>2, <2>1 DEF Agreed, Inv, NothingBeforeTarget
  <2>4. outgoingFile[q] # NoFile
    BY <1>1, <2>1, FileAssumption
       DEF ContentInv, OfferedOnce, Unoffered, Offering, Sending
  <2>. QED  BY <1>4, <2>1, <2>2, <2>3, <2>4 DEF CopyMoves
<1>8. CASE SendChunk(q)
  <2>1. /\ mainPc[q] = "sendChunks" /\ sentChunks'[q] = sentChunks[q] + 1
        /\ sentChunks[q] < Chunks[outgoingFile[q]]
    BY <1>1, <1>2, <1>8 DEF SendChunk
  <2>2. sentChunks[q] # NotOpen
    BY <1>2, <2>1 DEF Transfer, Waits
  <2>. QED  BY <1>4, <2>1, <2>2 DEF CopyMoves
<1>9. \/ sentChunks'[q] = sentChunks[q]
      \/ StartSendFile(q) \/ SendBegin(q) \/ SendChunk(q)
  BY <1>1, <1>2
     DEF MainStep, Announce, StopAnnounce, StopShut, Join, MainLoop, Leave,
         SendAccept, SendReject, AnswerSent, DropRequest, SendRequest,
         RequestSent, NothingToSend, StartSendFile, CannotSendFile, SendBegin,
         SendChunk, SendEnd, EndSend, SendText
<1>. QED  BY <1>5, <1>6, <1>7, <1>8, <1>9

\* The users pick the file and the target.
LEMMA CopyUser ==
  ASSUME ContentInv, Inv', NEW p \in Peer, NEW r \in Peer, UserStep(r)
  PROVE  CopyMoves(p)
<1>. DEFINE q == Other(p)
<1>1. q \in Peer /\ q # p /\ (r = p \/ r = q)
  BY TwoPeers
<1>2. /\ TypeOK /\ Inv /\ Transfer(p)
      /\ filePathOnTarget \in [Peer -> Path \cup {NoPath}]
      /\ outgoingFile \in [Peer -> File \cup {NoFile}]
  BY DEF ContentInv, Inv, TypeOK, FileTypeOK
<1>3. UNCHANGED <<disk, sentChunks>>
  BY DEF UserStep, ReadLine, AskOverwrite, PickTarget, CancelSaveDialog,
         PickFile, OfferThrows, DeclineFile, Kill, fileVars
<1>4. CASE filePathOnTarget' = filePathOnTarget /\ outgoingFile' = outgoingFile
  BY <1>3, <1>4, CopyStays DEF CopyMoves
<1>5. ASSUME NEW f \in File, PickFile(r, f)
      PROVE  CopyMoves(p)
  <2>1. /\ mainPc[r] = "openDialog" /\ filePathOnTarget' = filePathOnTarget
        /\ outgoingFile' = [outgoingFile EXCEPT ![r] = f]
    BY <1>5 DEF PickFile, fileVars
  <2>2. CopyAt(p)' = CopyAt(p) /\ (Agreed(p)' <=> Agreed(p))
    BY <1>3, <2>1, CopyStays
  <2>3. CASE r = p
    BY <1>1, <1>2, <1>3, <2>1, <2>2, <2>3 DEF CopyMoves
  <2>4. CASE r = q
    <3>1. sentChunks[q] = NotOpen
      BY <1>1, <2>1, <2>4 DEF ContentInv, OfferedOnce, Unoffered
    <3>. QED  BY <1>1, <1>2, <1>3, <2>1, <2>2, <2>4, <3>1 DEF CopyMoves
  <2>. QED  BY <1>1, <2>3, <2>4
<1>6. ASSUME NEW name \in Name, PickTarget(r, name)
      PROVE  CopyMoves(p)
  <2>1. /\ mainPc[r] = "saveDialog" /\ outgoingFile' = outgoingFile
        /\ filePathOnTarget' = [filePathOnTarget EXCEPT ![r] = Bare(name)]
    BY <1>6 DEF PickTarget, negotiationVars
  <2>2. CASE r = q
    BY <1>1, <1>2, <1>3, <2>1, <2>2, CopyStays DEF CopyMoves
  <2>3. CASE r = p
    <3>1. Agreed(p)'
      BY <1>2, <2>1, <2>3, BareType, NameAssumption DEF Agreed
    <3>2. disk[p] = [path \in OldPaths(p) |-> OldContent]
      BY <2>1, <2>3 DEF ContentInv, PickedOnce, Inv, NothingBeforeTarget
    <3>3. PICK path, new : path = filePathOnTarget[p]
                           /\ new = filePathOnTarget'[p]
      OBVIOUS
    <3>4. /\ Written(p, path) \in {<<>>, OldContent}
          /\ Written(p, new) \in {<<>>, OldContent}
      BY <3>2 DEF Written, Exists
    <3>5. Vacant(p) /\ Vacant(p)'
      BY <1>3, <3>3, <3>4 DEF Vacant, Written, Exists
    <3>6. CopyAt(p) = <<>> /\ CopyAt(p)' = <<>>
      BY <3>5 DEF Vacant, CopyAt
    <3>. QED  BY <1>3, <2>1, <3>1, <3>6 DEF CopyMoves
  <2>. QED  BY <1>1, <2>2, <2>3
<1>7. ASSUME NEW l \in Line, AskOverwrite(r, l)
      PROVE  CopyMoves(p)
  <2>1. /\ recvPc[r] = "askOverwrite" /\ outgoingFile' = outgoingFile
        /\ \A x \in Peer : x # r => filePathOnTarget'[x] = filePathOnTarget[x]
    BY <1>7 DEF AskOverwrite, negotiationVars
  <2>2. CASE r = q
    BY <1>1, <1>3, <2>1, <2>2, CopyStays DEF CopyMoves
  <2>3. CASE r = p
    <3>1. Vacant(p)
      BY <1>2, <2>1, <2>3 DEF Transfer, Waits, BeginPending
    <3>2. recvPc'[p] \in Saving
      BY <1>2, <1>7, <2>3 DEF AskOverwrite, RecvGoto, Saving, TypeOK
    <3>3. Vacant(p)'
      <4>1. Transfer(p)'
        BY <1>2, <1>7, <2>1, <2>3, TransferAsks
           DEF ContentInv, SavesOpen, Saving
      <4>. QED  BY <3>2, <4>1 DEF Transfer, Waits, BeginPending, Saving
    <3>4. CopyAt(p) = <<>> /\ CopyAt(p)' = <<>>
      BY <3>1, <3>3 DEF Vacant, CopyAt
    <3>5. Agreed(p) /\ Agreed(p)'
      BY <1>2, <2>1, <2>3, <3>2 DEF Agreed, Inv, NothingBeforeTarget, Saving
    <3>. QED  BY <1>3, <2>1, <3>4, <3>5 DEF CopyMoves
  <2>. QED  BY <1>1, <2>2, <2>3
<1>8. CASE \/ \E l \in Line : ReadLine(r, l)
           \/ CancelSaveDialog(r) \/ OfferThrows(r) \/ DeclineFile(r)
           \/ Kill(r)
  BY <1>4, <1>8 DEF ReadLine, CancelSaveDialog, OfferThrows, DeclineFile,
                    Kill, fileVars, negotiationVars
<1>. QED  BY <1>5, <1>6, <1>7, <1>8 DEF UserStep

\* The receive threads create the target and store the chunks.
LEMMA CopyRecv ==
  ASSUME ContentInv, DiskWorks, NEW p \in Peer, NEW r \in Peer, RecvStep(r)
  PROVE  CopyMoves(p)
<1>. DEFINE q == Other(p)
            f == outgoingFile[q]
<1>1. q \in Peer /\ q # p /\ (r = p \/ r = q)
  BY TwoPeers
<1>2. TypeOK /\ Transfer(p)
  BY DEF ContentInv, Inv
<1>3. UNCHANGED <<filePathOnTarget, outgoingFile, sentChunks>>
  BY DEF RecvStep, RecvLoop, RecvText, RecvRequest, RecvAccept, RecvReject,
         IgnoreFrame, RecvBegin, BeginThrows, CreateTarget, RecvChunk, RecvEnd,
         RecvEof, RecvError, fileVars, negotiationVars
<1>4. Agreed(p)' <=> Agreed(p)
  BY <1>3 DEF Agreed
<1>5. CASE disk'[p] = disk[p]
  BY <1>3, <1>5, CopyStays DEF CopyMoves
<1>6. CASE CreateTarget(p)
  <2>1. recvPc[p] = "create" /\ Truncate(p, filePathOnTarget[p])
    BY <1>6 DEF CreateTarget, DiskWorks
  <2>2. CopyAt(p) = <<>>
    BY <1>2, <2>1, VacantCopy DEF Transfer, Waits, BeginPending
  <2>3. Written(p, filePathOnTarget[p])' = <<>>
    <3>1. PICK path : path = filePathOnTarget[p]
      OBVIOUS
    <3>2. Written(p, path)' = <<>>
      BY <1>2, <2>1, <3>1, WriteKeeps DEF Truncate
    <3>. QED  BY <1>3, <3>1, <3>2
  <2>4. CopyAt(p)' = <<>>
    BY <2>3 DEF CopyAt
  <2>. QED  BY <1>3, <1>4, <2>2, <2>4 DEF CopyMoves
<1>7. CASE RecvChunk(p)
  <2>. IsOpen(p)
    BY <1>7 DEF RecvChunk, Receives, ContentInv, OrderInv, ClosedIsEmpty,
                IsOpen
  <2>1. PICK m \in Nat, n \in Nat :
          /\ m < n /\ n <= sentChunks[q]
          /\ Written(p, filePathOnTarget[p]) = Prefix(f, m)
          /\ Written(p, filePathOnTarget[p])' = Prefix(f, m + 1)
    BY <1>2, <1>7, ChunkTaken
  <2>2. CopyAt(p) = Prefix(f, m)
    BY <2>1, PrefixIsCopy
  <2>3. CopyAt(p)' = Prefix(f, m + 1)
    <3>1. Prefix(f, m + 1) # OldContent
      <4>1. Prefix(f, m + 1)[1] = <<f, 1>>
        BY DEF Prefix
      <4>2. OldContent[1] = <<NoFile, 0>>
        BY DEF OldContent
      <4>. QED  BY <4>1, <4>2
    <3>. QED  BY <2>1, <3>1 DEF CopyAt
  <2>4. /\ Len(CopyAt(p)) = m /\ m < sentChunks[q]
        /\ CopyAt(p)' = Append(CopyAt(p), <<f, Len(CopyAt(p)) + 1>>)
    <3>1. sentChunks[q] \in Nat
      BY <1>1, <1>2, <1>7, ChunkTaken DEF TypeOK
    <3>2. PICK c, k : c = CopyAt(p) /\ k = sentChunks[q]
      OBVIOUS
    <3>3. c = Prefix(f, m) /\ Len(c) = m
      BY <2>2, <3>2, PrefixGrows
    <3>4. Append(c, <<f, Len(c) + 1>>) = Prefix(f, m + 1)
      BY <3>3, PrefixGrows
    <3>5. m < k
      BY <2>1, <3>1, <3>2
    <3>. QED  BY <2>3, <3>2, <3>3, <3>4, <3>5
  <2>. QED  BY <1>3, <1>4, <2>4 DEF CopyMoves
<1>8. disk'[p] = disk[p] \/ (r = p /\ (CreateTarget(p) \/ RecvChunk(p)))
  <2>1. CASE CreateTarget(r) \/ RecvChunk(r)
    <3>1. disk' = disk \/ \E path, content : Write(r, path, content)
      BY <2>1 DEF CreateTarget, RecvChunk, Truncate, AppendChunk
    <3>. QED  BY <1>1, <1>2, <2>1, <3>1, WriteKeeps
  <2>2. CASE ~CreateTarget(r) /\ ~RecvChunk(r)
    BY <2>2
       DEF RecvStep, RecvLoop, RecvText, RecvRequest, RecvAccept, RecvReject,
           IgnoreFrame, RecvBegin, BeginThrows, RecvEnd, RecvEof, RecvError,
           fileVars
  <2>. QED  BY <2>1, <2>2
<1>. QED  BY <1>5, <1>6, <1>7, <1>8

LEMMA CopyNextMoves ==
  ASSUME ContentInv, Inv', DiskWorks, [Next]_vars, NEW p \in Peer
  PROVE  CopyMoves(p)
<1>1. CASE UNCHANGED vars
  <2>1. UNCHANGED <<disk, filePathOnTarget, outgoingFile, sentChunks>>
    BY <1>1 DEF vars, fileVars, negotiationVars
  <2>. QED  BY <2>1, CopyStays DEF CopyMoves
<1>. QED  BY <1>1, CopyMain, CopyUser, CopyRecv DEF Next

\* The transfers in both directions implement FileCopy: initial states are
\* initial states, and every step is a step of FileCopy or changes nothing of it.
THEOREM FilesAreCopiedHolds ==
  ASSUME OneFileEach, DiskWorks
  PROVE  Spec => FilesAreCopied
<1>1. Init => ToServer!CopyInit /\ ToClient!CopyInit
  <2>. SUFFICES ASSUME Init PROVE ToServer!CopyInit /\ ToClient!CopyInit
    OBVIOUS
  <2>1. \A p \in Peer : /\ filePathOnTarget[p] = NoPath
                        /\ outgoingFile[p] = NoFile /\ sentChunks[p] = -1
    BY DEF Init, FileInit, NotOpen
  <2>2. ASSUME NEW p \in Peer
        PROVE  CopyAt(p) = <<>>
    <3>1. PICK d, path : d = disk[p] /\ path = filePathOnTarget[p]
      OBVIOUS
    <3>2. d = [x \in OldPaths(p) |-> OldContent]
      BY <3>1 DEF Init, FileInit
    <3>3. Written(p, path) \in {<<>>, OldContent}
      BY <3>1, <3>2 DEF Written, Exists
    <3>. QED  BY <3>1, <3>3 DEF CopyAt
  <2>3. Server \in Peer /\ Client \in Peer
    BY DEF Peer
  <2>. QED  BY <2>1, <2>2, <2>3 DEF ToServer!CopyInit, ToClient!CopyInit
<1>2. ContentInv /\ ContentInv' /\ [Next]_vars
        => /\ [ToServer!CopyNext]_(ToServer!copyVars)
           /\ [ToClient!CopyNext]_(ToClient!copyVars)
  <2>. SUFFICES ASSUME ContentInv, ContentInv', [Next]_vars
       PROVE  /\ [ToServer!CopyNext]_(ToServer!copyVars)
              /\ [ToClient!CopyNext]_(ToClient!copyVars)
    OBVIOUS
  <2>1. CopyMoves(Server) /\ CopyMoves(Client)
    BY CopyNextMoves DEF ContentInv, Peer
  <2>2. Other(Server) = Client /\ Other(Client) = Server
    BY DEF Other, Server, Client
  <2>3. [ToServer!CopyNext]_(ToServer!copyVars)
    BY <2>1, <2>2
       DEF CopyMoves, Agreed, NotOpen, ToServer!CopyNext, ToServer!copyVars,
           ToServer!Choose, ToServer!Agree, ToServer!Open, ToServer!Read,
           ToServer!Store
  <2>4. [ToClient!CopyNext]_(ToClient!copyVars)
    BY <2>1, <2>2
       DEF CopyMoves, Agreed, NotOpen, ToClient!CopyNext, ToClient!copyVars,
           ToClient!Choose, ToClient!Agree, ToClient!Open, ToClient!Read,
           ToClient!Store
  <2>. QED  BY <2>3, <2>4
<1>. QED  BY <1>1, <1>2, ContentInit, ContentNext, PTL
          DEF Spec, FilesAreCopied, ToServer!CopySpec, ToClient!CopySpec
=============================================================================
