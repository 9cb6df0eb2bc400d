--------------------------- MODULE WireSendProofs ---------------------------
(***************************************************************************)
(* Proofs that every session of WireSend, whatever the users type and      *)
(* whatever fails, keeps its types and writes nothing to a disk before the *)
(* user of that disk has picked a target for an accepted file.             *)
(***************************************************************************)
EXTENDS WireSend, TransportProofs, FileHandlerProofs

Sending == {"sendBegin", "sendChunks"}
Accepting == {"sendAccept", "acceptSent"}
Saving == {"askOverwrite", "create"}

\* While CanReceiveFiles asks, it asks about a path.
AskedPathKnown ==
  \A p \in Peer : recvPc[p] = "askOverwrite" => askedPath[p] # NoPath

\* The inductive invariant.  TypeOK alone is not inductive: that disk holds
\* only paths needs a target before the first frame, NothingBeforeTarget.
Inv == TypeOK /\ AskedPathKnown /\ NothingBeforeTarget

\* A file reaches a disk along a chain: a target is picked, the acceptance is
\* sent, received, the file is sent, received, saved.  In a step that keeps
\* the chain, no link of it appears without the link before it.
ChainKeptAt(r) ==
  /\ filePathOnTarget'[r] = NoPath
       => filePathOnTarget[r] = NoPath
          /\ (disk'[r] = disk[r] \/ recvPc[r] \in Saving \/ FrameTo(r))
  /\ mainPc'[r] \in Accepting
       => mainPc[r] \in Accepting \/ filePathOnTarget'[r] # NoPath
  /\ \A pkt \in PacketsTo(r)' :
       /\ pkt \in PacketsTo(r) \/ ~IsAcceptance(pkt)
            \/ mainPc[Other(r)] \in Accepting
       /\ pkt \in PacketsTo(r) \/ pkt.type \notin FrameType
            \/ mainPc[Other(r)] \in Sending
  /\ fileSendInProgress'[r]
       => fileSendInProgress[r]
          \/ \E pkt \in PacketsTo(r) : IsAcceptance(pkt)
  /\ mainPc'[r] \in Sending
       => mainPc[r] \in Sending \/ fileSendInProgress[r]
  /\ recvPc'[r] \in Saving => recvPc[r] \in Saving \/ FrameTo(r)

ChainKept == \A r \in Peer : ChainKeptAt(r)

\* The argument of the invariance proof: a chain that has not begun with a
\* target has no link at all, and a step that keeps it adds none.
LEMMA ChainArgument ==
  ASSUME Inv, ChainKept
  PROVE  NothingBeforeTarget'
<1>. SUFFICES ASSUME NEW p \in Peer, filePathOnTarget'[p] = NoPath
     PROVE  /\ mainPc'[p] \notin Accepting
            /\ \A pkt \in PacketsTo(Other(p))' : ~IsAcceptance(pkt)
            /\ ~fileSendInProgress'[Other(p)]
            /\ mainPc'[Other(p)] \notin Sending
            /\ ~FrameTo(p)'
            /\ recvPc'[p] \notin Saving
            /\ disk'[p] = [path \in OldPaths(p) |-> OldContent]
  BY DEF NothingBeforeTarget, Accepting, Sending, Saving
<1>. DEFINE q == Other(p)
<1>1. q \in Peer /\ Other(q) = p
  BY TwoPeers
<1>2. filePathOnTarget[p] = NoPath
  BY DEF ChainKept, ChainKeptAt
<1>3. /\ mainPc[p] \notin Accepting
      /\ \A pkt \in PacketsTo(q) : ~IsAcceptance(pkt)
      /\ ~fileSendInProgress[q]
      /\ mainPc[q] \notin Sending
      /\ ~FrameTo(p)
      /\ recvPc[p] \notin Saving
      /\ disk[p] = [path \in OldPaths(p) |-> OldContent]
  BY <1>2 DEF Inv, NothingBeforeTarget, Accepting, Sending, Saving
<1>4. mainPc'[p] \notin Accepting /\ recvPc'[p] \notin Saving
  BY <1>3 DEF ChainKept, ChainKeptAt
<1>5. \A pkt \in PacketsTo(q)' : ~IsAcceptance(pkt)
  BY <1>1, <1>3 DEF ChainKept, ChainKeptAt
<1>6. ~fileSendInProgress'[q] /\ mainPc'[q] \notin Sending
  BY <1>1, <1>3 DEF ChainKept, ChainKeptAt
<1>7. ~FrameTo(p)'
  BY <1>1, <1>3 DEF ChainKept, ChainKeptAt, FrameTo
<1>8. disk'[p] = [path \in OldPaths(p) |-> OldContent]
  BY <1>3 DEF ChainKept, ChainKeptAt
<1>. QED  BY <1>4, <1>5, <1>6, <1>7, <1>8

-----------------------------------------------------------------------------
\* What is left of TypeOK when the streams and the disks are set aside.
ThreadTypeOK ==
  /\ activeFileNegReq \in [Peer -> BOOLEAN]
  /\ fileSendInProgress \in [Peer -> BOOLEAN]
  /\ incomingActive \in [Peer -> BOOLEAN]
  /\ incomingFile \in [Peer -> File \cup {NoFile}]
  /\ outgoingFile \in [Peer -> File \cup {NoFile}]
  /\ connected \in [Peer -> BOOLEAN]
  /\ programRunning \in [Peer -> BOOLEAN]
  /\ mainPc \in [Peer -> MainPc]
  /\ recvPc \in [Peer -> RecvPc]
  /\ sentChunks \in [Peer -> Nat \cup {NotOpen}]
  /\ lines \in [Peer -> [Line -> Nat]]
  /\ credit \in [Peer -> Int]

LEMMA TypeParts ==
  /\ TypeOK <=> TransportTypeOK /\ FileTypeOK /\ ThreadTypeOK
  /\ TypeOK' <=> TransportTypeOK' /\ FileTypeOK' /\ ThreadTypeOK'
BY DEF TypeOK, ThreadTypeOK

LEMMA FileTypeUnchanged ==
  ASSUME FileTypeOK, UNCHANGED fileVars
  PROVE  FileTypeOK'
BY DEF FileTypeOK, fileVars

LEMMA TransportTypeUnchanged ==
  ASSUME TransportTypeOK, UNCHANGED transportVars
  PROVE  TransportTypeOK' /\ \A p \in Peer : PacketsTo(p)' = PacketsTo(p)
BY DEF TransportTypeOK, WireOK, transportVars, PacketsTo

\* Three parts make a step that keeps the invariant.
LEMMA InvParts ==
  ASSUME Inv, TransportTypeOK', FileTypeOK', ThreadTypeOK', AskedPathKnown',
         ChainKept
  PROVE  Inv'
BY ChainArgument, TypeParts DEF Inv

\* Whatever SendPacket does, it moves its own thread to ok, to err or to its
\* end, and adds at most its own packet to the stream towards the peer.
LEMMA SendEffect ==
  ASSUME TypeOK, NEW p \in Peer, NEW pkt \in Packet,
         NEW ok \in MainPc, NEW err \in MainPc, Send(p, pkt, ok, err)
  PROVE  /\ TransportTypeOK'
         /\ PacketsTo(p)' \subseteq PacketsTo(p)
         /\ PacketsTo(Other(p))' \subseteq PacketsTo(Other(p)) \cup {pkt}
         /\ \E pc \in {ok, err, "sigpipe"} :
              mainPc' = [mainPc EXCEPT ![p] = pc]
         /\ recvPc' = recvPc \/ recvPc' = [recvPc EXCEPT ![p] = "done"]
<1>. WireOK /\ sock \in [Peer -> SockState]
  BY DEF TypeOK, TransportTypeOK
<1>1. CASE Delivered(p, pkt) /\ MainGoto(p, ok) /\ UNCHANGED <<recvPc, sock>>
  BY <1>1, DeliveredEffect DEF TransportTypeOK, MainGoto
<1>2. CASE /\ \/ Lost(p) /\ MainGoto(p, ok)
              \/ Refused(p) /\ MainGoto(p, err)
           /\ UNCHANGED <<recvPc, sock>>
  <2>1. UNCHANGED wire
    BY <1>2 DEF Lost, Refused
  <2>2. TransportTypeOK' /\ \A r \in Peer : PacketsTo(r)' = PacketsTo(r)
    BY <1>2, <2>1, TransportTypeUnchanged DEF TypeOK, transportVars
  <2>3. /\ PacketsTo(p)' = PacketsTo(p)
        /\ PacketsTo(Other(p))' = PacketsTo(Other(p))
    BY <2>2, TwoPeers
  <2>4. \E pc \in {ok, err} : mainPc' = [mainPc EXCEPT ![p] = pc]
    BY <1>2 DEF MainGoto
  <2>. QED  BY <1>2, <2>2, <2>3, <2>4
<1>3. CASE BrokenPipe(p) /\ Die(p, "sigpipe")
  <2>1. wire' = [wire EXCEPT ![p] = <<>>] /\ sock' \in [Peer -> SockState]
    BY <1>3 DEF Die, Close, SockState
  <2>2. /\ WireOK' /\ PacketsTo(p)' = {}
        /\ PacketsTo(Other(p))' = PacketsTo(Other(p))
    BY <2>1, EmptiedEffect
  <2>. QED  BY <1>3, <2>1, <2>2 DEF TransportTypeOK, Die, MainGoto, RecvGoto
<1>. QED  BY <1>1, <1>2, <1>3 DEF Send

\* A step that sends keeps the invariant when only a thread that is accepting
\* sends an acceptance, and only one that is sending a file sends a frame.
LEMMA SendStep ==
  ASSUME Inv, NEW p \in Peer, NEW pkt \in Packet,
         NEW ok \in MainPc, NEW err \in MainPc, Send(p, pkt, ok, err),
         UNCHANGED <<fileVars, negotiationVars, flagVars, lines>>,
         sentChunks' \in [Peer -> Nat \cup {NotOpen}],
         credit' \in [Peer -> Int],
         IsAcceptance(pkt) => mainPc[p] \in Accepting,
         pkt.type \in FrameType => mainPc[p] \in Sending,
         {ok, err} \cap Accepting # {} => mainPc[p] \in Accepting,
         {ok, err} \cap Sending # {} => mainPc[p] \in Sending
  PROVE  Inv'
<1>. TypeOK /\ TransportTypeOK /\ FileTypeOK /\ ThreadTypeOK
  BY TypeParts DEF Inv
<1>1. PICK pc \in {ok, err, "sigpipe"} :
        mainPc' = [mainPc EXCEPT ![p] = pc]
  BY SendEffect
<1>2. recvPc' = recvPc \/ recvPc' = [recvPc EXCEPT ![p] = "done"]
  BY SendEffect
<1>3. /\ PacketsTo(p)' \subseteq PacketsTo(p)
      /\ PacketsTo(Other(p))' \subseteq PacketsTo(Other(p)) \cup {pkt}
  BY SendEffect
<1>4. TransportTypeOK'
  BY SendEffect
<1>5. FileTypeOK'
  BY FileTypeUnchanged
<1>6. ThreadTypeOK'
  BY <1>1, <1>2 DEF ThreadTypeOK, negotiationVars, flagVars, MainPc, Ended,
                    RecvPc
<1>7. AskedPathKnown'
  BY <1>2 DEF Inv, AskedPathKnown, ThreadTypeOK, fileVars
<1>8. ChainKept
  <2>. SUFFICES ASSUME NEW r \in Peer
       PROVE  ChainKeptAt(r)
    BY DEF ChainKept
  <2>1. mainPc'[r] = mainPc[r] \/ (r = p /\ mainPc'[r] = pc)
    BY <1>1 DEF ThreadTypeOK
  <2>2. mainPc'[r] \in Accepting => mainPc[r] \in Accepting
    BY <2>1 DEF Accepting
  <2>3. mainPc'[r] \in Sending => mainPc[r] \in Sending
    BY <2>1 DEF Sending
  <2>4. recvPc'[r] \in Saving => recvPc[r] \in Saving
    BY <1>2 DEF ThreadTypeOK, Saving
  <2>5. \A x \in PacketsTo(r)' :
          x \in PacketsTo(r) \/ (x = pkt /\ Other(r) = p)
    BY <1>3, TwoPeers
  <2>. QED  BY <2>2, <2>3, <2>4, <2>5
            DEF ChainKeptAt, fileVars, negotiationVars
<1>. QED  BY <1>4, <1>5, <1>6, <1>7, <1>8, InvParts

\* A step that touches neither the streams nor the disks, and forges no link
\* of the chain in its threads.
LEMMA LocalStep ==
  ASSUME Inv, UNCHANGED <<wire, fileVars>>, TransportTypeOK', ThreadTypeOK',
         \A r \in Peer :
           /\ fileSendInProgress'[r] => fileSendInProgress[r]
           /\ mainPc'[r] \in Accepting => mainPc[r] \in Accepting
           /\ mainPc'[r] \in Sending
                => mainPc[r] \in Sending \/ fileSendInProgress[r]
           /\ recvPc'[r] \in Saving => recvPc'[r] = recvPc[r]
  PROVE  Inv'
<1>1. TypeOK /\ FileTypeOK
  BY TypeParts DEF Inv
<1>2. FileTypeOK'
  BY <1>1, FileTypeUnchanged
<1>3. AskedPathKnown'
  BY DEF Inv, AskedPathKnown, Saving, fileVars
<1>4. \A r \in Peer : PacketsTo(r)' = PacketsTo(r)
  BY DEF PacketsTo
<1>5. ChainKept
  BY <1>4 DEF ChainKept, ChainKeptAt, fileVars
<1>. QED  BY <1>2, <1>3, <1>5, InvParts

\* The end of a process only takes links away.
LEMMA DieStep ==
  ASSUME Inv, NEW p \in Peer, NEW how \in Ended, Die(p, how),
         UNCHANGED <<fileVars, negotiationVars, programRunning, sentChunks,
                     lines, credit>>,
         connected' \in [Peer -> BOOLEAN]
  PROVE  Inv'
<1>1. TypeOK /\ WireOK /\ FileTypeOK /\ ThreadTypeOK
      /\ sock \in [Peer -> SockState]
  BY TypeParts DEF Inv, TransportTypeOK
<1>2. /\ wire' = [wire EXCEPT ![p] = <<>>]
      /\ sock' = [sock EXCEPT ![p] = "closed"]
      /\ mainPc' = [mainPc EXCEPT ![p] = how]
      /\ recvPc' = [recvPc EXCEPT ![p] = "done"]
  BY DEF Die, Close, MainGoto, RecvGoto
<1>3. TransportTypeOK'
  BY <1>1, <1>2, EmptiedEffect DEF TransportTypeOK, SockState
<1>4. \A r \in Peer : PacketsTo(r)' \subseteq PacketsTo(r)
  BY <1>1, <1>2, EmptiedEffect, TwoPeers
<1>5. FileTypeOK'
  BY <1>1, FileTypeUnchanged
<1>6. ThreadTypeOK'
  BY <1>1, <1>2 DEF ThreadTypeOK, negotiationVars, MainPc, RecvPc
<1>7. AskedPathKnown'
  BY <1>1, <1>2 DEF Inv, AskedPathKnown, ThreadTypeOK, fileVars
<1>8. ChainKept
  <2>1. \A r \in Peer :
          /\ mainPc'[r] \in Accepting => mainPc[r] \in Accepting
          /\ mainPc'[r] \in Sending => mainPc[r] \in Sending
          /\ recvPc'[r] \in Saving => recvPc[r] \in Saving
    BY <1>1, <1>2 DEF ThreadTypeOK, Accepting, Sending, Saving, Ended
  <2>. QED  BY <1>4, <2>1
            DEF ChainKept, ChainKeptAt, fileVars, negotiationVars
<1>. QED  BY <1>3, <1>5, <1>6, <1>7, <1>8, InvParts

\* A received packet leaves the stream; the handler may set the send flag only
\* on an acceptance and may start to save only on a frame.
LEMMA TakeStep ==
  ASSUME Inv, NEW p \in Peer, Takes(p), NEW pc \in RecvPc, RecvGoto(p, pc),
         UNCHANGED <<sock, filePathOnTarget, mainPc>>,
         FileTypeOK', ThreadTypeOK', AskedPathKnown',
         \A r \in Peer :
           disk'[r] = disk[r]
             \/ (r = p /\ Head(wire[p]).type \in FrameType),
         pc \in Saving => Head(wire[p]).type \in FrameType,
         \A r \in Peer : fileSendInProgress'[r]
           => fileSendInProgress[r] \/ (r = p /\ IsAcceptance(Head(wire[p])))
  PROVE  Inv'
<1>1. TypeOK /\ WireOK /\ ThreadTypeOK /\ sock \in [Peer -> SockState]
  BY TypeParts DEF Inv, TransportTypeOK
<1>2. TransportTypeOK'
  BY <1>1, TakesEffect DEF TransportTypeOK
<1>3. \A r \in Peer : PacketsTo(r)' \subseteq PacketsTo(r)
  BY <1>1, TakesEffect, TwoPeers
<1>4. Head(wire[p]) \in PacketsTo(p)
  BY <1>1, TakesEffect
<1>5. recvPc' = [recvPc EXCEPT ![p] = pc]
  BY DEF RecvGoto
<1>6. ChainKept
  <2>. SUFFICES ASSUME NEW r \in Peer
       PROVE  ChainKeptAt(r)
    BY DEF ChainKept
  <2>1. disk'[r] = disk[r] \/ FrameTo(r)
    BY <1>4 DEF FrameTo
  <2>2. recvPc'[r] \in Saving => recvPc[r] \in Saving \/ FrameTo(r)
    BY <1>1, <1>4, <1>5 DEF FrameTo, ThreadTypeOK
  <2>3. fileSendInProgress'[r]
          => fileSendInProgress[r]
             \/ \E pkt \in PacketsTo(r) : IsAcceptance(pkt)
    BY <1>4
  <2>. QED  BY <1>3, <2>1, <2>2, <2>3 DEF ChainKeptAt
<1>. QED  BY <1>2, <1>6, InvParts

-----------------------------------------------------------------------------
\* The packets that the program builds are packets.
LEMMA BuiltPackets ==
  /\ Text \in Packet /\ ~IsAcceptance(Text) /\ Text.type \notin FrameType
  /\ \A stray \in StrayCtl :
       /\ Broadcast(stray) \in Packet /\ ~IsAcceptance(Broadcast(stray))
       /\ Broadcast(stray).type \notin FrameType
  /\ \A f \in File \cup {NoFile} :
       /\ Request(f) \in Packet /\ ~IsAcceptance(Request(f))
       /\ Request(f).type \notin FrameType
  /\ \A verdict \in {"FILE_ACCEPT", "FILE_REJECT"} :
       /\ Answer(verdict) \in Packet /\ Answer(verdict).type \notin FrameType
       /\ IsAcceptance(Answer(verdict)) => verdict = "FILE_ACCEPT"
  /\ \A type \in {"FILE_BEGIN", "FILE_END"} :
       Marker(type) \in Packet /\ ~IsAcceptance(Marker(type))
  /\ \A f \in File \cup {NoFile}, n \in Nat :
       ChunkFrame(f, n) \in Packet /\ ~IsAcceptance(ChunkFrame(f, n))
BY StrayAssumption
   DEF Text, Broadcast, Request, Answer, Marker, ChunkFrame, Packet,
       PacketType, IsAcceptance, FrameType

\* The steps of the main threads that call SendPacket.
LEMMA SendingSteps ==
  ASSUME Inv, NEW p \in Peer,
         \/ p = Server /\ (Announce \/ StopAnnounce)
         \/ SendAccept(p) \/ SendReject(p) \/ SendRequest(p)
         \/ SendBegin(p) \/ SendChunk(p) \/ SendEnd(p) \/ SendText(p)
  PROVE  Inv'
<1>. ThreadTypeOK
  BY TypeParts DEF Inv
<1>. sentChunks \in [Peer -> Nat \cup {NotOpen}] /\ credit \in [Peer -> Int]
     /\ outgoingFile[p] \in File \cup {NoFile}
  BY DEF ThreadTypeOK
<1>. Server \in Peer
  BY DEF Peer
<1>. {"loop", "leave", "checkSend", "acceptSent", "rejectSent",
      "dropRequest", "requestSent", "sendChunks", "endSend", "stopShut"}
       \subseteq MainPc
  BY DEF MainPc
<1>. USE BuiltPackets DEF Accepting, Sending
<1>1. CASE p = Server /\ Announce
  <2>1. PICK stray \in StrayCtl : Send(p, Broadcast(stray), "loop", "loop")
    BY <1>1 DEF Announce
  <2>. QED  BY <1>1, <2>1, SendStep DEF Announce
<1>2. CASE p = Server /\ StopAnnounce
  <2>1. PICK stray \in StrayCtl :
          Send(p, Broadcast(stray), "stopShut", "stopShut")
    BY <1>2 DEF StopAnnounce
  <2>. QED  BY <1>2, <2>1, SendStep DEF StopAnnounce
<1>3. CASE SendAccept(p)
  <2>1. credit' \in [Peer -> Int]
    BY <1>3, TwoPeers DEF SendAccept
  <2>. QED  BY <1>3, <2>1, SendStep DEF SendAccept
<1>4. CASE SendReject(p)
  BY <1>4, SendStep DEF SendReject
<1>5. CASE SendRequest(p)
  BY <1>5, SendStep DEF SendRequest
<1>6. CASE SendBegin(p)
  <2>1. sentChunks' \in [Peer -> Nat \cup {NotOpen}]
    BY <1>6 DEF SendBegin
  <2>. QED  BY <1>6, <2>1, SendStep DEF SendBegin
<1>7. CASE SendChunk(p)
  <2>1. sentChunks[p] + 1 \in Nat
    BY DEF NotOpen
  <2>2. sentChunks' \in [Peer -> Nat \cup {NotOpen}]
    BY <1>7, <2>1 DEF SendChunk
  <2>3. ChunkFrame(outgoingFile[p], sentChunks[p] + 1) \in Packet
    BY <2>1
  <2>. QED  BY <1>7, <2>1, <2>2, <2>3, SendStep DEF SendChunk
<1>8. CASE SendEnd(p)
  BY <1>8, SendStep DEF SendEnd
<1>9. CASE SendText(p)
  BY <1>9, SendStep DEF SendText
<1>. QED  BY <1>1, <1>2, <1>3, <1>4, <1>5, <1>6, <1>7, <1>8, <1>9

\* The steps of the main threads that neither send nor end the process.
LEMMA QuietSteps ==
  ASSUME Inv, NEW p \in Peer,
         \/ p = Server /\ StopShut
         \/ MainLoop(p) \/ AnswerSent(p) \/ DropRequest(p) \/ RequestSent(p)
         \/ NothingToSend(p) \/ StartSendFile(p) \/ CannotSendFile(p)
         \/ EndSend(p)
  PROVE  Inv'
<1>. TypeOK /\ TransportTypeOK /\ ThreadTypeOK
  BY TypeParts DEF Inv
<1>. USE DEF ThreadTypeOK, MainGoto, negotiationVars, flagVars, fileVars,
             transportVars, MainPc, Accepting, Sending, Saving
<1>1. CASE p = Server /\ StopShut
  <2>1. TransportTypeOK'
    BY <1>1 DEF StopShut, Shutdown, TransportTypeOK, WireOK, SockState
  <2>2. ThreadTypeOK'
    BY <1>1 DEF StopShut
  <2>. QED  BY <1>1, <2>1, <2>2, LocalStep DEF StopShut
<1>2. CASE MainLoop(p)
  <2>1. TransportTypeOK' /\ ThreadTypeOK'
    BY <1>2, TransportTypeUnchanged DEF MainLoop
  <2>. QED  BY <1>2, <2>1, LocalStep DEF MainLoop
<1>3. CASE AnswerSent(p)
  <2>1. TransportTypeOK' /\ ThreadTypeOK'
    BY <1>3, TransportTypeUnchanged DEF AnswerSent
  <2>. QED  BY <1>3, <2>1, LocalStep DEF AnswerSent
<1>4. CASE DropRequest(p)
  <2>1. TransportTypeOK' /\ ThreadTypeOK'
    BY <1>4, TransportTypeUnchanged DEF DropRequest
  <2>. QED  BY <1>4, <2>1, LocalStep DEF DropRequest
<1>5. CASE RequestSent(p)
  <2>1. TransportTypeOK' /\ ThreadTypeOK'
    BY <1>5, TransportTypeUnchanged DEF RequestSent
  <2>. QED  BY <1>5, <2>1, LocalStep DEF RequestSent
<1>6. CASE NothingToSend(p)
  <2>1. TransportTypeOK' /\ ThreadTypeOK'
    BY <1>6, TransportTypeUnchanged DEF NothingToSend
  <2>. QED  BY <1>6, <2>1, LocalStep DEF NothingToSend
<1>7. CASE StartSendFile(p)
  <2>1. TransportTypeOK' /\ ThreadTypeOK'
    BY <1>7, TransportTypeUnchanged DEF StartSendFile
  <2>. QED  BY <1>7, <2>1, LocalStep DEF StartSendFile
<1>8. CASE CannotSendFile(p)
  <2>1. TransportTypeOK' /\ ThreadTypeOK'
    BY <1>8, TransportTypeUnchanged DEF CannotSendFile
  <2>. QED  BY <1>8, <2>1, LocalStep DEF CannotSendFile
<1>9. CASE EndSend(p)
  <2>1. TransportTypeOK' /\ ThreadTypeOK'
    BY <1>9, TransportTypeUnchanged DEF EndSend
  <2>. QED  BY <1>9, <2>1, LocalStep DEF EndSend
<1>. QED  BY <1>1, <1>2, <1>3, <1>4, <1>5, <1>6, <1>7, <1>8, <1>9

\* The steps that end a process.
LEMMA EndingSteps ==
  ASSUME Inv, NEW p \in Peer,
         \/ p = Client /\ Join
         \/ Leave(p) \/ Kill(p) \/ OfferThrows(p) \/ BeginThrows(p)
  PROVE  Inv'
<1>1. connected \in [Peer -> BOOLEAN] /\ Client \in Peer
  BY DEF Inv, TypeOK, Peer
<1>2. CASE p = Client /\ Join
  <2>1. connected' \in [Peer -> BOOLEAN]
    BY <1>1, <1>2 DEF Join
  <2>. QED  BY <1>2, <2>1, DieStep DEF Join, Ended
<1>3. CASE Leave(p)
  <2>1. connected' \in [Peer -> BOOLEAN]
    BY <1>1, <1>3 DEF Leave
  <2>. QED  BY <1>3, <2>1, DieStep DEF Leave, Ended
<1>4. CASE Kill(p)
  BY <1>1, <1>4, DieStep DEF Kill, Ended, flagVars
<1>5. CASE OfferThrows(p) \/ BeginThrows(p)
  BY <1>1, <1>5, DieStep DEF OfferThrows, BeginThrows, Ended, flagVars
<1>. QED  BY <1>2, <1>3, <1>4, <1>5

\* The path that the save dialog returns.
LEMMA BareType == \A name \in Name : Bare(name) \in Path
<1>1. <<>> \in Seq(Nat)
  OBVIOUS
<1>. QED  BY <1>1, Zenon DEF Bare, Path

\* What the users do: a path is picked before the acceptance is sent, and the
\* answer to the overwrite question yields a path, FreshPathIsFree.
LEMMA UserSteps ==
  ASSUME Inv, NEW p \in Peer, UserStep(p)
  PROVE  Inv'
<1>. TypeOK /\ TransportTypeOK /\ FileTypeOK /\ ThreadTypeOK
  BY TypeParts DEF Inv
<1>. USE DEF MainGoto, negotiationVars, flagVars, transportVars
<1>1. ASSUME NEW l \in Line, ReadLine(p, l)
      PROVE  Inv'
  <2>1. Dispatch(p, l) \in MainPc \ (Accepting \cup Sending)
    BY DEF Dispatch, ParseCommands, MainPc, Accepting, Sending, Line
  <2>2. TransportTypeOK' /\ ThreadTypeOK'
    BY <1>1, <2>1, TransportTypeUnchanged
       DEF ReadLine, TakeLine, ThreadTypeOK
  <2>. QED  BY <1>1, <2>1, <2>2, LocalStep
            DEF ReadLine, ThreadTypeOK, fileVars
<1>2. ASSUME NEW l \in Line, AskOverwrite(p, l)
      PROVE  Inv'
  <2>1. askedPath[p] \in Path
    BY <1>2 DEF AskOverwrite, FileTypeOK, Inv, AskedPathKnown
  <2>2. FreshPath(p, askedPath[p]) \in Path
    BY <2>1, FreshPathIsFree
  <2>3. FileTypeOK'
    BY <1>2, <2>2 DEF AskOverwrite, FileTypeOK
  <2>4. ThreadTypeOK'
    BY <1>2 DEF AskOverwrite, ThreadTypeOK, TakeLine, RecvGoto, RecvPc
  <2>5. TransportTypeOK' /\ \A r \in Peer : PacketsTo(r)' = PacketsTo(r)
    BY <1>2, TransportTypeUnchanged DEF AskOverwrite
  <2>6. AskedPathKnown'
    BY <1>2 DEF AskOverwrite, AskedPathKnown, Inv, RecvGoto, ThreadTypeOK
  <2>7. \A r \in Peer :
          /\ recvPc'[r] \in Saving => recvPc[r] \in Saving
          /\ filePathOnTarget'[r] = NoPath => filePathOnTarget[r] = NoPath
    BY <1>2, <2>2, NameAssumption
       DEF AskOverwrite, RecvGoto, Saving, ThreadTypeOK, FileTypeOK
  <2>8. ChainKept
    BY <1>2, <2>5, <2>7 DEF AskOverwrite, ChainKept, ChainKeptAt
  <2>. QED  BY <2>3, <2>4, <2>5, <2>6, <2>8, InvParts
<1>3. ASSUME NEW name \in Name, PickTarget(p, name)
      PROVE  Inv'
  <2>1. Bare(name) \in Path
    BY BareType
  <2>2. FileTypeOK'
    BY <1>3, <2>1 DEF PickTarget, FileTypeOK
  <2>3. ThreadTypeOK'
    BY <1>3 DEF PickTarget, ThreadTypeOK, MainPc
  <2>4. TransportTypeOK' /\ \A r \in Peer : PacketsTo(r)' = PacketsTo(r)
    BY <1>3, TransportTypeUnchanged DEF PickTarget
  <2>5. AskedPathKnown'
    BY <1>3 DEF PickTarget, AskedPathKnown, Inv
  <2>6. \A r \in Peer :
          /\ filePathOnTarget'[r] = NoPath => filePathOnTarget[r] = NoPath
          /\ mainPc'[r] \in Accepting
               => mainPc[r] \in Accepting \/ filePathOnTarget'[r] # NoPath
          /\ mainPc'[r] \in Sending => mainPc[r] \in Sending
    BY <1>3, <2>1, NameAssumption
       DEF PickTarget, ThreadTypeOK, FileTypeOK, Accepting, Sending
  <2>7. ChainKept
    BY <1>3, <2>4, <2>6 DEF PickTarget, ChainKept, ChainKeptAt
  <2>. QED  BY <2>2, <2>3, <2>4, <2>5, <2>7, InvParts
<1>4. CASE CancelSaveDialog(p)
  <2>1. TransportTypeOK' /\ ThreadTypeOK'
    BY <1>4, TransportTypeUnchanged
       DEF CancelSaveDialog, ThreadTypeOK, MainPc
  <2>. QED  BY <1>4, <2>1, LocalStep
            DEF CancelSaveDialog, ThreadTypeOK, Accepting, Sending
<1>5. ASSUME NEW f \in File, PickFile(p, f)
      PROVE  Inv'
  <2>1. "Y" \in Line
    BY DEF Line
  <2>2. TransportTypeOK' /\ ThreadTypeOK'
    BY <1>5, <2>1, TransportTypeUnchanged
       DEF PickFile, TakeLine, ThreadTypeOK, MainPc
  <2>. QED  BY <1>5, <2>2, LocalStep
            DEF PickFile, ThreadTypeOK, Accepting, Sending, fileVars
<1>6. CASE DeclineFile(p)
  <2>1. lines' \in [Peer -> [Line -> Nat]]
    <3>1. ASSUME NEW l \in Line, TakeLine(p, l)
          PROVE  lines' \in [Peer -> [Line -> Nat]]
      BY <3>1 DEF TakeLine, ThreadTypeOK
    <3>. QED  BY <1>6, <3>1 DEF DeclineFile, ThreadTypeOK
  <2>2. TransportTypeOK' /\ ThreadTypeOK'
    BY <1>6, <2>1, TransportTypeUnchanged
       DEF DeclineFile, ThreadTypeOK, MainPc
  <2>. QED  BY <1>6, <2>2, LocalStep
            DEF DeclineFile, ThreadTypeOK, Accepting, Sending
<1>7. CASE Kill(p) \/ OfferThrows(p)
  BY <1>7, EndingSteps
<1>. QED  BY <1>1, <1>2, <1>3, <1>4, <1>5, <1>6, <1>7 DEF UserStep

-----------------------------------------------------------------------------
\* Writing to a path keeps the disk a finite set of files.
LEMMA WriteType ==
  ASSUME FileTypeOK, NEW p \in Peer, NEW path \in Path,
         NEW content \in Seq(Chunk), Write(p, path, content),
         filePathOnTarget' = filePathOnTarget, askedPath' = askedPath
  PROVE  FileTypeOK' /\ \A r \in Peer : r # p => disk'[r] = disk[r]
<1>. DEFINE new == [x \in DOMAIN disk[p] \cup {path} |->
                      IF x = path THEN content ELSE disk[p][x]]
<1>1. disk' = [disk EXCEPT ![p] = new]
  BY DEF Write
<1>2. IsFiniteSet(DOMAIN new)
  BY FS_AddElement DEF FileTypeOK
<1>3. DOMAIN new \subseteq Path /\ \A x \in DOMAIN new : new[x] \in Seq(Chunk)
  BY DEF FileTypeOK
<1>. HIDE DEF new
<1>4. disk'[p] = new /\ \A r \in Peer : r # p => disk'[r] = disk[r]
  BY <1>1 DEF FileTypeOK
<1>5. DOMAIN disk' = Peer
  BY <1>1 DEF FileTypeOK
<1>. QED  BY <1>2, <1>3, <1>4, <1>5 DEF FileTypeOK

LEMMA WrittenType ==
  ASSUME FileTypeOK, NEW p \in Peer, NEW path
  PROVE  Written(p, path) \in Seq(Chunk)
BY DEF FileTypeOK, Written, Exists

\* A frame is handled only where a target has been picked.
LEMMA TargetKnown ==
  ASSUME Inv, NEW p \in Peer, FrameTo(p) \/ recvPc[p] \in Saving
  PROVE  filePathOnTarget[p] \in Path
BY DEF Inv, NothingBeforeTarget, TypeOK, FileTypeOK, Saving

\* The steps of the receive threads.
LEMMA RecvSteps ==
  ASSUME Inv, NEW p \in Peer, RecvStep(p)
  PROVE  Inv'
<1>. TypeOK /\ TransportTypeOK /\ FileTypeOK /\ ThreadTypeOK /\ WireOK
     /\ sock \in [Peer -> SockState]
  BY TypeParts DEF Inv, TransportTypeOK
<1>. USE DEF negotiationVars, flagVars
<1>1. ASSUME NEW types, Receives(p, types)
      PROVE  /\ Head(wire[p]) \in PacketsTo(p) /\ Head(wire[p]) \in Packet
             /\ Head(wire[p]).type \in types
             /\ recvPc[p] = "recv"
  BY <1>1, HeadIsMember DEF Receives, WireOK, PacketsTo
<1>2. CASE RecvLoop(p)
  <2>1. TransportTypeOK' /\ ThreadTypeOK'
    BY <1>2, TransportTypeUnchanged
       DEF RecvLoop, RecvGoto, ThreadTypeOK, RecvPc
  <2>. QED  BY <1>2, <2>1, LocalStep
            DEF RecvLoop, RecvGoto, ThreadTypeOK, Saving, transportVars
<1>3. CASE RecvText(p)
  <2>1. ThreadTypeOK' /\ AskedPathKnown'
    BY <1>3 DEF RecvText, RecvGoto, ThreadTypeOK, RecvPc, AskedPathKnown,
                Inv, Takes, Close, fileVars
  <2>2. FileTypeOK'
    BY <1>3, FileTypeUnchanged DEF RecvText
  <2>3. CASE Close(p)
    <3>1. wire' = [wire EXCEPT ![p] = <<>>] /\ sock' \in [Peer -> SockState]
      BY <2>3 DEF Close, SockState
    <3>2. TransportTypeOK'
         /\ \A r \in Peer : PacketsTo(r)' \subseteq PacketsTo(r)
      BY <3>1, EmptiedEffect, TwoPeers DEF TransportTypeOK
    <3>3. \A r \in Peer : recvPc'[r] \in Saving => recvPc[r] \in Saving
      BY <1>3 DEF RecvText, RecvGoto, ThreadTypeOK, Saving
    <3>4. ChainKept
      BY <1>3, <3>2, <3>3 DEF RecvText, ChainKept, ChainKeptAt, fileVars
    <3>. QED  BY <2>1, <2>2, <3>2, <3>4, InvParts
  <2>4. CASE Takes(p) /\ UNCHANGED sock
    BY <1>3, <2>1, <2>2, <2>4, TakeStep
       DEF RecvText, RecvPc, Saving, fileVars
  <2>. QED  BY <1>3, <2>3, <2>4 DEF RecvText
<1>4. CASE RecvRequest(p)
  <2>1. Head(wire[p]).file \in File \cup {NoFile}
    BY <1>1, <1>4 DEF RecvRequest, Packet
  <2>2. ThreadTypeOK' /\ AskedPathKnown'
    BY <1>4, <2>1 DEF RecvRequest, RecvGoto, ThreadTypeOK, RecvPc,
                      AskedPathKnown, Inv, fileVars
  <2>3. FileTypeOK'
    BY <1>4, FileTypeUnchanged DEF RecvRequest
  <2>. QED  BY <1>4, <2>2, <2>3, TakeStep
            DEF RecvRequest, RecvPc, Saving, fileVars
<1>5. CASE RecvAccept(p)
  <2>1. ThreadTypeOK' /\ AskedPathKnown'
    BY <1>5 DEF RecvAccept, RecvGoto, ThreadTypeOK, RecvPc, AskedPathKnown,
                Inv, fileVars
  <2>2. FileTypeOK'
    BY <1>5, FileTypeUnchanged DEF RecvAccept
  <2>3. IsAcceptance(Head(wire[p]))
    BY <1>1, <1>5 DEF RecvAccept, IsAcceptance
  <2>4. \A r \in Peer : r # p => fileSendInProgress'[r] = fileSendInProgress[r]
    BY <1>5 DEF RecvAccept, ThreadTypeOK
  <2>. QED  BY <1>5, <2>1, <2>2, <2>3, <2>4, TakeStep
            DEF RecvAccept, RecvPc, Saving, fileVars
<1>6. CASE RecvReject(p)
  <2>1. ThreadTypeOK' /\ AskedPathKnown'
    BY <1>6 DEF RecvReject, RecvGoto, ThreadTypeOK, RecvPc, AskedPathKnown,
                Inv, fileVars
  <2>2. FileTypeOK'
    BY <1>6, FileTypeUnchanged DEF RecvReject
  <2>. QED  BY <1>6, <2>1, <2>2, TakeStep
            DEF RecvReject, RecvPc, Saving, fileVars
<1>7. CASE IgnoreFrame(p) \/ RecvEnd(p)
  <2>1. ThreadTypeOK' /\ AskedPathKnown'
    BY <1>7 DEF IgnoreFrame, RecvEnd, RecvGoto, ThreadTypeOK, RecvPc,
                AskedPathKnown, Inv, fileVars
  <2>2. FileTypeOK'
    BY <1>7, FileTypeUnchanged DEF IgnoreFrame, RecvEnd
  <2>. QED  BY <1>7, <2>1, <2>2, TakeStep
            DEF IgnoreFrame, RecvEnd, RecvPc, Saving, fileVars
<1>8. CASE RecvBegin(p)
  <2>1. PICK pc \in {"loop", "askOverwrite", "create"} : RecvGoto(p, pc)
    BY <1>8 DEF RecvBegin
  <2>2. Head(wire[p]).type \in FrameType
    BY <1>1, <1>8 DEF RecvBegin, FrameType
  <2>3. filePathOnTarget[p] \in Path
    BY <1>1, <1>8, <2>2, TargetKnown DEF RecvBegin, FrameTo
  <2>4. ThreadTypeOK'
    BY <1>8, <2>1 DEF RecvBegin, RecvGoto, ThreadTypeOK, RecvPc
  <2>5. FileTypeOK'
    BY <1>8, <2>3 DEF RecvBegin, FileTypeOK
  <2>6. AskedPathKnown'
    BY <1>8, <2>3, NameAssumption
       DEF RecvBegin, RecvGoto, AskedPathKnown, Inv, ThreadTypeOK, FileTypeOK
  <2>. QED  BY <1>8, <2>1, <2>2, <2>4, <2>5, <2>6, TakeStep
            DEF RecvBegin, RecvPc
<1>9. CASE CreateTarget(p)
  <2>1. filePathOnTarget[p] \in Path /\ recvPc[p] \in Saving
    BY <1>9, TargetKnown DEF CreateTarget, Saving
  <2>2. FileTypeOK' /\ \A r \in Peer : r # p => disk'[r] = disk[r]
    <3>1. CASE Truncate(p, filePathOnTarget[p])
      <4>1. <<>> \in Seq(Chunk)
        OBVIOUS
      <4>. QED  BY <1>9, <2>1, <3>1, <4>1, WriteType
                DEF CreateTarget, Truncate
    <3>2. CASE UNCHANGED disk
      BY <1>9, <3>2 DEF CreateTarget, FileTypeOK
    <3>. QED  BY <1>9, <3>1, <3>2 DEF CreateTarget
  <2>3. ThreadTypeOK' /\ AskedPathKnown'
    BY <1>9 DEF CreateTarget, RecvGoto, ThreadTypeOK, RecvPc, AskedPathKnown,
                Inv
  <2>4. TransportTypeOK' /\ \A r \in Peer : PacketsTo(r)' = PacketsTo(r)
    BY <1>9, TransportTypeUnchanged DEF CreateTarget
  <2>5. \A r \in Peer : recvPc'[r] \in Saving => recvPc[r] \in Saving
    BY <1>9 DEF CreateTarget, RecvGoto, ThreadTypeOK, Saving
  <2>6. ChainKept
    BY <1>9, <2>1, <2>2, <2>4, <2>5 DEF CreateTarget, ChainKept, ChainKeptAt
  <2>. QED  BY <2>2, <2>3, <2>4, <2>6, InvParts
<1>10. CASE RecvChunk(p)
  <2>1. Head(wire[p]).type \in FrameType
    BY <1>1, <1>10 DEF RecvChunk, FrameType
  <2>2. filePathOnTarget[p] \in Path
    BY <1>1, <1>10, <2>1, TargetKnown DEF RecvChunk, FrameTo
  <2>3. FileTypeOK' /\ \A r \in Peer : r # p => disk'[r] = disk[r]
    <3>1. CASE AppendChunk(p, filePathOnTarget[p], Head(wire[p]))
      <4>1. <<Head(wire[p]).file, Head(wire[p]).part>> \in Chunk
        BY <1>1, <1>10 DEF RecvChunk, Packet, Chunk
      <4>2. Append(Written(p, filePathOnTarget[p]),
                   <<Head(wire[p]).file, Head(wire[p]).part>>) \in Seq(Chunk)
        BY <4>1, WrittenType, AppendProperties
      <4>. QED  BY <1>10, <2>2, <3>1, <4>2, WriteType
                DEF RecvChunk, AppendChunk
    <3>2. CASE UNCHANGED disk
      BY <1>10, <3>2 DEF RecvChunk, FileTypeOK
    <3>. QED  BY <1>10, <3>1, <3>2 DEF RecvChunk
  <2>4. ThreadTypeOK' /\ AskedPathKnown'
    BY <1>10 DEF RecvChunk, RecvGoto, ThreadTypeOK, RecvPc, AskedPathKnown,
                 Inv
  <2>. QED  BY <1>10, <2>1, <2>3, <2>4, TakeStep DEF RecvChunk, RecvPc
<1>11. CASE RecvEof(p)
  <2>1. TransportTypeOK'
    BY <1>11 DEF RecvEof, Shutdown, TransportTypeOK, WireOK, SockState
  <2>2. ThreadTypeOK'
    BY <1>11 DEF RecvEof, RecvGoto, ThreadTypeOK, RecvPc
  <2>. QED  BY <1>11, <2>1, <2>2, LocalStep
            DEF RecvEof, RecvGoto, ThreadTypeOK, Saving
<1>12. CASE RecvError(p)
  <2>1. wire' = [wire EXCEPT ![p] = <<>>] /\ sock' \in [Peer -> SockState]
    BY <1>12 DEF RecvError, Close, SockState
  <2>2. TransportTypeOK'
       /\ \A r \in Peer : PacketsTo(r)' \subseteq PacketsTo(r)
    BY <2>1, EmptiedEffect, TwoPeers DEF TransportTypeOK
  <2>3. ThreadTypeOK'
    BY <1>12 DEF RecvError, RecvGoto, ThreadTypeOK, RecvPc
  <2>4. FileTypeOK'
    BY <1>12, FileTypeUnchanged DEF RecvError
  <2>5. AskedPathKnown'
    BY <1>12 DEF RecvError, RecvGoto, AskedPathKnown, Inv, ThreadTypeOK,
                 fileVars
  <2>6. \A r \in Peer : recvPc'[r] \in Saving => recvPc[r] \in Saving
    BY <1>12 DEF RecvError, RecvGoto, ThreadTypeOK, Saving
  <2>7. ChainKept
    BY <1>12, <2>2, <2>6 DEF RecvError, ChainKept, ChainKeptAt, fileVars
  <2>. QED  BY <2>2, <2>3, <2>4, <2>5, <2>7, InvParts
<1>13. CASE BeginThrows(p)
  BY <1>13, EndingSteps
<1>. QED  BY <1>2, <1>3, <1>4, <1>5, <1>6, <1>7, <1>8, <1>9, <1>10, <1>11,
             <1>12, <1>13 DEF RecvStep

-----------------------------------------------------------------------------
LEMMA InitInv == Init => Inv
<1>. SUFFICES ASSUME Init PROVE Inv
  OBVIOUS
<1>1. TransportTypeOK /\ \A p \in Peer : PacketsTo(p) = {}
  <2>1. \A p \in Peer : wire[p] = <<>>
    BY DEF Init, TransportInit
  <2>2. WireOK
    BY CapAssumption DEF Init, TransportInit, WireOK
  <2>. QED  BY <2>1, <2>2
            DEF Init, TransportInit, TransportTypeOK, SockState, PacketsTo
<1>2. ThreadTypeOK
  BY BudgetAssumption
     DEF Init, ThreadTypeOK, MainPc, RecvPc, NotOpen
<1>3. FileTypeOK
  <2>. SUFFICES ASSUME NEW p \in Peer
       PROVE  /\ IsFiniteSet(DOMAIN disk[p])
              /\ DOMAIN disk[p] \subseteq Path
              /\ \A path \in DOMAIN disk[p] : disk[p][path] \in Seq(Chunk)
    BY DEF Init, FileInit, FileTypeOK
  <2>1. DOMAIN disk[p] = OldPaths(p)
        /\ \A path \in OldPaths(p) : disk[p][path] = OldContent
    BY DEF Init, FileInit
  <2>2. OldNames[p] \subseteq Name /\ IsFiniteSet(Name)
    BY NameAssumption
  <2>3. IsFiniteSet(OldPaths(p))
    <3>1. IsFiniteSet(OldNames[p])
      BY <2>2, FS_Subset
    <3>2. [n \in OldNames[p] |-> Bare(n)]
            \in Surjection(OldNames[p], OldPaths(p))
      BY DEF Surjection, OldPaths
    <3>. QED  BY <3>1, <3>2, FS_Surjection
  <2>4. OldPaths(p) \subseteq Path
    BY <2>2, BareType DEF OldPaths
  <2>5. OldContent \in Seq(Chunk)
    <3>1. <<NoFile, 0>> \in Chunk
      BY DEF Chunk
    <3>. QED  BY <3>1 DEF OldContent
  <2>. QED  BY <2>1, <2>3, <2>4, <2>5
<1>4. AskedPathKnown
  BY DEF Init, AskedPathKnown
<1>5. NothingBeforeTarget
  BY <1>1, TwoPeers
     DEF Init, FileInit, NothingBeforeTarget, FrameTo
<1>. QED  BY <1>1, <1>2, <1>3, <1>4, <1>5, TypeParts DEF Inv

LEMMA NextInv == Inv /\ [Next]_vars => Inv'
<1>. SUFFICES ASSUME Inv, [Next]_vars PROVE Inv'
  OBVIOUS
<1>1. ASSUME NEW p \in Peer, MainStep(p)
      PROVE  Inv'
  BY <1>1, SendingSteps, QuietSteps, EndingSteps DEF MainStep
<1>2. CASE UNCHANGED vars
  BY <1>2, FileTypeUnchanged, TransportTypeUnchanged, TypeParts, LocalStep
     DEF vars, negotiationVars, flagVars, userVars, transportVars, Inv,
         ThreadTypeOK
<1>. QED  BY <1>1, <1>2, UserSteps, RecvSteps DEF Next

LEMMA Invariance == Spec => []Inv
BY InitInv, NextInv, PTL DEF Spec

\* Type correctness of a session, for all files, disks, users and faults.
THEOREM TypeCorrect == Spec => []TypeOK
<1>1. Inv => TypeOK
  BY DEF Inv
<1>. QED  BY Invariance, <1>1, PTL

\* Until a user has picked a target for an accepted file, no acceptance
\* leaves, no file is sent and no byte is written to the disk: the chain from
\* PickTarget over ACCEPT and FileSendInProgress to RecvFile has no other
\* beginning.
THEOREM NothingBeforeTargetHolds == Spec => []NothingBeforeTarget
<1>1. Inv => NothingBeforeTarget
  BY DEF Inv
<1>. QED  BY Invariance, <1>1, PTL
=============================================================================
