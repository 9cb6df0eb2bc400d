---------------------------- MODULE AcceptProofs ----------------------------
(***************************************************************************)
(* Proof that a peer begins at most one file for every acceptance that was *)
(* sent to it.  Every acceptance is counted once wherever it is: in the    *)
(* stream, then as the flag FileSendInProgress, then as a file begun.      *)
(***************************************************************************)
EXTENDS WireSendProofs

AcceptIndices(s) == {i \in 1 .. Len(s) : IsAcceptance(s[i])}
Acceptances(s) == Cardinality(AcceptIndices(s))

\* Where FileSendInProgress cannot make p's main thread begin another file.
Busy == Ended \cup Sending \cup {"endSend"}
Holds(p) == fileSendInProgress[p] /\ mainPc[p] \notin Busy
Held(p) == IF Holds(p) THEN 1 ELSE 0

\* The strengthening of NoFileWithoutAccept: the credit covers the
\* acceptances on their way and the one that has arrived.
CreditCovers ==
  \A p \in Peer : credit[p] >= Acceptances(wire[p]) + Held(p)

-----------------------------------------------------------------------------
(***************************************************************************)
(* Counting acceptances in a stream.                                       *)
(***************************************************************************)
LEMMA AcceptancesType ==
  ASSUME NEW s \in Seq(Packet)
  PROVE  /\ IsFiniteSet(AcceptIndices(s))
         /\ Acceptances(s) \in Nat
<1>1. IsFiniteSet(1 .. Len(s))
  BY FS_Interval
<1>2. IsFiniteSet(AcceptIndices(s))
  BY <1>1, FS_Subset DEF AcceptIndices
<1>. QED  BY <1>2, FS_CardinalityType DEF Acceptances

LEMMA AcceptancesEmpty == Acceptances(<<>>) = 0
<1>1. AcceptIndices(<<>>) = {}
  BY DEF AcceptIndices
<1>. QED  BY <1>1, FS_EmptySet DEF Acceptances

LEMMA AcceptancesAppend ==
  ASSUME NEW s \in Seq(Packet), NEW pkt \in Packet
  PROVE  Acceptances(Append(s, pkt))
           = Acceptances(s) + (IF IsAcceptance(pkt) THEN 1 ELSE 0)
<1>. DEFINE new == Len(s) + 1
            old == AcceptIndices(s)
<1>1. IsFiniteSet(old) /\ new \notin old
  BY AcceptancesType DEF AcceptIndices
<1>2. AcceptIndices(Append(s, pkt))
        = IF IsAcceptance(pkt) THEN old \cup {new} ELSE old
  BY AppendProperties DEF AcceptIndices
<1>. HIDE DEF new, old
<1>3. Cardinality(old \cup {new}) = Cardinality(old) + 1
  BY <1>1, FS_AddElement
<1>. QED  BY <1>2, <1>3, AcceptancesType DEF Acceptances, old

LEMMA AcceptancesTail ==
  ASSUME NEW s \in Seq(Packet), s # <<>>
  PROVE  Acceptances(s)
           = Acceptances(Tail(s)) + (IF IsAcceptance(Head(s)) THEN 1 ELSE 0)
<1>. DEFINE all == AcceptIndices(s)
            later == all \ {1}
            tail == AcceptIndices(Tail(s))
            shift == [i \in later |-> i - 1]
<1>1. IsFiniteSet(all) /\ (1 \in all <=> IsAcceptance(Head(s)))
  <2>1. Head(s) = s[1] /\ 1 \in 1 .. Len(s)
    BY EmptySeq
  <2>. QED  BY <2>1, AcceptancesType DEF AcceptIndices
<1>2. IsFiniteSet(later)
      /\ Cardinality(all)
           = Cardinality(later) + (IF IsAcceptance(Head(s)) THEN 1 ELSE 0)
  <2>. HIDE DEF all
  <2>1. IsFiniteSet(later)
        /\ Cardinality(later)
             = IF 1 \in all THEN Cardinality(all) - 1 ELSE Cardinality(all)
    BY <1>1, FS_RemoveElement
  <2>2. Cardinality(all) \in Nat
    BY <1>1, FS_CardinalityType
  <2>. QED  BY <1>1, <2>1, <2>2
<1>3. Len(Tail(s)) = Len(s) - 1 /\ Len(s) \in Nat \ {0}
      /\ \A i \in 1 .. Len(s) - 1 : Tail(s)[i] = s[i + 1]
  BY HeadTailProperties
<1>4. shift \in Bijection(later, tail)
  <2>1. \A i \in later : i - 1 \in tail
    BY <1>3 DEF AcceptIndices
  <2>2. \A j \in tail : j + 1 \in later /\ shift[j + 1] = j
    BY <1>3 DEF AcceptIndices
  <2>3. \A i, j \in later : i - 1 = j - 1 => i = j
    BY DEF AcceptIndices
  <2>. HIDE DEF later, tail
  <2>4. shift \in [later -> tail]
    BY <2>1
  <2>5. shift \in Injection(later, tail)
    BY <2>3, <2>4 DEF Injection, IsInjective
  <2>6. shift \in Surjection(later, tail)
    BY <2>2, <2>4 DEF Surjection
  <2>. QED  BY <2>5, <2>6 DEF Bijection
<1>5. Cardinality(tail) = Cardinality(later)
  BY <1>2, <1>4, FS_Bijection DEF ExistsBijection
<1>. QED  BY <1>2, <1>5 DEF Acceptances

-----------------------------------------------------------------------------
(***************************************************************************)
(* Steps that gain nothing: no stream holds more acceptances than before,  *)
(* no flag is set, and the credit is as it was.                            *)
(***************************************************************************)
StreamsShrink ==
  \A r \in Peer : /\ Acceptances(wire'[r]) \in Nat
                  /\ Acceptances(wire'[r]) <= Acceptances(wire[r])

NoFlagGained == \A r \in Peer : Holds(r)' => Holds(r)

LEMMA NothingGained ==
  ASSUME TypeOK, CreditCovers, StreamsShrink, NoFlagGained, credit' = credit
  PROVE  CreditCovers'
<1>. SUFFICES ASSUME NEW r \in Peer
     PROVE  credit'[r] >= Acceptances(wire'[r]) + Held(r)'
  BY DEF CreditCovers
<1>1. credit[r] \in Int /\ wire[r] \in Seq(Packet)
  BY DEF TypeOK, TransportTypeOK, WireOK
<1>2. Acceptances(wire[r]) \in Nat
  BY <1>1, AcceptancesType
<1>3. Held(r) \in {0, 1} /\ Held(r)' \in {0, 1} /\ Held(r)' <= Held(r)
  BY DEF NoFlagGained, Held
<1>4. Acceptances(wire'[r]) \in Nat
      /\ Acceptances(wire'[r]) <= Acceptances(wire[r])
  BY DEF StreamsShrink
<1>5. credit[r] >= Acceptances(wire[r]) + Held(r)
  BY DEF CreditCovers
<1>. QED  BY <1>1, <1>2, <1>3, <1>4, <1>5

\* A thread of p leaves its stream alone, takes a packet from it or empties it.
LEMMA StreamsKept ==
  ASSUME TypeOK, NEW p \in Peer,
         wire' = wire \/ Takes(p) \/ wire' = [wire EXCEPT ![p] = <<>>]
  PROVE  StreamsShrink
<1>. SUFFICES ASSUME NEW r \in Peer
     PROVE  /\ Acceptances(wire'[r]) \in Nat
            /\ Acceptances(wire'[r]) <= Acceptances(wire[r])
  BY DEF StreamsShrink
<1>1. wire \in [Peer -> Seq(Packet)]
  BY DEF TypeOK, TransportTypeOK, WireOK
<1>2. Acceptances(wire[r]) \in Nat
  BY <1>1, AcceptancesType
<1>3. CASE wire'[r] = wire[r]
  BY <1>2, <1>3
<1>4. CASE wire'[r] = <<>>
  BY <1>2, <1>4, AcceptancesEmpty
<1>5. CASE wire[r] # <<>> /\ wire'[r] = Tail(wire[r])
  <2>1. Tail(wire[r]) \in Seq(Packet)
    BY <1>1, <1>5, HeadTailProperties
  <2>2. Acceptances(Tail(wire[r])) \in Nat
    BY <2>1, AcceptancesType
  <2>. QED  BY <1>1, <1>2, <1>5, <2>2, AcceptancesTail
<1>. QED  BY <1>1, <1>3, <1>4, <1>5 DEF Takes

\* A thread of p does not set the flag, and p's main thread does not come
\* back from SendFile.
LEMMA FlagsKept ==
  ASSUME TypeOK, NEW p \in Peer, NEW pc,
         mainPc' = [mainPc EXCEPT ![p] = pc],
         fileSendInProgress' = fileSendInProgress,
         mainPc[p] \in Busy => pc \in Busy
  PROVE  NoFlagGained
BY DEF TypeOK, NoFlagGained, Holds

LEMMA FlagsUntouched ==
  ASSUME UNCHANGED <<mainPc, fileSendInProgress>>
  PROVE  NoFlagGained
BY DEF NoFlagGained, Holds

-----------------------------------------------------------------------------
(***************************************************************************)
(* The steps that send.                                                    *)
(***************************************************************************)
\* SendPacket adds at most its own packet to what is on its way to the peer.
LEMMA SendStreams ==
  ASSUME TypeOK, NEW p \in Peer, NEW pkt \in Packet,
         NEW ok, NEW err, Send(p, pkt, ok, err)
  PROVE  /\ \A r \in Peer : Acceptances(wire'[r]) \in Nat
         /\ Acceptances(wire'[p]) <= Acceptances(wire[p])
         /\ Acceptances(wire'[Other(p)])
              <= Acceptances(wire[Other(p)])
                   + (IF IsAcceptance(pkt) THEN 1 ELSE 0)
<1>. DEFINE q == Other(p)
<1>1. wire \in [Peer -> Seq(Packet)] /\ q \in Peer /\ q # p
      /\ \A r \in Peer : r = p \/ r = q
  BY TwoPeers DEF TypeOK, TransportTypeOK, WireOK
<1>2. Acceptances(wire[p]) \in Nat /\ Acceptances(wire[q]) \in Nat
  BY <1>1, AcceptancesType
<1>3. CASE wire' = [wire EXCEPT ![q] = Append(wire[q], pkt)]
  <2>1. wire'[p] = wire[p] /\ wire'[q] = Append(wire[q], pkt)
    BY <1>1, <1>3
  <2>2. Acceptances(wire'[q])
          = Acceptances(wire[q]) + (IF IsAcceptance(pkt) THEN 1 ELSE 0)
    BY <1>1, <2>1, AcceptancesAppend
  <2>3. (IF IsAcceptance(pkt) THEN 1 ELSE 0) \in {0, 1}
    OBVIOUS
  <2>4. Acceptances(wire'[q]) \in Nat /\ Acceptances(wire'[p]) \in Nat
    BY <1>2, <2>1, <2>2, <2>3
  <2>5. \A r \in Peer : Acceptances(wire'[r]) \in Nat
    BY <1>1, <2>4
  <2>6. Acceptances(wire'[p]) <= Acceptances(wire[p])
    BY <1>2, <2>1
  <2>7. Acceptances(wire'[q]) <= Acceptances(wire[q])
                            + (IF IsAcceptance(pkt) THEN 1 ELSE 0)
    BY <2>2, <2>4
  <2>. QED  BY <2>5, <2>6, <2>7
<1>4. CASE wire' = wire \/ wire' = [wire EXCEPT ![p] = <<>>]
  <2>1. StreamsShrink
    BY <1>4, StreamsKept
  <2>. QED  BY <1>1, <1>2, <2>1 DEF StreamsShrink
<1>. QED  BY <1>3, <1>4
          DEF Send, Delivered, Lost, Refused, Die, Close

LEMMA SendPc ==
  ASSUME NEW p \in Peer, NEW pkt, NEW ok, NEW err, Send(p, pkt, ok, err)
  PROVE  \E pc \in {ok, err, "sigpipe"} : mainPc' = [mainPc EXCEPT ![p] = pc]
BY DEF Send, MainGoto, Die

\* Sending anything but an acceptance gains nothing.
LEMMA OtherSend ==
  ASSUME TypeOK, CreditCovers, NEW p \in Peer, NEW pkt \in Packet,
         NEW ok, NEW err, Send(p, pkt, ok, err), ~IsAcceptance(pkt),
         mainPc[p] \in Busy => ok \in Busy /\ err \in Busy,
         fileSendInProgress' = fileSendInProgress, credit' = credit
  PROVE  CreditCovers'
<1>1. StreamsShrink
  <2>1. Acceptances(wire[Other(p)]) \in Nat
    BY TwoPeers, AcceptancesType DEF TypeOK, TransportTypeOK, WireOK
  <2>. QED  BY <2>1, SendStreams, TwoPeers DEF StreamsShrink
<1>2. PICK pc \in {ok, err, "sigpipe"} : mainPc' = [mainPc EXCEPT ![p] = pc]
  BY SendPc
<1>3. mainPc[p] \in Busy => pc \in Busy
  BY DEF Busy, Ended
<1>4. NoFlagGained
  BY <1>2, <1>3, FlagsKept
<1>. QED  BY <1>1, <1>4, NothingGained

\* Sending an acceptance is paid for when it is sent.
LEMMA AcceptStep ==
  ASSUME TypeOK, CreditCovers, NEW p \in Peer, SendAccept(p)
  PROVE  CreditCovers'
<1>. DEFINE q == Other(p)
<1>1. q \in Peer /\ q # p /\ \A r \in Peer : r = p \/ r = q
  BY TwoPeers
<1>2. credit \in [Peer -> Int] /\ wire \in [Peer -> Seq(Packet)]
      /\ mainPc[p] = "sendAccept"
  BY DEF TypeOK, TransportTypeOK, WireOK, SendAccept
<1>3. Answer("FILE_ACCEPT") \in Packet
  BY BuiltPackets
<1>4. Send(p, Answer("FILE_ACCEPT"), "acceptSent", "checkSend")
  BY DEF SendAccept
<1>5. /\ \A r \in Peer : Acceptances(wire'[r]) \in Nat
      /\ Acceptances(wire'[p]) <= Acceptances(wire[p])
      /\ Acceptances(wire'[q]) <= Acceptances(wire[q]) + 1
  <2>1. IsAcceptance(Answer("FILE_ACCEPT"))
    BY DEF IsAcceptance, Answer
  <2>2. (IF IsAcceptance(Answer("FILE_ACCEPT")) THEN 1 ELSE 0) = 1
    BY <2>1
  <2>. HIDE DEF q
  <2>. QED  BY <1>3, <1>4, <2>2, SendStreams DEF q
<1>6. credit'[q] = credit[q] + 1 /\ credit'[p] = credit[p]
  BY <1>1, <1>2 DEF SendAccept
<1>7. PICK pc \in {"acceptSent", "checkSend", "sigpipe"} :
        mainPc' = [mainPc EXCEPT ![p] = pc]
  BY <1>4, SendPc
<1>8. NoFlagGained
  BY <1>2, <1>7, FlagsKept
     DEF Busy, Ended, Sending, SendAccept, negotiationVars
<1>. SUFFICES ASSUME NEW r \in Peer
     PROVE  credit'[r] >= Acceptances(wire'[r]) + Held(r)'
  BY DEF CreditCovers
<1>9. Held(r) \in {0, 1} /\ Held(r)' \in {0, 1} /\ Held(r)' <= Held(r)
  BY <1>8 DEF NoFlagGained, Held
<1>10. credit[r] >= Acceptances(wire[r]) + Held(r)
       /\ Acceptances(wire[r]) \in Nat
  BY <1>2, AcceptancesType DEF CreditCovers
<1>11. CASE r = p
  BY <1>2, <1>5, <1>6, <1>9, <1>10, <1>11
<1>12. CASE r = q
  BY <1>2, <1>5, <1>6, <1>9, <1>10, <1>12
<1>. QED  BY <1>1, <1>11, <1>12

LEMMA SendingGain ==
  ASSUME TypeOK, CreditCovers, NEW p \in Peer,
         \/ p = Server /\ (Announce \/ StopAnnounce)
         \/ SendAccept(p) \/ SendReject(p) \/ SendRequest(p)
         \/ SendBegin(p) \/ SendChunk(p) \/ SendEnd(p) \/ SendText(p)
  PROVE  CreditCovers'
<1>. outgoingFile[p] \in File \cup {NoFile}
  BY DEF TypeOK
<1>. USE BuiltPackets DEF Busy, Ended, Sending, negotiationVars
<1>1. CASE p = Server /\ Announce
  <2>1. PICK stray \in StrayCtl : Send(p, Broadcast(stray), "loop", "loop")
    BY <1>1 DEF Announce
  <2>. QED  BY <1>1, <2>1, OtherSend DEF Announce
<1>2. CASE p = Server /\ StopAnnounce
  <2>1. PICK stray \in StrayCtl :
          Send(p, Broadcast(stray), "stopShut", "stopShut")
    BY <1>2 DEF StopAnnounce
  <2>. QED  BY <1>2, <2>1, OtherSend DEF StopAnnounce
<1>3. CASE SendAccept(p)
  BY <1>3, AcceptStep
<1>4. CASE SendReject(p)
  <2>1. ~IsAcceptance(Answer("FILE_REJECT"))
    BY DEF IsAcceptance, Answer
  <2>. QED  BY <1>4, <2>1, OtherSend DEF SendReject
<1>5. CASE SendRequest(p)
  BY <1>5, OtherSend DEF SendRequest
<1>6. CASE SendBegin(p)
  BY <1>6, OtherSend DEF SendBegin
<1>7. CASE SendChunk(p)
  <2>1. sentChunks[p] + 1 \in Nat
    BY DEF TypeOK, NotOpen
  <2>2. ChunkFrame(outgoingFile[p], sentChunks[p] + 1) \in Packet
        /\ ~IsAcceptance(ChunkFrame(outgoingFile[p], sentChunks[p] + 1))
    BY <2>1
  <2>. QED  BY <1>7, <2>2, OtherSend DEF SendChunk
<1>8. CASE SendEnd(p)
  BY <1>8, OtherSend DEF SendEnd
<1>9. CASE SendText(p)
  BY <1>9, OtherSend DEF SendText
<1>. QED  BY <1>1, <1>2, <1>3, <1>4, <1>5, <1>6, <1>7, <1>8, <1>9

-----------------------------------------------------------------------------
(***************************************************************************)
(* The steps of the main threads that do not send.                         *)
(***************************************************************************)
LEMMA LocalGain ==
  ASSUME TypeOK, CreditCovers, NEW p \in Peer, NEW pc, MainGoto(p, pc),
         wire' = wire \/ wire' = [wire EXCEPT ![p] = <<>>],
         UNCHANGED <<fileSendInProgress, credit>>,
         mainPc[p] \in Busy => pc \in Busy
  PROVE  CreditCovers'
<1>1. StreamsShrink
  BY StreamsKept
<1>2. NoFlagGained
  BY FlagsKept DEF MainGoto
<1>. QED  BY <1>1, <1>2, NothingGained

\* SendFile begins: what was held is spent.
LEMMA StartGain ==
  ASSUME TypeOK, CreditCovers, NEW p \in Peer, StartSendFile(p)
  PROVE  CreditCovers'
<1>. SUFFICES ASSUME NEW r \in Peer
     PROVE  credit'[r] >= Acceptances(wire'[r]) + Held(r)'
  BY DEF CreditCovers
<1>1. /\ credit[r] \in Int /\ wire[r] \in Seq(Packet)
      /\ credit' = [credit EXCEPT ![p] = credit[p] - 1]
      /\ credit \in [Peer -> Int] /\ mainPc \in [Peer -> MainPc]
      /\ mainPc' = [mainPc EXCEPT ![p] = "sendBegin"]
      /\ mainPc[p] = "checkSend" /\ fileSendInProgress[p]
      /\ UNCHANGED <<wire, fileSendInProgress>>
  BY DEF TypeOK, TransportTypeOK, WireOK, StartSendFile, MainGoto,
         transportVars, negotiationVars
<1>2. Acceptances(wire[r]) \in Nat /\ wire'[r] = wire[r]
  BY <1>1, AcceptancesType
<1>3. credit[r] >= Acceptances(wire[r]) + Held(r)
  BY DEF CreditCovers
<1>4. CASE r = p
  <2>1. Held(r) = 1 /\ Held(r)' = 0 /\ credit'[r] = credit[r] - 1
    BY <1>1, <1>4 DEF Held, Holds, Busy, Ended, Sending
  <2>. QED  BY <1>1, <1>2, <1>3, <2>1
<1>5. CASE r # p
  <2>1. Held(r)' = Held(r) /\ credit'[r] = credit[r]
    BY <1>1, <1>5 DEF Held, Holds
  <2>. QED  BY <1>2, <1>3, <2>1
<1>. QED  BY <1>4, <1>5

\* After SendFile the flag is cleared before the main loop goes on.
LEMMA EndGain ==
  ASSUME TypeOK, CreditCovers, NEW p \in Peer, EndSend(p)
  PROVE  CreditCovers'
<1>1. StreamsShrink
  BY StreamsKept DEF EndSend, transportVars
<1>2. NoFlagGained
  BY DEF EndSend, MainGoto, TypeOK, NoFlagGained, Holds
<1>. QED  BY <1>1, <1>2, NothingGained DEF EndSend

LEMMA MainGain ==
  ASSUME TypeOK, CreditCovers, NEW p \in Peer, MainStep(p)
  PROVE  CreditCovers'
<1>. USE DEF Busy, Ended, Sending, negotiationVars, transportVars
<1>1. CASE p = Server /\ StopShut
  BY <1>1, LocalGain DEF StopShut
<1>2. CASE p = Client /\ Join
  BY <1>2, LocalGain DEF Join, Die, Close
<1>3. CASE Leave(p)
  BY <1>3, LocalGain DEF Leave, Die, Close
<1>4. CASE MainLoop(p)
  BY <1>4, LocalGain DEF MainLoop
<1>5. CASE AnswerSent(p)
  BY <1>5, LocalGain DEF AnswerSent
<1>6. CASE DropRequest(p) \/ RequestSent(p)
  BY <1>6, LocalGain DEF DropRequest, RequestSent
<1>7. CASE NothingToSend(p) \/ CannotSendFile(p)
  BY <1>7, LocalGain DEF NothingToSend, CannotSendFile
<1>. QED  BY <1>1, <1>2, <1>3, <1>4, <1>5, <1>6, <1>7, SendingGain,
             StartGain, EndGain DEF MainStep

LEMMA UserGain ==
  ASSUME TypeOK, CreditCovers, NEW p \in Peer, UserStep(p)
  PROVE  CreditCovers'
<1>. USE DEF Busy, Ended, Sending, negotiationVars, transportVars
<1>1. ASSUME NEW l \in Line, ReadLine(p, l)
      PROVE  CreditCovers'
  BY <1>1, LocalGain DEF ReadLine
<1>2. ASSUME NEW l \in Line, AskOverwrite(p, l)
      PROVE  CreditCovers'
  BY <1>2, StreamsKept, FlagsUntouched, NothingGained DEF AskOverwrite
<1>3. ASSUME NEW name \in Name, PickTarget(p, name)
      PROVE  CreditCovers'
  BY <1>3, LocalGain DEF PickTarget
<1>4. ASSUME NEW f \in File, PickFile(p, f)
      PROVE  CreditCovers'
  BY <1>4, LocalGain DEF PickFile
<1>5. CASE CancelSaveDialog(p) \/ DeclineFile(p)
  BY <1>5, LocalGain DEF CancelSaveDialog, DeclineFile
<1>6. CASE Kill(p) \/ OfferThrows(p)
  BY <1>6, LocalGain DEF Kill, OfferThrows, Die, Close
<1>. QED  BY <1>1, <1>2, <1>3, <1>4, <1>5, <1>6 DEF UserStep

-----------------------------------------------------------------------------
(***************************************************************************)
(* The steps of the receive threads.                                       *)
(***************************************************************************)
\* A received acceptance leaves the stream and may become the flag.
LEMMA RecvAcceptGain ==
  ASSUME TypeOK, CreditCovers, NEW p \in Peer, RecvAccept(p)
  PROVE  CreditCovers'
<1>. SUFFICES ASSUME NEW r \in Peer
     PROVE  credit'[r] >= Acceptances(wire'[r]) + Held(r)'
  BY DEF CreditCovers
<1>1. /\ wire \in [Peer -> Seq(Packet)] /\ credit[r] \in Int
      /\ credit' = credit /\ mainPc' = mainPc
      /\ wire[p] # <<>> /\ wire' = [wire EXCEPT ![p] = Tail(wire[p])]
      /\ fileSendInProgress \in [Peer -> BOOLEAN]
  BY DEF TypeOK, TransportTypeOK, WireOK, RecvAccept, Takes
<1>2. IsAcceptance(Head(wire[p]))
  BY DEF RecvAccept, Receives, IsAcceptance
<1>3. credit[r] >= Acceptances(wire[r]) + Held(r)
      /\ Acceptances(wire[r]) \in Nat
  BY <1>1, AcceptancesType DEF CreditCovers
<1>4. Held(r) \in {0, 1} /\ Held(r)' \in {0, 1}
  BY DEF Held
<1>5. CASE r = p
  <2>1. wire'[r] = Tail(wire[r])
    BY <1>1, <1>5
  <2>2. Acceptances(wire[r]) = Acceptances(Tail(wire[r])) + 1
    BY <1>1, <1>2, <1>5, AcceptancesTail
  <2>3. Tail(wire[r]) \in Seq(Packet)
    BY <1>1, <1>5, HeadTailProperties
  <2>4. Acceptances(Tail(wire[r])) \in Nat
    BY <2>3, AcceptancesType
  <2>5. credit[r] >= Acceptances(Tail(wire[r])) + 1
    BY <1>1, <1>3, <1>4, <2>2, <2>4
  <2>6. credit[r] >= Acceptances(Tail(wire[r])) + Held(r)'
    BY <1>1, <1>4, <2>4, <2>5
  <2>7. credit'[r] = credit[r]
    BY <1>1
  <2>. QED  BY <2>1, <2>6, <2>7
<1>6. CASE r # p
  <2>1. wire'[r] = wire[r] /\ fileSendInProgress'[r] = fileSendInProgress[r]
    BY <1>1, <1>6 DEF RecvAccept
  <2>2. Held(r)' = Held(r)
    BY <1>1, <2>1 DEF Held, Holds
  <2>. QED  BY <1>1, <1>3, <2>1, <2>2
<1>. QED  BY <1>5, <1>6

LEMMA RecvGain ==
  ASSUME TypeOK, CreditCovers, NEW p \in Peer, RecvStep(p)
  PROVE  CreditCovers'
<1>1. CASE RecvAccept(p)
  BY <1>1, RecvAcceptGain
<1>2. CASE BeginThrows(p)
  BY <1>2, LocalGain
     DEF BeginThrows, Die, Close, Busy, Ended, Sending, negotiationVars
<1>3. CASE ~RecvAccept(p) /\ ~BeginThrows(p)
  <2>1. UNCHANGED <<mainPc, fileSendInProgress, credit>>
    BY <1>3 DEF RecvStep, RecvLoop, RecvText, RecvRequest, RecvReject,
                IgnoreFrame, RecvBegin, CreateTarget, RecvChunk, RecvEnd,
                RecvEof, RecvError, negotiationVars
  <2>2. wire' = wire \/ Takes(p) \/ wire' = [wire EXCEPT ![p] = <<>>]
    BY <1>3 DEF RecvStep, RecvLoop, RecvText, RecvRequest, RecvReject,
                IgnoreFrame, RecvBegin, CreateTarget, RecvChunk, RecvEnd,
                RecvEof, RecvError, transportVars, Close
  <2>. QED  BY <2>1, <2>2, StreamsKept, FlagsUntouched, NothingGained
<1>. QED  BY <1>1, <1>2, <1>3

-----------------------------------------------------------------------------
LEMMA InitCovers == Init => CreditCovers
BY AcceptancesEmpty DEF Init, TransportInit, CreditCovers, Held, Holds

LEMMA NextCovers == TypeOK /\ CreditCovers /\ [Next]_vars => CreditCovers'
<1>. SUFFICES ASSUME TypeOK, CreditCovers, [Next]_vars PROVE CreditCovers'
  OBVIOUS
<1>1. CASE UNCHANGED vars
  <2>1. UNCHANGED <<wire, mainPc, fileSendInProgress, credit>>
    BY <1>1 DEF vars, transportVars, negotiationVars
  <2>2. Server \in Peer
    BY DEF Peer
  <2>3. StreamsShrink /\ NoFlagGained
    BY <2>1, <2>2, StreamsKept, FlagsUntouched
  <2>. QED  BY <2>1, <2>3, NothingGained
<1>. QED  BY <1>1, UserGain, MainGain, RecvGain DEF Next

\* However offers, answers, failures and deaths are interleaved, SendFile
\* begins at most one file for every acceptance sent to its peer.
THEOREM NoFileWithoutAcceptHolds == Spec => []NoFileWithoutAccept
<1>1. TypeOK /\ CreditCovers => NoFileWithoutAccept
  <2>. SUFFICES ASSUME TypeOK, CreditCovers, NEW p \in Peer
       PROVE  credit[p] >= 0
    BY DEF NoFileWithoutAccept
  <2>1. credit[p] \in Int /\ Acceptances(wire[p]) \in Nat
    BY AcceptancesType DEF TypeOK, TransportTypeOK, WireOK
  <2>2. Held(p) \in {0, 1} /\ credit[p] >= Acceptances(wire[p]) + Held(p)
    BY DEF Held, CreditCovers
  <2>. QED  BY <2>1, <2>2
<1>. QED  BY <1>1, TypeCorrect, InitCovers, NextCovers, PTL DEF Spec
=============================================================================
