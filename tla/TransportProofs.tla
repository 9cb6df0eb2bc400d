-------------------------- MODULE TransportProofs ---------------------------
(***************************************************************************)
(* What the outcomes of SendPacket, RecievePacket and close do to the two  *)
(* streams: which packets a step can add, and that it adds no others.      *)
(***************************************************************************)
EXTENDS Transport, SequenceTheorems, TLAPS

LEMMA TwoPeers ==
  ASSUME NEW p \in Peer
  PROVE  /\ Other(p) \in Peer /\ Other(p) # p /\ Other(Other(p)) = p
         /\ \A r \in Peer : r # p => r = Other(p)
BY DEF Peer, Server, Client, Other

\* The members of a sequence after Append and after Tail.
LEMMA MembersAppend ==
  ASSUME NEW S, NEW s \in Seq(S), NEW e \in S
  PROVE  {Append(s, e)[i] : i \in 1 .. Len(Append(s, e))}
           = {s[i] : i \in 1 .. Len(s)} \cup {e}
BY AppendProperties

LEMMA MembersTail ==
  ASSUME NEW S, NEW s \in Seq(S), s # <<>>
  PROVE  {Tail(s)[i] : i \in 1 .. Len(Tail(s))}
           \subseteq {s[i] : i \in 1 .. Len(s)}
BY HeadTailProperties

LEMMA HeadIsMember ==
  ASSUME NEW S, NEW s \in Seq(S), s # <<>>
  PROVE  Head(s) \in {s[i] : i \in 1 .. Len(s)} /\ Head(s) \in S
OBVIOUS

\* SendPacket appends its packet to the stream towards the peer, or nothing.
LEMMA DeliveredEffect ==
  ASSUME WireOK, NEW p \in Peer, NEW pkt \in Packet, Delivered(p, pkt)
  PROVE  /\ WireOK'
         /\ PacketsTo(p)' = PacketsTo(p)
         /\ PacketsTo(Other(p))' = PacketsTo(Other(p)) \cup {pkt}
<1>. DEFINE q == Other(p)
<1>1. q \in Peer /\ q # p /\ \A r \in Peer : r # p => r = q
  BY TwoPeers
<1>2. wire[q] \in Seq(Packet) /\ Len(wire[q]) < Cap
  BY <1>1 DEF WireOK, Delivered
<1>3. wire' = [wire EXCEPT ![q] = Append(wire[q], pkt)]
  BY DEF Delivered
<1>4. wire'[p] = wire[p] /\ wire'[q] = Append(wire[q], pkt)
  BY <1>1, <1>3 DEF WireOK
<1>5. Append(wire[q], pkt) \in Seq(Packet)
      /\ Len(Append(wire[q], pkt)) <= Cap
  BY <1>2, AppendProperties, CapAssumption
<1>6. WireOK'
  BY <1>1, <1>3, <1>4, <1>5 DEF WireOK
<1>7. PacketsTo(q)' = PacketsTo(q) \cup {pkt}
  BY <1>2, <1>4, MembersAppend DEF PacketsTo
<1>. QED  BY <1>4, <1>6, <1>7 DEF PacketsTo

\* RecievePacket takes the head of a stream and adds nothing.
LEMMA TakesEffect ==
  ASSUME WireOK, NEW p \in Peer, Takes(p)
  PROVE  /\ WireOK'
         /\ PacketsTo(p)' \subseteq PacketsTo(p)
         /\ PacketsTo(Other(p))' = PacketsTo(Other(p))
         /\ Head(wire[p]) \in PacketsTo(p) /\ Head(wire[p]) \in Packet
<1>1. wire[p] \in Seq(Packet) /\ Len(wire[p]) <= Cap /\ wire[p] # <<>>
  BY DEF WireOK, Takes
<1>2. wire' = [wire EXCEPT ![p] = Tail(wire[p])]
  BY DEF Takes
<1>3. wire'[p] = Tail(wire[p]) /\ wire'[Other(p)] = wire[Other(p)]
  BY <1>2, TwoPeers DEF WireOK
<1>4. Tail(wire[p]) \in Seq(Packet) /\ Len(Tail(wire[p])) <= Cap
  BY <1>1, HeadTailProperties, CapAssumption
<1>5. WireOK'
  BY <1>2, <1>4 DEF WireOK
<1>6. PacketsTo(p)' \subseteq PacketsTo(p)
  BY <1>1, <1>3, MembersTail DEF PacketsTo
<1>7. Head(wire[p]) \in PacketsTo(p) /\ Head(wire[p]) \in Packet
  BY <1>1, HeadIsMember DEF PacketsTo
<1>. QED  BY <1>3, <1>5, <1>6, <1>7 DEF PacketsTo

\* close discards the stream towards the process that closes.
LEMMA EmptiedEffect ==
  ASSUME WireOK, NEW p \in Peer, wire' = [wire EXCEPT ![p] = <<>>]
  PROVE  /\ WireOK'
         /\ PacketsTo(p)' = {}
         /\ PacketsTo(Other(p))' = PacketsTo(Other(p))
<1>1. wire'[p] = <<>> /\ wire'[Other(p)] = wire[Other(p)]
  BY TwoPeers DEF WireOK
<1>2. WireOK'
  BY CapAssumption DEF WireOK
<1>3. PacketsTo(p)' = {}
  BY <1>1 DEF PacketsTo
<1>. QED  BY <1>1, <1>2, <1>3 DEF PacketsTo
=============================================================================
