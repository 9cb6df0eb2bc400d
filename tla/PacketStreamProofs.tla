------------------------- MODULE PacketStreamProofs -------------------------
(***************************************************************************)
(* The bytes of the connection carry the packets: decoding undoes encoding *)
(* (Codec), however send and recv cut the stream (PacketStream), and what  *)
(* the session sees of it is a queue of whole packets (Connection).        *)
(***************************************************************************)
EXTENDS PacketStream, SequenceTheorems, TLAPS

-----------------------------------------------------------------------------
(***************************************************************************)
(* Numbers and their bytes.                                                *)
(***************************************************************************)
LEMMA Division ==
  ASSUME NEW n \in Nat
  PROVE  /\ n \div Base \in Nat /\ n % Base \in Byte
         /\ n = (n \div Base) * Base + (n % Base)
BY BaseAssumption, Z3 DEF Byte

LEMMA QuotientBound ==
  ASSUME NEW n \in Nat, NEW c \in Nat, n < c * Base
  PROVE  n \div Base < c
<1>. DEFINE q == n \div Base
<1>1. q \in Nat /\ n >= q * Base
  BY Division, BaseAssumption DEF Byte
<1>2. SUFFICES ASSUME q >= c PROVE FALSE
  BY <1>1
<1>3. q * Base >= c * Base
  BY <1>1, <1>2, BaseAssumption
<1>. QED  BY <1>1, <1>3, BaseAssumption

\* ntohl undoes htonl.
LEMMA DigitsOfWord ==
  ASSUME NEW n \in Word
  PROVE  /\ Digits4(n) \in Seq(Byte) /\ Len(Digits4(n)) = 4
         /\ Big4(Digits4(n)) = n
<1>. DEFINE n1 == n \div Base
            n2 == n1 \div Base
            n3 == n2 \div Base
            B2 == Base * Base
            B3 == B2 * Base
<1>1. n \in Nat /\ B2 \in Nat /\ B3 \in Nat /\ n < B3 * Base
  BY BaseAssumption DEF Word
<1>2. n1 \in Nat /\ n % Base \in Byte /\ n = n1 * Base + (n % Base) /\ n1 < B3
  BY <1>1, Division, QuotientBound
<1>3. n2 \in Nat /\ n1 % Base \in Byte /\ n1 = n2 * Base + (n1 % Base) /\ n2 < B2
  BY <1>1, <1>2, Division, QuotientBound
<1>4. n3 \in Nat /\ n2 % Base \in Byte /\ n2 = n3 * Base + (n2 % Base) /\ n3 < Base
  BY <1>1, <1>3, Division, QuotientBound, BaseAssumption
<1>5. n3 \in Byte
  BY <1>4, BaseAssumption DEF Byte
<1>6. Digits4(n) = <<n3, n2 % Base, n1 % Base, n % Base>>
  BY DEF Digits4
<1>7. Big4(Digits4(n)) = n
  BY <1>2, <1>3, <1>4, <1>6 DEF Big4
<1>. HIDE DEF n1, n2, n3
<1>8. <<n3, n2 % Base, n1 % Base, n % Base>> \in Seq(Byte)
  BY <1>2, <1>3, <1>4, <1>5
<1>. QED  BY <1>6, <1>7, <1>8

\* The bytes of a concatenation and of a piece of a sequence.
LEMMA Joined ==
  ASSUME NEW s \in Seq(Byte), NEW t \in Seq(Byte)
  PROVE  /\ s \o t \in Seq(Byte) /\ Len(s \o t) = Len(s) + Len(t)
         /\ \A i \in 1 .. Len(s) : (s \o t)[i] = s[i]
         /\ \A i \in 1 .. Len(t) : (s \o t)[Len(s) + i] = t[i]
BY ConcatProperties

LEMMA Piece ==
  ASSUME NEW s \in Seq(Byte), NEW a \in Nat, NEW n \in Nat, a + n <= Len(s)
  PROVE  /\ SubSeq(s, a + 1, a + n) \in Seq(Byte)
         /\ Len(SubSeq(s, a + 1, a + n)) = n
         /\ \A i \in 1 .. n : SubSeq(s, a + 1, a + n)[i] = s[a + i]
<1>. DEFINE p == SubSeq(s, a + 1, a + n)
<1>1. \A i \in a + 1 .. a + n : s[i] \in Byte
  OBVIOUS
<1>2. /\ p \in Seq(Byte)
      /\ Len(p) = IF a + 1 <= a + n THEN a + n - (a + 1) + 1 ELSE 0
      /\ \A i \in 1 .. a + n - (a + 1) + 1 : p[i] = s[a + 1 + i - 1]
  BY <1>1, SubSeqProperties
<1>3. a + n - (a + 1) + 1 = n /\ \A i \in 1 .. n : a + 1 + i - 1 = a + i
  OBVIOUS
<1>. HIDE DEF p
<1>. QED  BY <1>2, <1>3 DEF p

\* The two parts of a concatenation.
LEMMA Parts ==
  ASSUME NEW s \in Seq(Byte), NEW t \in Seq(Byte)
  PROVE  /\ s \o t \in Seq(Byte) /\ Len(s \o t) = Len(s) + Len(t)
         /\ SubSeq(s \o t, 1, Len(s)) = s
         /\ SubSeq(s \o t, Len(s) + 1, Len(s) + Len(t)) = t
<1>1. s \o t \in Seq(Byte) /\ Len(s \o t) = Len(s) + Len(t)
  BY ConcatProperties
<1>2. \A i \in 1 .. Len(s) : (s \o t)[i] = s[i]
  BY ConcatProperties
<1>3. \A i \in 1 .. Len(t) : (s \o t)[Len(s) + i] = t[i]
  BY ConcatProperties
<1>4. SubSeq(s \o t, 1, Len(s)) = s
  <2>. DEFINE u == SubSeq(s \o t, 1, Len(s))
  <2>1. u \in Seq(Byte) /\ Len(u) = Len(s) /\ \A i \in 1 .. Len(s) : u[i] = s[i]
    BY <1>1, <1>2
  <2>. QED  BY <2>1, SeqEqual
<1>5. SubSeq(s \o t, Len(s) + 1, Len(s) + Len(t)) = t
  <2>. DEFINE u == SubSeq(s \o t, Len(s) + 1, Len(s) + Len(t))
  <2>1. u \in Seq(Byte) /\ Len(u) = Len(t) /\ \A i \in 1 .. Len(t) : u[i] = t[i]
    BY <1>1, <1>3
  <2>. QED  BY <2>1, SeqEqual
<1>. QED  BY <1>1, <1>4, <1>5

LEMMA FlipType ==
  ASSUME NEW S, NEW s \in Seq(S)
  PROVE  /\ Flip(s) \in Seq(S) /\ Len(Flip(s)) = Len(s)
         /\ \A i \in 1 .. Len(s) : Flip(s)[i] = s[Len(s) + 1 - i]
BY DEF Flip

LEMMA FlipTwice ==
  ASSUME NEW S, NEW s \in Seq(S)
  PROVE  Flip(Flip(s)) = s
<1>1. Flip(s) \in Seq(S) /\ Len(Flip(s)) = Len(s)
  BY FlipType
<1>2. Flip(Flip(s)) \in Seq(S) /\ Len(Flip(Flip(s))) = Len(s)
  BY <1>1, FlipType
<1>3. \A i \in 1 .. Len(s) : Flip(Flip(s))[i] = s[i]
  <2>. TAKE i \in 1 .. Len(s)
  <2>1. Flip(Flip(s))[i] = Flip(s)[Len(s) + 1 - i]
    BY <1>1, FlipType
  <2>. QED  BY <2>1, FlipType
<1>. QED  BY <1>2, <1>3, SeqEqual

\* A host reads the number that it, or a host like it, has written.
LEMMA MemoryOfWord ==
  ASSUME NEW order, NEW n \in Word
  PROVE  /\ Memory4(order, n) \in Seq(Byte) /\ Len(Memory4(order, n)) = 4
         /\ Value4(order, Memory4(order, n)) = n
<1>1. CASE order = "big"
  BY <1>1, DigitsOfWord DEF Memory4, Value4
<1>2. CASE order # "big"
  BY <1>2, DigitsOfWord, FlipType, FlipTwice DEF Memory4, Value4
<1>. QED  BY <1>1, <1>2

LEMMA DigitsOfLong ==
  ASSUME NEW n \in LongWord
  PROVE  /\ Digits8(n) \in Seq(Byte) /\ Len(Digits8(n)) = 8
         /\ Big8(Digits8(n)) = n
<1>. DEFINE hi == Digits4(n[1])
            lo == Digits4(n[2])
<1>1. n[1] \in Word /\ n[2] \in Word /\ n = <<n[1], n[2]>>
  BY DEF LongWord
<1>2. /\ hi \in Seq(Byte) /\ Len(hi) = 4 /\ Big4(hi) = n[1]
      /\ lo \in Seq(Byte) /\ Len(lo) = 4 /\ Big4(lo) = n[2]
  BY <1>1, DigitsOfWord
<1>. HIDE DEF hi, lo
<1>3. /\ hi \o lo \in Seq(Byte) /\ Len(hi \o lo) = Len(hi) + Len(lo)
      /\ SubSeq(hi \o lo, 1, Len(hi)) = hi
      /\ SubSeq(hi \o lo, Len(hi) + 1, Len(hi) + Len(lo)) = lo
  BY <1>2, Parts
<1>4. /\ hi \o lo \in Seq(Byte) /\ Len(hi \o lo) = 8
      /\ SubSeq(hi \o lo, 1, 4) = hi /\ SubSeq(hi \o lo, 5, 8) = lo
  BY <1>2, <1>3
<1>. QED  BY <1>1, <1>2, <1>4 DEF Digits8, Big8, hi, lo

LEMMA MemoryOfLong ==
  ASSUME NEW order, NEW n \in LongWord
  PROVE  /\ Memory8(order, n) \in Seq(Byte) /\ Len(Memory8(order, n)) = 8
         /\ Value8(order, Memory8(order, n)) = n
<1>1. CASE order = "big"
  BY <1>1, DigitsOfLong DEF Memory8, Value8
<1>2. CASE order # "big"
  BY <1>2, DigitsOfLong, FlipType, FlipTwice DEF Memory8, Value8
<1>. QED  BY <1>1, <1>2

-----------------------------------------------------------------------------
(***************************************************************************)
(* Metadata and packets.                                                   *)
(***************************************************************************)
\* The peer that reads metadata on a host like the writer's gets what was
\* written (SerializeFileMetadataPacket, DeserializeFileMetadataPacket).
LEMMA MetadataReadBack ==
  ASSUME NEW order, NEW meta \in Metadata, Len(meta.FileName) \in Word
  PROVE  DeserializeFileMetadataPacket(order,
           SerializeFileMetadataPacket(order, meta)) = meta
<1>. DEFINE size == Memory8(order, meta.FileSize)
            len == Memory4(order, Len(meta.FileName))
            name == meta.FileName
            s == (size \o len) \o name
<1>1. /\ meta.FileSize \in LongWord /\ name \in Seq(Byte)
      /\ meta = [FileSize |-> meta.FileSize, FileName |-> name]
  BY DEF Metadata
<1>2. /\ size \in Seq(Byte) /\ Len(size) = 8
      /\ Value8(order, size) = meta.FileSize
      /\ len \in Seq(Byte) /\ Len(len) = 4
      /\ Value4(order, len) = Len(name)
  BY <1>1, MemoryOfLong, MemoryOfWord
<1>3. SerializeFileMetadataPacket(order, meta) = s
  BY DEF SerializeFileMetadataPacket
<1>. HIDE DEF size, len, name
<1>4. /\ size \o len \in Seq(Byte)
      /\ Len(size \o len) = Len(size) + Len(len)
      /\ SubSeq(size \o len, 1, Len(size)) = size
      /\ SubSeq(size \o len, Len(size) + 1, Len(size) + Len(len)) = len
  BY <1>2, Parts
<1>5. Len(size) + 1 = 9 /\ Len(size) + Len(len) = 12
  BY <1>2
<1>6. /\ size \o len \in Seq(Byte) /\ Len(size \o len) = 12
      /\ SubSeq(size \o len, 1, 8) = size
      /\ SubSeq(size \o len, 9, 12) = len
  BY <1>2, <1>4, <1>5
<1>7. /\ SubSeq(s, 1, 8) = SubSeq(size \o len, 1, 8)
      /\ SubSeq(s, 9, 12) = SubSeq(size \o len, 9, 12)
  BY <1>1, <1>6, SubSeqOfConcat1
<1>8. SubSeq(s, Len(size \o len) + 1, Len(size \o len) + Len(name)) = name
  BY <1>1, <1>6, Parts
<1>9. SubSeq(s, 13, 12 + Len(name)) = name
  <2>1. Len(size \o len) + 1 = 13 /\ Len(size \o len) + Len(name) = 12 + Len(name)
    BY <1>6
  <2>. HIDE DEF s
  <2>. QED  BY <1>8, <2>1, Zenon
<1>. QED
  BY <1>1, <1>2, <1>3, <1>6, <1>7, <1>9 DEF DeserializeFileMetadataPacket

\* What RunRecvThread makes of the bytes of a packet, in two reads, is the
\* packet (SerializePacket, DeserializeHeaderPacket, DeserializeBodyPacket,
\* CombinePacket).
HeaderOf(data) == [type |-> data.type, len |-> Len(data.body)]

LEMMA PacketReadBack ==
  ASSUME NEW data \in RawPacket, Len(data.body) \in Word
  PROVE  LET s == SerializePacket(data)
         IN  /\ s \in Seq(Byte) /\ Len(s) = Len(data.body) + 6
             /\ DeserializeHeaderPacket(SubSeq(s, 1, HeaderLen)) = HeaderOf(data)
             /\ CombinePacket(HeaderOf(data),
                  DeserializeBodyPacket(SubSeq(s, HeaderLen + 1, Len(s)),
                                        HeaderOf(data))) = data
<1>. DEFINE type == <<data.type>>
            len == Memory4("big", Len(data.body))
            body == data.body
            ctl == <<data.ctl>>
            s == ((type \o len) \o body) \o ctl
<1>1. /\ type \in Seq(Byte) /\ Len(type) = 1 /\ type[1] = data.type
      /\ body \in Seq(Byte) /\ Len(body) \in Nat
      /\ ctl \in Seq(Byte) /\ Len(ctl) = 1 /\ ctl[1] = data.ctl
      /\ data = [type |-> data.type, body |-> body, ctl |-> data.ctl]
  BY DEF RawPacket
<1>2. /\ len \in Seq(Byte) /\ Len(len) = 4
      /\ Value4("big", len) = Len(body)
  BY MemoryOfWord
<1>3. SerializePacket(data) = s
  BY DEF SerializePacket
<1>4. HeaderOf(data) = [type |-> data.type, len |-> Len(body)]
  BY DEF HeaderOf
<1>. HIDE DEF type, len, body, ctl
<1>5. /\ type \o len \in Seq(Byte) /\ Len(type \o len) = 5
      /\ (type \o len)[1] = data.type
      /\ \A i \in 1 .. 4 : (type \o len)[1 + i] = len[i]
  <2>1. /\ type \o len \in Seq(Byte) /\ Len(type \o len) = Len(type) + Len(len)
        /\ \A i \in 1 .. Len(type) : (type \o len)[i] = type[i]
        /\ \A i \in 1 .. Len(len) : (type \o len)[Len(type) + i] = len[i]
    BY <1>1, <1>2, Joined
  <2>. QED  BY <1>1, <1>2, <2>1
<1>6. /\ (type \o len) \o body \in Seq(Byte)
      /\ Len((type \o len) \o body) = 5 + Len(body)
      /\ \A i \in 1 .. 5 : ((type \o len) \o body)[i] = (type \o len)[i]
      /\ \A i \in 1 .. Len(body) : ((type \o len) \o body)[5 + i] = body[i]
  BY <1>1, <1>5, ConcatProperties
<1>7. /\ s \in Seq(Byte) /\ Len(s) = 6 + Len(body)
      /\ \A i \in 1 .. 5 : s[i] = (type \o len)[i]
      /\ \A i \in 1 .. Len(body) : s[5 + i] = body[i]
      /\ s[6 + Len(body)] = data.ctl
  <2>. DEFINE r == (type \o len) \o body
  <2>1. /\ r \o ctl \in Seq(Byte) /\ Len(r \o ctl) = Len(r) + Len(ctl)
        /\ \A i \in 1 .. Len(r) : (r \o ctl)[i] = r[i]
        /\ \A i \in 1 .. Len(ctl) : (r \o ctl)[Len(r) + i] = ctl[i]
    BY <1>1, <1>6, Joined
  <2>. QED  BY <1>1, <1>6, <2>1
<1>. HIDE DEF s
<1>8. DeserializeHeaderPacket(SubSeq(s, 1, HeaderLen)) = HeaderOf(data)
  <2>. DEFINE h == SubSeq(s, 1, HeaderLen)
              l == SubSeq(h, 2, HeaderLen)
  <2>1. /\ h \in Seq(Byte) /\ Len(h) = 5 /\ h[1] = data.type
        /\ \A i \in 1 .. 4 : h[1 + i] = len[i]
    BY <1>5, <1>7 DEF HeaderLen
  <2>2. /\ l \in Seq(Byte) /\ Len(l) = 4 /\ \A i \in 1 .. 4 : l[i] = h[1 + i]
    BY <2>1 DEF HeaderLen
  <2>3. l = len
    BY <1>2, <2>1, <2>2, SeqEqual
  <2>. QED  BY <1>2, <1>4, <2>1, <2>3 DEF DeserializeHeaderPacket
<1>9. CombinePacket(HeaderOf(data),
        DeserializeBodyPacket(SubSeq(s, HeaderLen + 1, Len(s)), HeaderOf(data)))
      = data
  <2>. DEFINE r == SubSeq(s, HeaderLen + 1, Len(s))
              b == SubSeq(r, 1, Len(body))
  <2>1. /\ r \in Seq(Byte) /\ Len(r) = Len(body) + 1
        /\ \A i \in 1 .. Len(body) : r[i] = body[i]
        /\ r[Len(body) + 1] = data.ctl
    <3>. DEFINE n == Len(body) + 1
    <3>1. HeaderLen + n <= Len(s) /\ HeaderLen = 5 /\ HeaderLen \in Nat /\ n \in Nat
      BY <1>1, <1>7 DEF HeaderLen
    <3>2. r = SubSeq(s, HeaderLen + 1, HeaderLen + n)
      BY <1>1, <1>7 DEF HeaderLen
    <3>. HIDE DEF r, n
    <3>3. /\ SubSeq(s, HeaderLen + 1, HeaderLen + n) \in Seq(Byte)
          /\ Len(SubSeq(s, HeaderLen + 1, HeaderLen + n)) = n
          /\ \A i \in 1 .. n :
               SubSeq(s, HeaderLen + 1, HeaderLen + n)[i] = s[HeaderLen + i]
      BY <1>7, <3>1, Piece
    <3>4. /\ r \in Seq(Byte) /\ Len(r) = n
          /\ \A i \in 1 .. n : r[i] = s[5 + i]
      BY <3>1, <3>2, <3>3
    <3>5. 1 .. Len(body) \subseteq 1 .. n /\ n \in 1 .. n /\ n = Len(body) + 1
      BY <1>1 DEF n
    <3>6. 5 + n = 6 + Len(body)
      BY <1>1, <3>5
    <3>. QED  BY <1>7, <3>4, <3>5, <3>6
  <2>2. b \in Seq(Byte) /\ Len(b) = Len(body)
        /\ \A i \in 1 .. Len(body) : b[i] = r[i]
    <3>. HIDE DEF r
    <3>. QED  BY <1>1, <2>1
  <2>3. b = body
    BY <1>1, <2>1, <2>2, SeqEqual
  <2>. QED
    BY <1>1, <1>4, <2>1, <2>3 DEF DeserializeBodyPacket, CombinePacket
<1>. QED  BY <1>3, <1>7, <1>8, <1>9 DEF body
-----------------------------------------------------------------------------
(***************************************************************************)
(* The inductive invariant.  Since the end of a packet is nowhere marked,  *)
(* it says where the packets lie in the bytes that send has taken so far:  *)
(* P is the packets begun, T those bytes, off[i] where the i-th packet     *)
(* ends.  The receive thread stands at off[Len(received)].                 *)
(***************************************************************************)
Bytes(pkt) == SerializePacket(Raw(pkt))

LEMMA RawTyped ==
  ASSUME NEW pkt \in Offered
  PROVE  /\ Raw(pkt) \in RawPacket /\ Len(Raw(pkt).body) \in Word
         /\ Len(Raw(pkt).body) <= IntMax
<1>1. pkt \in Packet /\ pkt.type \in PacketType /\ pkt.ctl \in PacketType
  BY StreamAssumption DEF Packet
<1>2. ASSUME NEW e \in PacketType PROVE Value(e) \in Byte
  <2>1. \E i \in 1 .. Len(Enumerators) : Enumerators[i] = e
    BY DEF Enumerators, PacketType
  <2>2. Len(Enumerators) \in Nat
    BY DEF Enumerators
  <2>. DEFINE i == CHOOSE i \in 1 .. Len(Enumerators) : Enumerators[i] = e
  <2>3. i \in 1 .. Len(Enumerators) /\ Value(e) = i - 1
    BY <2>1 DEF Value
  <2>. HIDE DEF i
  <2>. QED  BY <2>2, <2>3, BodyAssumption, BaseAssumption DEF Byte
<1>. QED  BY <1>1, <1>2, BodyAssumption DEF Raw, RawPacket

LEMMA BytesTyped ==
  ASSUME NEW pkt \in Offered
  PROVE  /\ Bytes(pkt) \in Seq(Byte)
         /\ Len(Bytes(pkt)) = Len(Raw(pkt).body) + 6
         /\ Len(Raw(pkt).body) \in Nat
BY RawTyped, PacketReadBack DEF Bytes, RawPacket

Offsets(P) == [0 .. Len(P) -> Nat]

Sendable == ends[From] \in {"open", "rdShut"} /\ ends[To] # "closed"

\* Where the packets lie.
Layout(P, T, off) ==
  /\ off[0] = 0
  /\ \A i \in Nat : i < Len(P) =>
       /\ off[i + 1] = off[i] + Len(Bytes(P[i + 1]))
       /\ \A j \in 1 .. Len(Bytes(P[i + 1])) :
            off[i] + j <= Len(T) => T[off[i] + j] = Bytes(P[i + 1])[j]
  /\ \A i, j \in 0 .. Len(P) : i <= j => off[i] + j <= off[j] + i

\* All packets but the last one are sent, and SendPacket is at the end of T.
SentSide(P, T, off) ==
  /\ Len(P) = Len(sent) \/ Len(P) = Len(sent) + 1
  /\ \A i \in 1 .. Len(sent) : sent[i] = P[i]
  /\ off[Len(sent)] <= Len(T)
  /\ Len(P) = Len(sent) => Len(T) = off[Len(sent)]
  /\ Len(P) = Len(sent) + 1 => Len(T) < off[Len(sent) + 1]
  /\ Sendable /\ current = <<>> => Len(P) = Len(sent)
  /\ Sendable /\ current # <<>> =>
       /\ Len(P) = Len(sent) + 1 /\ current[1] = P[Len(sent) + 1]
       /\ off[Len(sent)] + SentBytes = Len(T)

\* Where what is read next begins, and what has not been read of T.
Start(off) ==
  off[Len(received)] + (IF phase = "body" THEN HeaderLen ELSE 0)

ReadSide(P, T, off) ==
  /\ Len(received) <= Len(sent)
  /\ Len(T) = Start(off) + Len(buffer) + Len(stream)
  /\ \A j \in 1 .. Len(buffer) : buffer[j] = T[Start(off) + j]
  /\ \A j \in 1 .. Len(stream) : stream[j] = T[Start(off) + Len(buffer) + j]
  /\ Len(buffer) < Wanted
  /\ phase = "body" =>
       /\ Len(received) < Len(P)
       /\ header = HeaderOf(Raw(P[Len(received) + 1]))

Ghosts(P, T, off) == Layout(P, T, off) /\ SentSide(P, T, off) /\ ReadSide(P, T, off)

Reading ==
  \E P \in Seq(Offered), T \in Seq(Byte) :
    \E off \in Offsets(P) : Ghosts(P, T, off)

\* When the receive thread has ended nothing more can be sent.
Over == stream = <<>> /\ ~Sendable

Inv ==
  /\ TypeOK
  /\ ReceivedIsSent
  /\ ends[To] = "closed" => phase = "ended"
  /\ IF phase = "ended" THEN Over ELSE Reading

-----------------------------------------------------------------------------
LEMMA Peers ==
  /\ From \in Peer /\ To \in Peer /\ From # To
  /\ Peer = {From, To} /\ Other(From) = To /\ Other(To) = From
BY StreamAssumption DEF To, Other, Peer, Server, Client

LEMMA InitInv == Init => Inv
<1>. SUFFICES ASSUME Init PROVE Inv
  OBVIOUS
<1>1. TypeOK
  <2>1. header \in [type : Byte, len : Word]
    BY BaseAssumption DEF Init, Byte, Word
  <2>. QED  BY <2>1, StreamAssumption DEF Init, TypeOK
<1>2. ReceivedIsSent
  BY DEF Init, ReceivedIsSent
<1>3. phase # "ended" /\ ends[To] # "closed" /\ Sendable
  BY Peers DEF Init, Sendable
<1>4. Reading
  <2>. DEFINE off == [i \in 0 .. 0 |-> 0]
  <2>1. <<>> \in Seq(Offered) /\ <<>> \in Seq(Byte) /\ Len(<<>>) = 0
    OBVIOUS
  <2>2. off \in [0 .. Len(<<>>) -> Nat] /\ off[0] = 0
    OBVIOUS
  <2>. HIDE DEF off
  <2>3. Layout(<<>>, <<>>, off)
    BY <2>1, <2>2 DEF Layout
  <2>4. SentSide(<<>>, <<>>, off)
    BY <2>1, <2>2 DEF SentSide, Init
  <2>5. ReadSide(<<>>, <<>>, off)
    BY <2>1, <2>2 DEF ReadSide, Start, Wanted, HeaderLen, Init
  <2>. QED  BY <2>1, <2>2, <2>3, <2>4, <2>5 DEF Reading, Ghosts, Offsets
<1>. QED  BY <1>1, <1>2, <1>3, <1>4 DEF Inv

\* A packet is begun: T stays as it is.
LEMMA StartKeeps ==
  ASSUME NEW P \in Seq(Offered), NEW T \in Seq(Byte), NEW off \in Offsets(P),
         Ghosts(P, T, off), TypeOK,
         NEW pkt \in Offered, StartPacket(pkt), Sendable
  PROVE  Reading'
<1>. DEFINE k == Len(P)
            l == Len(Bytes(pkt))
            P2 == Append(P, pkt)
            off2 == [i \in 0 .. k + 1 |-> IF i <= k THEN off[i] ELSE off[k] + l]
<1>1. /\ P2 \in Seq(Offered) /\ Len(P2) = k + 1 /\ k \in Nat
      /\ P2[k + 1] = pkt /\ \A i \in 1 .. k : P2[i] = P[i]
  BY AppendProperties
<1>2. l \in Nat /\ l > 5
  BY BytesTyped
<1>3. \A i \in 0 .. k : off[i] \in Nat
  BY DEF Offsets
<1>. HIDE DEF l
<1>4. /\ off2 \in Offsets(P2)
      /\ \A i \in 0 .. k : off2[i] = off[i]
      /\ off2[k + 1] = off[k] + l
  <2>1. \A i \in 0 .. k + 1 : (IF i <= k THEN off[i] ELSE off[k] + l) \in Nat
    BY <1>1, <1>2, <1>3
  <2>2. off2 \in [0 .. k + 1 -> Nat]
    BY <2>1
  <2>3. k + 1 \in 0 .. k + 1 /\ ~(k + 1 <= k)
    BY <1>1
  <2>4. off2[k + 1] = off[k] + l
    BY <2>3
  <2>. QED  BY <1>1, <2>2, <2>4 DEF Offsets
<1>5. /\ k = Len(sent) /\ Len(T) = off[k] /\ Sendable'
      /\ current' = <<pkt>> /\ SentBytes' = 0
      /\ UNCHANGED <<sent, stream, phase, buffer, header, received>>
  BY DEF Ghosts, SentSide, StartPacket, Sendable, receiverVars
<1>6. Layout(P, T, off) /\ k \in 0 .. k /\ off[k] \in Nat
  BY <1>1, <1>3 DEF Ghosts
<1>7. /\ off[0] = 0
      /\ \A i \in Nat : i < k =>
           /\ off[i + 1] = off[i] + Len(Bytes(P[i + 1]))
           /\ \A j \in 1 .. Len(Bytes(P[i + 1])) :
                off[i] + j <= Len(T) => T[off[i] + j] = Bytes(P[i + 1])[j]
      /\ \A i, j \in 0 .. k : i <= j => off[i] + j <= off[j] + i
  BY <1>6 DEF Layout
<1>. HIDE DEF P2, off2, k
<1>8. Layout(P2, T, off2)
  <2>1. off2[0] = 0
    BY <1>1, <1>4, <1>7
  <2>2. ASSUME NEW i \in Nat, i < k + 1
        PROVE  off2[i + 1] = off2[i] + Len(Bytes(P2[i + 1]))
    <3>1. CASE i < k
      <4>1. i \in 0 .. k /\ i + 1 \in 0 .. k /\ i + 1 \in 1 .. k
        BY <1>1, <3>1
      <4>. QED  BY <1>1, <1>4, <1>7, <3>1, <4>1
    <3>2. CASE i = k
      BY <1>1, <1>4, <1>6, <3>2 DEF l
    <3>. QED  BY <1>1, <2>2, <3>1, <3>2
  <2>3. ASSUME NEW i \in 0 .. k + 1, NEW j \in 0 .. k + 1, i <= j
        PROVE  off2[i] + j <= off2[j] + i
    <3>1. CASE j \in 0 .. k
      <4>1. i \in 0 .. k
        BY <1>1, <2>3, <3>1
      <4>. QED  BY <1>4, <1>7, <2>3, <3>1, <4>1
    <3>2. CASE j = k + 1 /\ i \in 0 .. k
      <4>1. off[i] + k <= off[k] + i /\ off[i] \in Nat
        <5>1. i <= k
          BY <1>1, <3>2
        <5>. QED  BY <1>3, <1>6, <1>7, <3>2, <5>1
      <4>2. off2[i] = off[i] /\ off2[j] = off[k] + l
        BY <1>4, <3>2
      <4>. QED  BY <1>1, <1>2, <1>6, <3>2, <4>1, <4>2
    <3>3. CASE j = k + 1 /\ i = k + 1
      BY <1>1, <1>2, <1>4, <1>6, <3>3
    <3>. QED  BY <1>1, <2>3, <3>1, <3>2, <3>3
  <2>4. ASSUME NEW i \in Nat, i < k + 1, NEW j \in 1 .. Len(Bytes(P2[i + 1])),
               off2[i] + j <= Len(T)
        PROVE  T[off2[i] + j] = Bytes(P2[i + 1])[j]
    <3>1. i \in 0 .. k /\ j \in Int /\ j > 0
      BY <1>1, <2>4
    <3>2. off2[i] = off[i] /\ off[i] \in Nat
      BY <1>3, <1>4, <3>1
    <3>3. i < k
      <4>1. SUFFICES ASSUME i = k PROVE FALSE
        BY <1>1, <2>4
      <4>. QED  BY <1>5, <1>6, <2>4, <3>1, <3>2, <4>1
    <3>4. P2[i + 1] = P[i + 1]
      BY <1>1, <3>3
    <3>. QED  BY <1>7, <2>4, <3>2, <3>3, <3>4
  <2>. QED  BY <1>1, <2>1, <2>2, <2>3, <2>4 DEF Layout
<1>9. SentSide(P2, T, off2)'
  <2>1. off2[k] = off[k]
    BY <1>4, <1>6
  <2>2. \A i \in 1 .. Len(sent) : sent[i] = P2[i]
    BY <1>1, <1>5 DEF Ghosts, SentSide
  <2>. QED
    BY <1>1, <1>2, <1>4, <1>5, <1>6, <2>1, <2>2 DEF SentSide
<1>10. ReadSide(P2, T, off2)'
  <2>1. Len(received) \in 0 .. k
    BY <1>5 DEF Ghosts, ReadSide, TypeOK
  <2>2. Start(off2)' = Start(off) /\ Wanted' = Wanted
    BY <1>4, <1>5, <2>1 DEF Start, Wanted
  <2>3. phase = "body" => /\ Len(received) + 1 \in 1 .. k
                          /\ header = HeaderOf(Raw(P[Len(received) + 1]))
    BY <1>1, <2>1 DEF Ghosts, ReadSide, k
  <2>4. phase = "body" => P2[Len(received) + 1] = P[Len(received) + 1]
    BY <1>1, <2>3
  <2>. QED  BY <1>1, <1>5, <2>1, <2>2, <2>3, <2>4 DEF Ghosts, ReadSide
<1>. QED  BY <1>1, <1>4, <1>8, <1>9, <1>10 DEF Reading, Ghosts

\* send takes bytes: they lie behind T, in their place in the last packet.
LEMMA SendKeeps ==
  ASSUME NEW P \in Seq(Offered), NEW T \in Seq(Byte), NEW off \in Offsets(P),
         Ghosts(P, T, off), TypeOK,
         NEW n \in SomeBytes, SendSome(n)
  PROVE  Reading'
<1>. DEFINE k == Len(sent)
            m == Bytes(P[k + 1])
            piece == SubSeq(m, SentBytes + 1, SentBytes + n)
            lo == off[k]
            hi == off[k + 1]
<1>1. /\ n \in Nat /\ n > 0 /\ Sendable /\ current # <<>> /\ SentBytes \in Nat
  <2>1. n \in Nat /\ n > 0
    <3>1. BufBytes \in Nat
      BY StreamAssumption
    <3>. QED  BY <3>1 DEF SomeBytes
  <2>2. Sendable /\ current # <<>>
    BY Zenon DEF SendSome, Sendable
  <2>3. SentBytes \in Nat
    BY Zenon DEF TypeOK
  <2>. QED  BY <2>1, <2>2, <2>3
<1>2. /\ Len(P) = k + 1 /\ current[1] = P[k + 1] /\ lo + SentBytes = Len(T)
      /\ \A i \in 1 .. k : sent[i] = P[i]
  BY <1>1 DEF Ghosts, SentSide
<1>3. k \in Nat /\ P[k + 1] \in Offered /\ msgbuff = m /\ Len(T) \in Nat
  BY <1>2 DEF TypeOK, msgbuff, Bytes
<1>4. m \in Seq(Byte) /\ Len(m) \in Nat
  BY <1>3, BytesTyped
<1>5. \A i \in 0 .. k + 1 : off[i] \in Nat
  BY <1>2 DEF Offsets
<1>6. /\ n <= Len(m) - SentBytes /\ stream' = stream \o piece
      /\ SentBytes' = SentBytes + n /\ Sendable'
      /\ IF SentBytes + n < Len(m) THEN UNCHANGED <<current, sent>>
           ELSE current' = <<>> /\ sent' = Append(sent, P[k + 1])
      /\ UNCHANGED <<phase, buffer, header, received>>
  BY <1>2, <1>3 DEF SendSome, Advance, Sendable, receiverVars
<1>7. Layout(P, T, off)
  BY DEF Ghosts
<1>8. /\ off[0] = 0
      /\ \A i \in Nat : i < k + 1 =>
           /\ off[i + 1] = off[i] + Len(Bytes(P[i + 1]))
           /\ \A j \in 1 .. Len(Bytes(P[i + 1])) :
                off[i] + j <= Len(T) => T[off[i] + j] = Bytes(P[i + 1])[j]
      /\ \A i, j \in 0 .. k + 1 : i <= j => off[i] + j <= off[j] + i
  BY <1>2, <1>7 DEF Layout
<1>9. hi = lo + Len(m) /\ lo \in Nat /\ hi \in Nat
  BY <1>3, <1>5, <1>8
<1>. HIDE DEF m, k, lo, hi
<1>10. SentBytes + n <= Len(m)
  BY <1>1, <1>4, <1>6
<1>11. /\ piece \in Seq(Byte) /\ Len(piece) = n
       /\ \A i \in 1 .. n : piece[i] = m[SentBytes + i]
  BY <1>1, <1>4, <1>10, Piece
<1>. HIDE DEF piece
<1>12. PICK T2 \in Seq(Byte) :
         /\ Len(T2) = Len(T) + n
         /\ \A i \in 1 .. Len(T) : T2[i] = T[i]
         /\ \A i \in 1 .. n : T2[Len(T) + i] = piece[i]
  <2>. DEFINE t == T \o piece
  <2>1. /\ t \in Seq(Byte) /\ Len(t) = Len(T) + Len(piece)
        /\ \A i \in 1 .. Len(T) : t[i] = T[i]
        /\ \A i \in 1 .. Len(piece) : t[Len(T) + i] = piece[i]
    BY <1>11, Joined
  <2>. HIDE DEF t
  <2>. QED  BY <1>11, <2>1
<1>13. /\ stream' \in Seq(Byte) /\ Len(stream') = Len(stream) + n
       /\ \A i \in 1 .. Len(stream) : stream'[i] = stream[i]
       /\ \A i \in 1 .. n : stream'[Len(stream) + i] = piece[i]
  <2>1. stream \in Seq(Byte)
    BY DEF TypeOK
  <2>2. /\ stream' \in Seq(Byte) /\ Len(stream') = Len(stream) + Len(piece)
        /\ \A i \in 1 .. Len(stream) : stream'[i] = stream[i]
        /\ \A i \in 1 .. Len(piece) : stream'[Len(stream) + i] = piece[i]
    BY <1>6, <1>11, <2>1, Joined
  <2>. QED  BY <1>11, <2>2
<1>14. Layout(P, T2, off)
  <2>1. ASSUME NEW i \in Nat, i < k + 1, NEW j \in 1 .. Len(Bytes(P[i + 1])),
               off[i] + j <= Len(T2)
        PROVE  T2[off[i] + j] = Bytes(P[i + 1])[j]
    <3>1. off[i] \in Nat /\ j \in Int /\ j > 0
      BY <1>3, <1>5, <2>1
    <3>2. CASE off[i] + j <= Len(T)
      <4>1. off[i] + j \in 1 .. Len(T)
        BY <1>3, <3>1, <3>2
      <4>. QED  BY <1>8, <1>12, <2>1, <3>2, <4>1
    <3>3. CASE off[i] + j > Len(T)
      <4>1. i = k
        <5>1. SUFFICES ASSUME i < k PROVE FALSE
          BY <1>3, <2>1
        <5>2. off[i + 1] = off[i] + Len(Bytes(P[i + 1]))
          BY <1>8, <2>1
        <5>3. i + 1 \in 0 .. k + 1 /\ k \in 0 .. k + 1 /\ i + 1 <= k
          BY <1>3, <5>1
        <5>4. off[i + 1] + k <= lo + (i + 1) /\ off[i + 1] \in Nat
          BY <1>5, <1>8, <5>3 DEF lo
        <5>5. Len(Bytes(P[i + 1])) \in Nat /\ j <= Len(Bytes(P[i + 1]))
          BY <1>2, <1>3, <5>1, BytesTyped, <2>1
        <5>6. off[i] + j <= off[i + 1]
          BY <3>1, <5>2, <5>5
        <5>7. off[i + 1] <= lo
          BY <1>3, <1>9, <5>3, <5>4
        <5>8. lo <= Len(T)
          BY <1>1, <1>2, <1>3, <1>9
        <5>. QED  BY <1>3, <1>9, <3>1, <3>3, <5>4, <5>6, <5>7, <5>8
      <4>2. PICK d \in 1 .. n : lo + j = Len(T) + d /\ j = SentBytes + d
        <5>1. lo + j > lo + SentBytes /\ lo + j <= lo + SentBytes + n
          BY <1>1, <1>2, <1>3, <1>12, <2>1, <3>1, <3>3, <4>1 DEF lo
        <5>2. PICK d \in 1 .. n : j = SentBytes + d
          <6>1. j - SentBytes \in 1 .. n /\ j = SentBytes + (j - SentBytes)
            BY <1>1, <1>9, <3>1, <5>1
          <6>. QED  BY <6>1
        <5>3. lo + j = (lo + SentBytes) + d
          BY <1>1, <1>9, <5>2
        <5>. QED  BY <1>2, <5>2, <5>3
      <4>3. piece[d] = m[j]
        BY <1>11, <4>2
      <4>4. T2[lo + j] = piece[d]
        BY <1>12, <4>2
      <4>. QED  BY <4>1, <4>3, <4>4 DEF m, lo
    <3>. QED  BY <1>3, <3>1, <3>2, <3>3
  <2>. QED  BY <1>2, <1>8, <2>1 DEF Layout
<1>15. SentSide(P, T2, off)'
  <2>1. CASE SentBytes + n < Len(m)
    <3>0. Len(T2) = lo + SentBytes + n /\ SentBytes' = SentBytes + n
      BY <1>2, <1>6, <1>12
    <3>1. lo <= Len(T2) /\ Len(T2) < hi /\ lo + SentBytes' = Len(T2)
      BY <1>1, <1>4, <1>9, <2>1, <3>0
    <3>2. UNCHANGED <<current, sent>> /\ ~(k + 1 = k)
      BY <1>3, <1>6, <2>1
    <3>. QED  BY <1>1, <1>2, <3>1, <3>2 DEF SentSide, k, lo, hi
  <2>2. CASE ~(SentBytes + n < Len(m))
    <3>1. current' = <<>> /\ sent' = Append(sent, P[k + 1])
      BY <1>6, <2>2
    <3>2. Len(sent') = k + 1 /\ \A i \in 1 .. Len(sent') : sent'[i] = P[i]
      <4>1. sent \in Seq(Offered)
        BY DEF TypeOK
      <4>2. /\ Len(sent') = k + 1 /\ sent'[k + 1] = P[k + 1]
            /\ \A i \in 1 .. k : sent'[i] = sent[i]
        BY <1>3, <3>1, <4>1, AppendProperties DEF k
      <4>. QED  BY <1>2, <1>3, <4>2
    <3>3. Len(T2) = hi
      <4>1. SentBytes + n = Len(m)
        BY <1>1, <1>4, <1>10, <2>2
      <4>2. Len(T2) = (lo + SentBytes) + n
        BY <1>2, <1>12
      <4>3. (lo + SentBytes) + n = lo + (SentBytes + n)
        BY <1>1, <1>9
      <4>. QED  BY <1>9, <4>1, <4>2, <4>3
    <3>4. Len(P) = Len(sent') /\ ~(Len(P) = Len(sent') + 1) /\ hi <= Len(T2)
      BY <1>2, <1>3, <1>9, <3>2, <3>3
    <3>. QED  BY <3>1, <3>2, <3>3, <3>4 DEF SentSide, hi
  <2>. QED  BY <2>1, <2>2
<1>16. ReadSide(P, T2, off)'
  <2>. DEFINE a == Start(off)
              b == Len(buffer)
              c == Len(stream)
  <2>1. Start(off)' = a /\ Wanted' = Wanted
    BY <1>6 DEF Start, Wanted
  <2>2. /\ Len(received) <= k /\ Len(T) = a + b + c
        /\ \A j \in 1 .. b : buffer[j] = T[a + j]
        /\ \A j \in 1 .. c : stream[j] = T[a + b + j]
        /\ b < Wanted
        /\ phase = "body" => /\ Len(received) < Len(P)
                             /\ header = HeaderOf(Raw(P[Len(received) + 1]))
    BY DEF Ghosts, ReadSide, k
  <2>3. Len(received) \in Nat /\ b \in Nat /\ c \in Nat
    BY DEF TypeOK
  <2>4. a \in Nat
    <3>1. off[Len(received)] \in Nat
      BY <1>3, <1>5, <2>2, <2>3
    <3>. QED  BY <3>1 DEF Start, HeaderLen
  <2>. HIDE DEF a, b, c
  <2>5. Len(received) <= Len(sent')
    <3>1. sent \in Seq(Offered)
      BY DEF TypeOK
    <3>2. Len(sent') = k \/ Len(sent') = k + 1
      BY <1>3, <1>6, <3>1, AppendProperties DEF k
    <3>. QED  BY <1>3, <2>2, <2>3, <3>2
  <2>6. ASSUME NEW j \in 1 .. b PROVE buffer[j] = T2[a + j]
    <3>1. a + j \in 1 .. Len(T)
      BY <2>2, <2>3, <2>4
    <3>. QED  BY <1>12, <2>2, <3>1
  <2>7. ASSUME NEW j \in 1 .. c + n PROVE stream'[j] = T2[a + b + j]
    <3>1. CASE j <= c
      <4>1. j \in 1 .. c /\ a + b + j \in 1 .. Len(T)
        BY <2>2, <2>3, <2>4, <3>1
      <4>. QED  BY <1>12, <1>13, <2>2, <4>1 DEF c
    <3>2. CASE j > c
      <4>1. PICK d \in 1 .. n : j = c + d
        <5>1. j - c \in 1 .. n /\ j = c + (j - c)
          BY <1>1, <2>3, <3>2
        <5>. QED  BY <5>1
      <4>2. a + b + j = Len(T) + d
        BY <2>2, <2>3, <2>4, <4>1
      <4>. QED  BY <1>12, <1>13, <4>1, <4>2 DEF c
    <3>. QED  BY <2>3, <3>1, <3>2
  <2>8. Len(T2) = a + b + (c + n)
    BY <1>1, <1>3, <1>12, <2>2, <2>3, <2>4
  <2>9. /\ Len(buffer') = b /\ Len(stream') = c + n
    BY <1>6, <1>13 DEF b, c
  <2>. QED  BY <1>6, <2>1, <2>2, <2>5, <2>6, <2>7, <2>8, <2>9 DEF ReadSide
<1>17. Ghosts(P, T2, off)'
  BY <1>14, <1>15, <1>16 DEF Ghosts
<1>. QED  BY <1>12, <1>17 DEF Reading

\* What the receive thread reads next is its place in T; when it is complete
\* it is the header or the rest of the next packet.
LEMMA ReadKeeps ==
  ASSUME NEW P \in Seq(Offered), NEW T \in Seq(Byte), NEW off \in Offsets(P),
         Ghosts(P, T, off), TypeOK, ReceivedIsSent,
         NEW n \in SomeBytes, RecvSome(n)
  PROVE  Ghosts(P, T, off)' /\ TypeOK' /\ ReceivedIsSent'
<1>. DEFINE a == Start(off)
            b == Len(buffer)
            c == Len(stream)
            k == Len(received)
            pkt == P[k + 1]
            lo == off[k]
            hi == off[k + 1]
            piece == SubSeq(stream, 1, n)
            bytes == buffer \o piece
            rest == SubSeq(stream, n + 1, c)
<1>1. /\ n \in Nat /\ n > 0 /\ n <= c /\ b \in Nat /\ c \in Nat /\ k \in Nat
      /\ stream \in Seq(Byte) /\ buffer \in Seq(Byte) /\ Len(T) \in Nat
      /\ phase \in {"header", "body"} /\ header \in [type : Byte, len : Word]
      /\ received \in Seq(RawPacket) /\ sent \in Seq(Offered)
  BY StreamAssumption DEF SomeBytes, RecvSome, Reads, TypeOK
<1>2. /\ k <= Len(sent) /\ Len(T) = a + b + c
      /\ \A j \in 1 .. b : buffer[j] = T[a + j]
      /\ \A j \in 1 .. c : stream[j] = T[a + b + j]
      /\ b < Wanted
      /\ phase = "body" => k < Len(P) /\ header = HeaderOf(Raw(pkt))
  BY DEF Ghosts, ReadSide
<1>3. /\ Layout(P, T, off) /\ SentSide(P, T, off)
      /\ (Len(P) = Len(sent) \/ Len(P) = Len(sent) + 1)
  BY DEF Ghosts, SentSide
<1>4. k <= Len(P) /\ Len(P) \in Nat /\ \A i \in 0 .. Len(P) : off[i] \in Nat
  <2>1. Len(P) \in Nat /\ Len(sent) \in Nat
    BY <1>1
  <2>2. k <= Len(P)
    BY <1>1, <1>2, <1>3, <2>1
  <2>. QED  BY <2>1, <2>2 DEF Offsets
<1>5. lo \in Nat /\ a = lo + (IF phase = "body" THEN HeaderLen ELSE 0)
  BY <1>1, <1>4 DEF Start
<1>6. a \in Nat
  BY <1>5 DEF HeaderLen
\* A packet that is begun.
<1>7. ASSUME k < Len(P)
      PROVE  /\ pkt \in Offered /\ hi \in Nat /\ Bytes(pkt) \in Seq(Byte)
             /\ hi = lo + Len(Bytes(pkt)) /\ Len(Raw(pkt).body) \in Nat
             /\ Len(Bytes(pkt)) = Len(Raw(pkt).body) + 6
             /\ \A j \in 1 .. Len(Bytes(pkt)) :
                  lo + j <= Len(T) => T[lo + j] = Bytes(pkt)[j]
  <2>1. pkt \in Offered /\ k + 1 \in 0 .. Len(P)
    BY <1>1, <1>4, <1>7
  <2>. QED  BY <1>1, <1>3, <1>4, <1>7, <2>1, BytesTyped DEF Layout
<1>8. Len(P) > k \/ Len(T) = lo
  BY <1>1, <1>2, <1>3, <1>4 DEF SentSide
<1>. HIDE DEF a, b, c, k, pkt, lo, hi, piece, rest
\* The bytes read now.
<1>9. /\ piece \in Seq(Byte) /\ Len(piece) = n
      /\ \A j \in 1 .. n : piece[j] = stream[j]
  BY <1>1 DEF piece, c
<1>10. /\ rest \in Seq(Byte) /\ n + Len(rest) = c
       /\ \A j \in 1 .. Len(rest) : rest[j] = stream[n + j]
  BY <1>1 DEF rest, c
<1>11. /\ bytes \in Seq(Byte) /\ Len(bytes) = b + n
       /\ \A j \in 1 .. b : bytes[j] = buffer[j]
       /\ \A j \in 1 .. n : bytes[b + j] = piece[j]
  <2>1. /\ bytes \in Seq(Byte) /\ Len(bytes) = Len(buffer) + Len(piece)
        /\ \A j \in 1 .. Len(buffer) : bytes[j] = buffer[j]
        /\ \A j \in 1 .. Len(piece) : bytes[Len(buffer) + j] = piece[j]
    BY <1>1, <1>9, Joined
  <2>. QED  BY <1>9, <2>1 DEF b
<1>. HIDE DEF bytes
<1>12. ASSUME NEW j \in 1 .. b + n PROVE bytes[j] = T[a + j]
  <2>1. CASE j \in 1 .. b
    BY <1>2, <1>11, <2>1
  <2>2. CASE ~(j \in 1 .. b)
    <3>1. PICK d \in 1 .. n : j = b + d
      <4>1. j - b \in 1 .. n /\ j = b + (j - b)
        BY <1>1, <2>2
      <4>. QED  BY <4>1
    <3>2. d \in 1 .. c /\ a + b + d = a + j
      BY <1>1, <1>6, <3>1
    <3>. QED  BY <1>2, <1>9, <1>11, <3>1, <3>2
  <2>. QED  BY <2>1, <2>2
<1>13. ASSUME NEW j \in 1 .. Len(rest) PROVE rest[j] = T[a + (b + n) + j]
  <2>1. n + j \in 1 .. c /\ a + b + (n + j) = a + (b + n) + j
    BY <1>1, <1>6, <1>10
  <2>. QED  BY <1>2, <1>10, <2>1
<1>14. Len(T) = a + (b + n) + Len(rest) /\ Len(rest) \in Nat
  <2>1. Len(rest) \in Nat /\ n + Len(rest) = c /\ Len(T) = a + b + c
    BY <1>2, <1>10
  <2>2. ASSUME NEW r \in Nat PROVE a + b + (n + r) = a + (b + n) + r
    BY <1>1, <1>6
  <2>3. a + b + (n + Len(rest)) = a + (b + n) + Len(rest)
    BY <2>1, <2>2
  <2>. QED  BY <2>1, <2>3
<1>15. /\ n <= Wanted - b /\ stream' = rest
       /\ UNCHANGED <<current, SentBytes, todo, sent, ends>>
       /\ IF b + n < Wanted /\ b + n <= IntMax
            THEN buffer' = bytes /\ UNCHANGED <<phase, header, received>>
            ELSE Complete(Filled(bytes))
  BY <1>11 DEF RecvSome, senderVars, bytes, piece, rest, b, c
<1>16. /\ IF phase = "header" THEN Wanted = HeaderLen
            ELSE Wanted = Len(Raw(pkt).body) + 1 /\ k < Len(P)
       /\ Wanted \in Nat /\ Wanted <= IntMax + 1
  <2>1. CASE phase = "header"
    BY <2>1, BodyAssumption, StreamAssumption DEF Wanted, HeaderLen
  <2>2. CASE phase # "header"
    <3>1. header = HeaderOf(Raw(pkt)) /\ k < Len(P)
      BY <1>1, <1>2, <2>2
    <3>2. header.len = Len(Raw(pkt).body) /\ Len(Raw(pkt).body) <= IntMax
      BY <1>7, <3>1, RawTyped DEF HeaderOf
    <3>3. phase = "body"
      BY <1>1, <2>2
    <3>. QED
      BY <1>7, <2>2, <3>1, <3>2, <3>3, StreamAssumption
         DEF Wanted, BytesToRecieve
  <2>. QED  BY <2>1, <2>2
<1>17. Layout(P, T, off)' /\ SentSide(P, T, off)'
  BY <1>3, <1>15 DEF Layout, SentSide, Sendable
<1>18. /\ current' \in {<<>>} \cup {<<p>> : p \in Offered}
       /\ SentBytes' \in Nat /\ todo' \in 0 .. Sends /\ sent' \in Seq(Offered)
       /\ stream' \in Seq(Byte) /\ Len(stream') <= BufBytes
       /\ ends' \in [Peer -> {"open", "wrShut", "rdShut", "closed"}]
  <2>1. BufBytes \in Nat /\ c <= BufBytes
    BY StreamAssumption DEF TypeOK, c
  <2>2. Len(rest) <= BufBytes
    BY <1>1, <1>10, <1>14, <2>1
  <2>. QED  BY <1>10, <1>15, <2>2 DEF TypeOK
<1>19. CASE b + n < Wanted
  <2>1. b + n <= IntMax
    BY <1>1, <1>16, <1>19, StreamAssumption
  <2>2. buffer' = bytes /\ UNCHANGED <<phase, header, received, sent>>
    BY <1>15, <1>19, <2>1
  <2>3. Start(off)' = a /\ Wanted' = Wanted /\ Len(buffer') = b + n
    BY <1>11, <2>2 DEF Start, Wanted, a
  <2>4. ReadSide(P, T, off)'
    BY <1>2, <1>12, <1>13, <1>14, <1>15, <1>19, <2>2, <2>3 DEF ReadSide, k, pkt
  <2>5. TypeOK'
    BY <1>1, <1>11, <1>18, <2>2 DEF TypeOK
  <2>6. ReceivedIsSent'
    BY <2>2 DEF ReceivedIsSent
  <2>. QED  BY <1>17, <2>4, <2>5, <2>6 DEF Ghosts
<1>20. CASE ~(b + n < Wanted)
  <2>1. b + n = Wanted
    <3>1. n <= Wanted - b /\ Wanted \in Nat
      BY <1>15, <1>16
    <3>. QED  BY <1>1, <1>20, <3>1
  <2>2. Filled(bytes) = bytes
    <3>1. [i \in 1 .. Wanted - Len(bytes) |-> 0] = <<>>
      BY <1>1, <1>11, <2>1
    <3>. QED  BY <1>11, <3>1, ConcatEmptySeq DEF Filled
  <2>3. Complete(bytes)
    BY <1>15, <1>20, <2>2
  <2>4. buffer' = <<>> /\ Len(buffer') = 0
    BY <2>3 DEF Complete
  <2>5. k < Len(P)
    <3>1. Len(T) > lo
      BY <1>1, <1>5, <1>6, <1>14, <1>16 DEF HeaderLen
    <3>. QED  BY <1>1, <1>5, <1>8, <3>1
  <2>. DEFINE m == Bytes(pkt)
              l == Len(Raw(pkt).body)
  <2>6. /\ m \in Seq(Byte) /\ Len(m) = l + 6 /\ l \in Nat /\ hi = lo + (l + 6)
        /\ \A j \in 1 .. l + 6 : lo + j <= Len(T) => T[lo + j] = m[j]
        /\ DeserializeHeaderPacket(SubSeq(m, 1, HeaderLen)) = HeaderOf(Raw(pkt))
        /\ CombinePacket(HeaderOf(Raw(pkt)),
             DeserializeBodyPacket(SubSeq(m, HeaderLen + 1, Len(m)),
                                   HeaderOf(Raw(pkt)))) = Raw(pkt)
        /\ Raw(pkt) \in RawPacket
    BY <1>7, <2>5, RawTyped, PacketReadBack DEF Bytes
  <2>. HIDE DEF m, l
  \* The next read begins behind these bytes.
  <2>7. ASSUME NEW r \in Nat, r = a + (b + n), Start(off)' = r,
               Len(received') <= Len(sent'), 0 < Wanted',
               phase' = "body" =>
                 /\ Len(received') < Len(P)
                 /\ header' = HeaderOf(Raw(P[Len(received') + 1]))
        PROVE  ReadSide(P, T, off)'
    <3>1. Len(T) = r + Len(buffer') + Len(stream')
      BY <1>14, <1>15, <2>4, <2>7
    <3>2. ASSUME NEW j \in 1 .. Len(stream')
          PROVE  stream'[j] = T[r + Len(buffer') + j]
      BY <1>13, <1>15, <2>4, <2>7
    <3>. QED  BY <2>4, <2>7, <3>1, <3>2 DEF ReadSide
  <2>8. CASE phase = "header"
    <3>1. a = lo /\ b + n = 5 /\ Wanted = 5
      BY <1>5, <1>16, <2>1, <2>8 DEF HeaderLen
    <3>2. bytes = SubSeq(m, 1, HeaderLen)
      <4>. DEFINE h == SubSeq(m, 1, HeaderLen)
      <4>1. h \in Seq(Byte) /\ Len(h) = 5 /\ \A j \in 1 .. 5 : h[j] = m[j]
        BY <2>6 DEF HeaderLen
      <4>2. ASSUME NEW j \in 1 .. 5 PROVE bytes[j] = m[j]
        <5>1. lo + j <= Len(T) /\ j \in 1 .. l + 6
          BY <1>5, <1>14, <2>6, <3>1
        <5>. QED  BY <1>12, <2>6, <3>1, <5>1
      <4>. HIDE DEF h
      <4>3. Len(bytes) = Len(h) /\ \A j \in 1 .. Len(bytes) : bytes[j] = h[j]
        BY <1>11, <3>1, <4>1, <4>2
      <4>. QED  BY <1>11, <4>1, <4>3, SeqEqual DEF h
    <3>3. /\ header' = HeaderOf(Raw(pkt)) /\ phase' = "body"
          /\ UNCHANGED <<received, sent>>
      BY <1>15, <2>3, <2>6, <2>8, <3>2 DEF Complete
    <3>4. header'.len = l
      BY <3>3 DEF HeaderOf, l
    <3>5. Start(off)' = a + (b + n) /\ Wanted' > 0 /\ a + (b + n) \in Nat
      BY <1>1, <1>6, <2>6, <3>1, <3>3, <3>4
         DEF Start, Wanted, BytesToRecieve, HeaderLen, lo, k
    <3>6. ReadSide(P, T, off)'
      BY <1>2, <2>5, <2>7, <3>3, <3>5 DEF pkt, k
    <3>7. header' \in [type : Byte, len : Word]
      BY <1>7, <2>5, <3>3, RawTyped DEF HeaderOf, RawPacket
    <3>8. TypeOK'
      BY <1>1, <1>18, <2>4, <3>3, <3>7 DEF TypeOK
    <3>9. ReceivedIsSent'
      BY <3>3 DEF ReceivedIsSent
    <3>. QED  BY <1>17, <3>6, <3>8, <3>9 DEF Ghosts
  <2>9. CASE phase = "body"
    <3>1. a = lo + 5 /\ b + n = l + 1 /\ header = HeaderOf(Raw(pkt))
      BY <1>2, <1>5, <1>16, <2>1, <2>9 DEF HeaderLen, l
    <3>2. a + (b + n) = hi
      BY <1>5, <2>6, <3>1
    <3>3. bytes = SubSeq(m, HeaderLen + 1, Len(m))
      <4>. DEFINE h == SubSeq(m, HeaderLen + 1, HeaderLen + (l + 1))
      <4>1. HeaderLen \in Nat /\ l + 1 \in Nat /\ HeaderLen + (l + 1) = Len(m)
            /\ HeaderLen = 5
        BY <2>6 DEF HeaderLen
      <4>2. h \in Seq(Byte) /\ Len(h) = l + 1
            /\ \A j \in 1 .. l + 1 : h[j] = m[HeaderLen + j]
        BY <2>6, <4>1, Piece
      <4>. HIDE DEF h
      <4>3. ASSUME NEW j \in 1 .. l + 1 PROVE bytes[j] = h[j]
        <5>0. a + (b + n) <= Len(T)
          BY <1>1, <1>6, <1>14
        <5>1. /\ 5 + j \in 1 .. l + 6 /\ lo + (5 + j) = a + j
              /\ lo + (5 + j) <= Len(T) /\ j \in 1 .. b + n
          <6>1. j \in Nat /\ j >= 1 /\ j <= l + 1 /\ l \in Nat
            BY <2>6
          <6>2. 5 + j \in 1 .. l + 6 /\ j \in 1 .. b + n
            BY <3>1, <6>1
          <6>3. lo + (5 + j) = a + j
            BY <1>5, <3>1, <6>1
          <6>4. a + j <= Len(T)
            BY <1>1, <1>6, <3>1, <5>0, <6>1
          <6>. QED  BY <6>2, <6>3, <6>4
        <5>. QED  BY <1>12, <2>6, <4>1, <4>2, <5>1
      <4>4. Len(bytes) = Len(h) /\ \A j \in 1 .. Len(bytes) : bytes[j] = h[j]
        BY <1>11, <3>1, <4>2, <4>3
      <4>. QED  BY <1>11, <4>1, <4>2, <4>4, SeqEqual DEF h
    <3>4. /\ received' = Append(received, Raw(pkt))
          /\ phase' \in {"header", "asking"}
          /\ UNCHANGED <<header, sent>>
      BY <1>15, <2>3, <2>6, <2>9, <3>1, <3>3 DEF Complete
    <3>5. /\ Len(received') = k + 1 /\ received' \in Seq(RawPacket)
          /\ received'[k + 1] = Raw(pkt)
          /\ \A j \in 1 .. k : received'[j] = received[j]
      BY <1>1, <2>6, <3>4, AppendProperties DEF k
    <3>6. k < Len(sent)
      <4>1. SUFFICES ASSUME k = Len(sent) PROVE FALSE
        BY <1>1, <1>2
      <4>2. Len(P) = Len(sent) + 1
        BY <1>1, <1>3, <2>5, <4>1
      <4>3. Len(T) < hi
        BY <1>3, <4>1, <4>2 DEF SentSide, hi
      <4>. QED  BY <1>1, <1>6, <1>14, <3>2, <4>3
    <3>7. sent[k + 1] = pkt
      BY <1>1, <1>3, <3>6 DEF SentSide, pkt
    <3>8. ReceivedIsSent'
      BY <1>1, <3>4, <3>5, <3>6, <3>7 DEF ReceivedIsSent, k
    <3>9. Start(off)' = hi /\ Wanted' = 5 /\ hi \in Nat
      <4>1. off[k + 1] + 0 = hi /\ hi \in Nat
        BY <1>7, <2>5 DEF hi
      <4>. QED  BY <3>4, <3>5, <4>1 DEF Start, Wanted, HeaderLen
    <3>10. ReadSide(P, T, off)'
      BY <1>1, <2>7, <3>2, <3>4, <3>5, <3>6, <3>9
    <3>11. TypeOK'
      BY <1>1, <1>18, <2>4, <3>4, <3>5 DEF TypeOK
    <3>. QED  BY <1>17, <3>8, <3>10, <3>11 DEF Ghosts
  <2>. QED  BY <1>1, <2>8, <2>9
<1>. QED  BY <1>19, <1>20

\* Nothing moves, and nothing more can be sent.
LEMMA QuietKeeps ==
  ASSUME Reading, ~Sendable', UNCHANGED <<sent, stream, receiverVars>>
  PROVE  Reading'
<1>1. PICK P \in Seq(Offered), T \in Seq(Byte) :
         \E off \in Offsets(P) : Ghosts(P, T, off)
  BY DEF Reading
<1>2. PICK off \in Offsets(P) : Ghosts(P, T, off)
  BY <1>1
<1>3. Layout(P, T, off)'
  BY <1>2 DEF Ghosts, Layout
<1>4. SentSide(P, T, off)'
  BY <1>2 DEF Ghosts, SentSide
<1>5. ReadSide(P, T, off)'
  BY <1>2 DEF Ghosts, ReadSide, Start, Wanted, receiverVars
<1>6. Ghosts(P, T, off)'
  BY <1>3, <1>4, <1>5 DEF Ghosts
<1>. QED  BY <1>6 DEF Reading

\* The steps of the sending side, but for send itself.
LEMMA SenderKeeps ==
  ASSUME Inv,
         \/ \E pkt \in Offered : StartPacket(pkt)
         \/ SendInVain \/ SendFails \/ StopSending \/ SenderCloses
  PROVE  Inv'
<1>1. /\ TypeOK /\ ReceivedIsSent /\ (ends[To] = "closed" => phase = "ended")
      /\ IF phase = "ended" THEN Over ELSE Reading
  BY DEF Inv
<1>2. UNCHANGED <<sent, stream, receiverVars>>
  BY DEF StartPacket, SendInVain, SendFails, StopSending, SenderCloses,
         senderVars, receiverVars
<1>3. UNCHANGED <<sent, stream, phase, buffer, header, received>>
  BY <1>2 DEF receiverVars
<1>4. ReceivedIsSent'
  BY <1>1, <1>3 DEF ReceivedIsSent
\* What the steps do to the rest of the state.
<1>5. /\ current' \in {<<>>} \cup {<<pkt>> : pkt \in Offered}
      /\ SentBytes' \in Nat /\ todo' \in 0 .. Sends
      /\ ends' \in [Peer -> {"open", "wrShut", "rdShut", "closed"}]
      /\ ends'[To] = ends[To]
      /\ Sendable' => Sendable /\ \E pkt \in Offered : StartPacket(pkt)
  <2>1. CASE \E pkt \in Offered : StartPacket(pkt)
    <3>1. PICK pkt \in Offered : StartPacket(pkt)
      BY <2>1
    <3>2. todo' \in 0 .. Sends
      BY <1>1, <3>1, StreamAssumption DEF StartPacket, TypeOK
    <3>. QED  BY <1>1, <2>1, <3>1, <3>2 DEF StartPacket, TypeOK, Sendable
  <2>2. CASE SendInVain \/ SendFails
    BY <1>1, <2>2 DEF SendInVain, SendFails, TypeOK, Sendable
  <2>3. CASE StopSending \/ SenderCloses
    BY <1>1, <2>3, Peers DEF StopSending, SenderCloses, TypeOK, Sendable, senderVars
  <2>. QED  BY <2>1, <2>2, <2>3
<1>6. TypeOK'
  BY <1>1, <1>3, <1>5 DEF TypeOK
<1>7. (ends[To] = "closed" => phase = "ended")'
  BY <1>1, <1>3, <1>5
<1>8. CASE phase = "ended"
  BY <1>1, <1>3, <1>4, <1>5, <1>6, <1>7, <1>8 DEF Inv, Over
<1>9. CASE phase # "ended" /\ ~Sendable'
  <2>1. Reading'
    BY <1>1, <1>2, <1>9, QuietKeeps
  <2>. QED  BY <1>3, <1>4, <1>6, <1>7, <1>9, <2>1 DEF Inv
<1>10. CASE phase # "ended" /\ Sendable'
  <2>1. PICK pkt \in Offered : StartPacket(pkt)
    BY <1>5, <1>10
  <2>2. PICK P \in Seq(Offered), T \in Seq(Byte) :
          \E off \in Offsets(P) : Ghosts(P, T, off)
    BY <1>1, <1>10 DEF Reading
  <2>3. PICK off \in Offsets(P) : Ghosts(P, T, off)
    BY <2>2
  <2>4. Sendable
    BY <1>5, <1>10
  <2>5. Reading'
    BY <1>1, <2>1, <2>3, <2>4, StartKeeps
  <2>. QED  BY <1>3, <1>4, <1>6, <1>7, <1>10, <2>5 DEF Inv
<1>. QED  BY <1>8, <1>9, <1>10

LEMMA SendInv ==
  ASSUME Inv, NEW n \in SomeBytes, SendSome(n)
  PROVE  Inv'
<1>1. /\ TypeOK /\ ReceivedIsSent /\ (ends[To] = "closed" => phase = "ended")
      /\ IF phase = "ended" THEN Over ELSE Reading
  BY DEF Inv
<1>2. /\ Sendable /\ current # <<>> /\ n <= Len(msgbuff) - SentBytes
      /\ Len(stream) + n <= BufBytes
      /\ stream' = stream \o SubSeq(msgbuff, SentBytes + 1, SentBytes + n)
      /\ SentBytes' = SentBytes + n
      /\ UNCHANGED <<todo, ends, phase, buffer, header, received>>
      /\ \/ UNCHANGED <<current, sent>>
         \/ current' = <<>> /\ sent' = Append(sent, current[1])
  BY DEF SendSome, Sendable, Advance, receiverVars
<1>3. phase # "ended" /\ Reading
  BY <1>1, <1>2 DEF Over
<1>4. PICK P \in Seq(Offered), T \in Seq(Byte) :
        \E off \in Offsets(P) : Ghosts(P, T, off)
  BY <1>3 DEF Reading
<1>5. PICK off \in Offsets(P) : Ghosts(P, T, off)
  BY <1>4
<1>6. Reading'
  BY <1>1, <1>5, SendKeeps
<1>7. current[1] \in Offered
  BY <1>1, <1>2 DEF TypeOK
<1>8. /\ n \in Nat /\ SentBytes \in Nat /\ sent \in Seq(Offered)
      /\ stream \in Seq(Byte) /\ BufBytes \in Nat /\ received \in Seq(RawPacket)
  BY <1>1, StreamAssumption DEF SomeBytes, TypeOK
<1>9. stream' \in Seq(Byte) /\ Len(stream') <= BufBytes
  <2>1. msgbuff \in Seq(Byte) /\ Len(msgbuff) \in Nat
    BY <1>7, BytesTyped DEF msgbuff, Bytes
  <2>2. SentBytes + n <= Len(msgbuff)
    BY <1>2, <1>8, <2>1
  <2>. DEFINE piece == SubSeq(msgbuff, SentBytes + 1, SentBytes + n)
  <2>3. piece \in Seq(Byte) /\ Len(piece) = n
    BY <1>8, <2>1, <2>2, Piece
  <2>. HIDE DEF piece
  <2>4. stream \o piece \in Seq(Byte) /\ Len(stream \o piece) = Len(stream) + n
    BY <1>8, <2>3, Joined
  <2>. QED  BY <1>2, <2>4 DEF piece
<1>10. /\ sent' \in Seq(Offered) /\ Len(sent) <= Len(sent')
       /\ \A i \in 1 .. Len(sent) : sent'[i] = sent[i]
  <2>1. CASE UNCHANGED sent
    BY <1>8, <2>1
  <2>2. CASE sent' = Append(sent, current[1])
    BY <1>7, <1>8, <2>2, AppendProperties
  <2>. QED  BY <1>2, <2>1, <2>2
<1>11. TypeOK'
  BY <1>1, <1>2, <1>8, <1>9, <1>10 DEF TypeOK
<1>12. ReceivedIsSent'
  BY <1>1, <1>2, <1>8, <1>10 DEF ReceivedIsSent
<1>. QED  BY <1>1, <1>2, <1>3, <1>6, <1>11, <1>12 DEF Inv

LEMMA ReadInv ==
  ASSUME Inv, NEW n \in SomeBytes, RecvSome(n)
  PROVE  Inv'
<1>1. /\ TypeOK /\ ReceivedIsSent /\ phase # "ended" /\ Reading
      /\ ends[To] # "closed" /\ UNCHANGED ends
  BY DEF Inv, RecvSome, Reads
<1>2. PICK P \in Seq(Offered), T \in Seq(Byte) :
        \E off \in Offsets(P) : Ghosts(P, T, off)
  BY <1>1 DEF Reading
<1>3. PICK off \in Offsets(P) : Ghosts(P, T, off)
  BY <1>2
<1>4. Ghosts(P, T, off)' /\ TypeOK' /\ ReceivedIsSent'
  BY <1>1, <1>3, ReadKeeps
<1>5. phase' # "ended"
  BY <1>1 DEF RecvSome, Reads, Complete
<1>. QED  BY <1>1, <1>4, <1>5 DEF Inv, Reading

\* The end of the receive thread.
LEMMA EndInv ==
  ASSUME Inv, RecvEnd \/ RecvReset \/ ReceiverCloses
  PROVE  Inv'
<1>1. TypeOK /\ ReceivedIsSent
  BY DEF Inv
<1>2. /\ phase' = "ended" /\ stream' = <<>>
      /\ UNCHANGED <<current, SentBytes, todo, sent, buffer, header, received>>
  BY DEF RecvEnd, RecvReset, ReceiverCloses, senderVars
<1>3. /\ ends' \in [Peer -> {"open", "wrShut", "rdShut", "closed"}]
      /\ ~Sendable'
  BY <1>1, Peers DEF RecvEnd, RecvReset, Reads, ReceiverCloses, TypeOK, Sendable
<1>4. <<>> \in Seq(Byte) /\ Len(<<>>) = 0
  OBVIOUS
<1>5. TypeOK'
  BY <1>1, <1>2, <1>3, <1>4, StreamAssumption DEF TypeOK
<1>6. ReceivedIsSent'
  BY <1>1, <1>2 DEF ReceivedIsSent
<1>. QED  BY <1>2, <1>3, <1>5, <1>6 DEF Inv, Over

\* The answer of the user: the next read begins where the last one ended.
LEMMA StutterInv ==
  ASSUME Inv, Answered \/ UNCHANGED vars
  PROVE  Inv'
<1>1. /\ UNCHANGED <<current, SentBytes, todo, sent, stream, ends, buffer, header,
                     received>>
      /\ phase' = phase \/ (phase = "asking" /\ phase' = "header")
  BY DEF vars, senderVars, receiverVars, Answered
<1>2. TypeOK' /\ ReceivedIsSent' /\ Sendable' = Sendable
  BY <1>1 DEF Inv, TypeOK, ReceivedIsSent, Sendable
<1>3. Reading => Reading'
  <2>. SUFFICES ASSUME Reading PROVE Reading'
    OBVIOUS
  <2>1. PICK P \in Seq(Offered), T \in Seq(Byte) :
          \E off \in Offsets(P) : Ghosts(P, T, off)
    BY DEF Reading
  <2>2. PICK off \in Offsets(P) : Ghosts(P, T, off)
    BY <2>1
  <2>3. Layout(P, T, off)' /\ SentSide(P, T, off)' /\ ReadSide(P, T, off)'
    BY <1>1, <1>2, <2>2 DEF Ghosts, Layout, SentSide, ReadSide, Start, Wanted
  <2>4. Ghosts(P, T, off)'
    BY <2>3 DEF Ghosts
  <2>. QED  BY <2>4 DEF Reading
<1>. QED  BY <1>1, <1>2, <1>3 DEF Inv, Over

\* Every step of either side keeps the invariant.
LEMMA NextInv == Inv /\ [Next]_vars => Inv'
<1>. SUFFICES ASSUME Inv, [Next]_vars PROVE Inv'
  OBVIOUS
<1>1. CASE \E n \in SomeBytes : SendSome(n)
  BY <1>1, SendInv
<1>2. CASE \E n \in SomeBytes : RecvSome(n)
  BY <1>2, ReadInv
<1>. QED
  BY <1>1, <1>2, SenderKeeps, EndInv, StutterInv DEF Next

\* The bytes in the buffers, the numbers of RecievePacket and its header stay
\* in their ranges: the length that DeserializeHeaderPacket reads is a length
\* that was written.
THEOREM StreamTyped == Spec => []TypeOK
<1>1. Inv => TypeOK
  BY DEF Inv
<1>. QED  BY InitInv, NextInv, <1>1, PTL DEF Spec

\* However send and recv cut the stream up, what the receive thread puts
\* together are the packets sent, in order (RecievePacket, CombinePacket).
THEOREM StreamCarriesPackets == Spec => []ReceivedIsSent
<1>1. Inv => ReceivedIsSent
  BY DEF Inv
<1>. QED  BY InitInv, NextInv, <1>1, PTL DEF Spec

-----------------------------------------------------------------------------
(***************************************************************************)
(* What the peer that is asked is shown.                                   *)
(***************************************************************************)
LEMMA JoinedLength ==
  ASSUME NEW s \in Seq(Nat), NEW t \in Seq(Nat)
  PROVE  s \o t \in Seq(Nat) /\ Len(s \o t) = Len(s) + Len(t)
BY ConcatProperties

\* The name is as much shorter than the body as the two numbers are long, so
\* its length fits where it is written.
LEMMA NameFits ==
  ASSUME NEW order, NEW meta \in Metadata,
         Len(SerializeFileMetadataPacket(order, meta)) \in Word
  PROVE  Len(meta.FileName) \in Word
<1>. DEFINE size == Memory8(order, meta.FileSize)
            name == meta.FileName
            len == Memory4(order, Len(name))
<1>1. meta.FileSize \in LongWord /\ name \in Seq(Byte) /\ Len(name) \in Nat
  BY DEF Metadata
<1>2. size \in Seq(Byte) /\ Len(size) = 8
  BY <1>1, MemoryOfLong
<1>3. len \in Seq(Nat) /\ Len(len) = 4
  <2>. DEFINE n == Len(name)
              n1 == n \div Base
              n2 == n1 \div Base
              n3 == n2 \div Base
              d0 == n % Base
              d1 == n1 % Base
              d2 == n2 % Base
  <2>1. n1 \in Nat /\ n2 \in Nat /\ n3 \in Nat
    BY <1>1, Division
  <2>2. d0 \in Byte /\ d1 \in Byte /\ d2 \in Byte
    BY <1>1, <2>1, Division
  <2>3. Digits4(n) = <<n3, d2, d1, d0>>
    BY DEF Digits4
  <2>. HIDE DEF n1, n2, n3, d0, d1, d2, n
  <2>4. <<n3, d2, d1, d0>> \in Seq(Nat) /\ Len(<<n3, d2, d1, d0>>) = 4
    BY <2>1, <2>2, BaseAssumption DEF Byte
  <2>5. Digits4(n) \in Seq(Nat) /\ Len(Digits4(n)) = 4
    BY <2>3, <2>4
  <2>6. Flip(Digits4(n)) \in Seq(Nat) /\ Len(Flip(Digits4(n))) = 4
    BY <2>5, FlipType
  <2>. QED  BY <2>5, <2>6 DEF Memory4, n
<1>4. Len(SerializeFileMetadataPacket(order, meta)) = Len((size \o len) \o name)
  BY DEF SerializeFileMetadataPacket
<1>5. size \in Seq(Nat) /\ name \in Seq(Nat)
  BY <1>1, <1>2, BaseAssumption DEF Byte
<1>. HIDE DEF size, name, len
<1>6. size \o len \in Seq(Nat) /\ Len(size \o len) = 12
  <2>1. /\ size \o len \in Seq(Nat)
        /\ Len(size \o len) = Len(size) + Len(len)
    BY <1>3, <1>5, JoinedLength
  <2>. QED  BY <1>2, <1>3, <2>1
<1>7. Len((size \o len) \o name) = 12 + Len(name)
  BY <1>5, <1>6, JoinedLength
<1>8. ASSUME NEW w \in Word, NEW n \in Nat, 12 + n = w PROVE n \in Word
  BY <1>8, BaseAssumption DEF Word
<1>. QED  BY <1>1, <1>4, <1>7, <1>8 DEF name

\* Between hosts of one byte order the peer that is asked reads the size and
\* the name that were offered (DeserializeFileMetadataPacket).
THEOREM OfferReadBack ==
  ASSUME HostOrder[From] = HostOrder[To]
  PROVE  Spec => []MetadataSurvives
<1>1. Inv => MetadataSurvives
  <2>. SUFFICES ASSUME Inv, NEW i \in 1 .. Len(received),
                       sent[i].type = "FILE_NEG", sent[i].ctl = "NO_ARG"
                PROVE  DeserializeFileMetadataPacket(HostOrder[To],
                         received[i].body) = Meta[sent[i].file]
    BY DEF MetadataSurvives
  <2>. DEFINE pkt == sent[i]
  <2>1. pkt \in Offered
    BY DEF Inv, TypeOK, ReceivedIsSent
  <2>2. received[i] = Raw(pkt)
    BY DEF Inv, ReceivedIsSent
  <2>3. pkt.file \in File /\ Len(Body(pkt)) \in Word
    BY <2>1, BodyAssumption
  <2>4. Meta[pkt.file] \in Metadata
    BY <2>3, StreamAssumption
  <2>5. Body(pkt) = SerializeFileMetadataPacket(HostOrder[From], Meta[pkt.file])
    BY DEF Body
  <2>6. received[i].body = Body(pkt)
    BY <2>2 DEF Raw
  <2>. HIDE DEF pkt
  <2>7. Len(Meta[pkt.file].FileName) \in Word
    BY <2>3, <2>4, <2>5, NameFits
  <2>. QED
    BY <2>4, <2>5, <2>6, <2>7, MetadataReadBack DEF pkt
<1>. QED  BY InitInv, NextInv, <1>1, PTL DEF Spec

-----------------------------------------------------------------------------
(***************************************************************************)
(* The refinement: every step of the bytes is a step of the queue of whole *)
(* packets, or leaves it alone.                                            *)
(***************************************************************************)
\* A packet in transit has at least its last byte in the socket buffers.
LEMMA TransitFits ==
  ASSUME NEW P \in Seq(Offered), NEW T \in Seq(Byte), NEW off \in Offsets(P),
         Ghosts(P, T, off), TypeOK, phase # "ended"
  PROVE  Len(sent) <= Len(received) + Len(stream)
<1>. DEFINE r == Len(received)
            s == Len(sent)
            l == Len(Raw(P[r + 1]).body)
<1>1. /\ r \in Nat /\ s \in Nat /\ Len(buffer) \in Nat /\ Len(stream) \in Nat
      /\ Len(P) \in Nat
  BY DEF TypeOK
<1>2. /\ r <= s /\ s <= Len(P) /\ off[s] <= Len(T)
      /\ Len(T) = Start(off) + Len(buffer) + Len(stream)
      /\ Len(buffer) < Wanted
      /\ phase = "body" => header = HeaderOf(Raw(P[r + 1]))
  BY <1>1 DEF Ghosts, SentSide, ReadSide
<1>3. CASE r = s
  BY <1>1, <1>3
<1>4. CASE r < s
  <2>1. r + 1 \in 0 .. Len(P) /\ s \in 0 .. Len(P) /\ r + 1 <= s /\ r < Len(P)
        /\ r \in 0 .. Len(P)
    BY <1>1, <1>2, <1>4
  <2>2. P[r + 1] \in Offered
    BY <1>1, <2>1
  <2>3. Len(Bytes(P[r + 1])) = l + 6 /\ l \in Nat
    BY <2>2, BytesTyped
  <2>4. off[r + 1] = off[r] + (l + 6) /\ off[r + 1] + s <= off[s] + (r + 1)
    BY <1>1, <2>1, <2>3 DEF Ghosts, Layout
  <2>5. off[r] \in Nat /\ off[r + 1] \in Nat /\ off[s] \in Nat
    BY <2>1 DEF Offsets
  <2>. HIDE DEF l
  <2>6. Start(off) + Len(buffer) < off[r + 1] /\ Start(off) \in Nat
    <3>1. CASE phase # "body"
      BY <1>1, <1>2, <2>3, <2>4, <2>5, <3>1 DEF Start, Wanted, HeaderLen
    <3>2. CASE phase = "body"
      <4>1. header.len = l
        BY <1>2, <3>2 DEF HeaderOf, l
      <4>2. Wanted = l + 1 /\ Start(off) = off[r] + 5
        BY <2>3, <2>5, <3>2, <4>1 DEF Start, Wanted, HeaderLen, BytesToRecieve
      <4>3. Len(buffer) < l + 1
        BY <1>2, <4>2
      <4>4. off[r + 1] = off[r] + (l + 6)
        BY <2>4
      <4>. QED  BY <1>1, <2>3, <2>5, <4>2, <4>3, <4>4
    <3>. QED  BY <1>1, <3>1, <3>2
  <2>. QED  BY <1>1, <1>2, <2>4, <2>5, <2>6
<1>. QED  BY <1>1, <1>2, <1>3, <1>4

LEMMA InTransitFits ==
  ASSUME Inv, phase # "ended"
  PROVE  Len(sent) <= Len(received) + Len(stream)
<1>1. PICK P \in Seq(Offered), T \in Seq(Byte) :
        \E off \in Offsets(P) : Ghosts(P, T, off)
  BY DEF Inv, Reading
<1>2. PICK off \in Offsets(P) : Ghosts(P, T, off)
  BY <1>1
<1>. QED  BY <1>2, TransitFits DEF Inv

\* What is on its way while the receive thread runs, and after it has ended.
LEMMA Transit ==
  ASSUME Inv
  PROVE  /\ InTransit \in [Peer -> Seq(Offered)] /\ InTransit[From] = <<>>
         /\ phase = "ended" => InTransit = [p \in Peer |-> <<>>]
         /\ phase # "ended" =>
              InTransit = [p \in Peer |->
                IF p = To THEN SubSeq(sent, Len(received) + 1, Len(sent))
                          ELSE <<>>]
<1>1. /\ sent \in Seq(Offered) /\ received \in Seq(RawPacket)
      /\ ends[To] = "closed" => phase = "ended"
      /\ phase = "ended" => stream = <<>>
  BY DEF Inv, Over, TypeOK
<1>2. SubSeq(sent, Len(received) + 1, Len(sent)) \in Seq(Offered)
  BY <1>1
<1>. QED  BY <1>1, <1>2, Peers DEF InTransit

\* The same of the next state.
LEMMA TransitNext ==
  ASSUME Inv'
  PROVE  /\ phase' = "ended" => InTransit' = [p \in Peer |-> <<>>]
         /\ phase' # "ended" =>
              InTransit' = [p \in Peer |->
                IF p = To THEN SubSeq(sent', Len(received') + 1, Len(sent'))
                          ELSE <<>>]
<1>1. /\ ends'[To] = "closed" => phase' = "ended"
      /\ phase' = "ended" => stream' = <<>>
  BY DEF Inv, Over
<1>. QED  BY <1>1, Peers DEF InTransit

\* A queue of packets gains one at its end and loses one at its head.
LEMMA QueuePart ==
  ASSUME NEW S, NEW s \in Seq(S), NEW r \in Nat, NEW n \in Nat,
         r <= n, n <= Len(s)
  PROVE  /\ SubSeq(s, r + 1, n) \in Seq(S)
         /\ Len(SubSeq(s, r + 1, n)) + r = n
         /\ \A i \in Nat \ {0} : i + r <= n => SubSeq(s, r + 1, n)[i] = s[i + r]
OBVIOUS

LEMMA QueueGains ==
  ASSUME NEW S, NEW s \in Seq(S), NEW x \in S, NEW r \in Nat, r <= Len(s)
  PROVE  SubSeq(Append(s, x), r + 1, Len(s) + 1)
           = Append(SubSeq(s, r + 1, Len(s)), x)
<1>. DEFINE s2 == Append(s, x)
            n == Len(s)
            q == SubSeq(s, r + 1, n)
            q2 == SubSeq(s2, r + 1, n + 1)
<1>1. /\ s2 \in Seq(S) /\ Len(s2) = n + 1 /\ n \in Nat
      /\ \A i \in 1 .. n : s2[i] = s[i]
      /\ s2[n + 1] = x
  BY AppendProperties
<1>. HIDE DEF s2
<1>2. /\ q \in Seq(S) /\ Len(q) + r = n
      /\ \A i \in Nat \ {0} : i + r <= n => q[i] = s[i + r]
  BY QueuePart
<1>3. /\ q2 \in Seq(S) /\ Len(q2) + r = n + 1
      /\ \A i \in Nat \ {0} : i + r <= n + 1 => q2[i] = s2[i + r]
  BY <1>1, QueuePart
<1>. HIDE DEF q, q2, n
<1>4. /\ Append(q, x) \in Seq(S) /\ Len(Append(q, x)) = Len(q) + 1
      /\ \A i \in 1 .. Len(q) : Append(q, x)[i] = q[i]
      /\ Append(q, x)[Len(q) + 1] = x
  BY <1>2, AppendProperties
<1>5. ASSUME NEW i \in 1 .. Len(q) + 1 PROVE Append(q, x)[i] = q2[i]
  <2>0. Len(q) \in Nat
    BY <1>2
  <2>1. CASE i \in 1 .. Len(q)
    <3>1. i + r \in 1 .. n /\ i \in Nat \ {0}
      BY <1>1, <1>2, <2>1
    <3>. QED  BY <1>1, <1>2, <1>3, <1>4, <2>1, <3>1
  <2>2. CASE i = Len(q) + 1
    <3>1. i + r = n + 1 /\ i \in Nat \ {0}
      BY <1>1, <1>2, <2>2
    <3>. QED  BY <1>1, <1>3, <1>4, <2>2, <3>1
  <2>. QED  BY <2>0, <2>1, <2>2
<1>6. Len(q2) = Len(q) + 1
  BY <1>1, <1>2, <1>3
<1>7. q2 = Append(q, x)
  BY <1>3, <1>4, <1>5, <1>6, SeqEqual
<1>. QED  BY <1>7 DEF q, q2, n, s2

LEMMA QueueLoses ==
  ASSUME NEW S, NEW s \in Seq(S), NEW r \in Nat, r < Len(s)
  PROVE  /\ SubSeq(s, r + 1, Len(s)) # <<>>
         /\ SubSeq(s, (r + 1) + 1, Len(s)) = Tail(SubSeq(s, r + 1, Len(s)))
<1>. DEFINE n == Len(s)
            q == SubSeq(s, r + 1, n)
            q2 == SubSeq(s, (r + 1) + 1, n)
<1>0. n \in Nat /\ r + 1 <= n
  OBVIOUS
<1>1. /\ q \in Seq(S) /\ Len(q) + r = n
      /\ \A i \in Nat \ {0} : i + r <= n => q[i] = s[i + r]
  BY QueuePart
<1>2. /\ q2 \in Seq(S) /\ Len(q2) + (r + 1) = n
      /\ \A i \in Nat \ {0} : i + (r + 1) <= n => q2[i] = s[i + (r + 1)]
  <2>1. r + 1 \in Nat /\ n \in Nat /\ r + 1 <= n /\ n <= Len(s)
    BY <1>0
  <2>. HIDE DEF n
  <2>. QED  BY <2>1, QueuePart
<1>. HIDE DEF q, q2, n
<1>3. q # <<>>
  BY <1>0, <1>1
<1>4. /\ Tail(q) \in Seq(S) /\ Len(Tail(q)) + 1 = Len(q)
      /\ \A i \in 1 .. Len(Tail(q)) : Tail(q)[i] = q[i + 1]
  BY <1>1, <1>3
<1>5. Len(q2) = Len(Tail(q))
  <2>1. Len(q) \in Nat /\ Len(q2) \in Nat /\ Len(Tail(q)) \in Nat
    BY <1>1, <1>2, <1>4
  <2>2. Len(q) + r = n /\ Len(q2) + (r + 1) = n /\ Len(Tail(q)) + 1 = Len(q)
    BY <1>1, <1>2, <1>4
  <2>. QED  BY <1>0, <2>1, <2>2
<1>6. ASSUME NEW i \in 1 .. Len(q2) PROVE q2[i] = Tail(q)[i]
  <2>1. /\ i \in Nat \ {0} /\ i + 1 \in Nat \ {0} /\ i + (r + 1) <= n
        /\ (i + 1) + r <= n /\ i + (r + 1) = (i + 1) + r
    BY <1>0, <1>2
  <2>2. q2[i] = s[i + (r + 1)] /\ q[i + 1] = s[(i + 1) + r]
    BY <1>1, <1>2, <2>1
  <2>. QED  BY <1>4, <1>5, <2>1, <2>2
<1>7. q2 = Tail(q)
  BY <1>2, <1>4, <1>5, <1>6, SeqEqual
<1>. QED  BY <1>3, <1>7 DEF q, q2, n

\* Steps that no packet notices.
LEMMA Unnoticed ==
  ASSUME Inv, Inv', UNCHANGED <<sent, received, ends>>,
         phase' = "ended" <=> phase = "ended"
  PROVE  UNCHANGED Packets!connectionVars
<1>1. UNCHANGED InTransit
  <2>1. CASE phase = "ended"
    <3>1. InTransit = [p \in Peer |-> <<>>] /\ InTransit' = [p \in Peer |-> <<>>]
      BY <2>1, Transit, TransitNext
    <3>. QED  BY <3>1
  <2>2. CASE phase # "ended"
    <3>. DEFINE q == SubSeq(sent, Len(received) + 1, Len(sent))
    <3>1. InTransit = [p \in Peer |-> IF p = To THEN q ELSE <<>>]
      BY <2>2, Transit
    <3>2. InTransit' = [p \in Peer |-> IF p = To THEN q' ELSE <<>>]
      BY <2>2, TransitNext
    <3>. QED  BY <3>1, <3>2
  <2>. QED  BY <2>1, <2>2
<1>. QED
  BY <1>1 DEF Packets!connectionVars, Packets!transportVars

LEMMA DeliverStep ==
  ASSUME Inv, Inv', NEW n \in SomeBytes, SendSome(n)
  PROVE  [Packets!ConnectionNext]_Packets!connectionVars
<1>1. /\ phase # "ended" /\ phase' # "ended" /\ Sendable /\ current # <<>>
      /\ UNCHANGED <<ends, received>> /\ (phase' = "ended" <=> phase = "ended")
  BY DEF SendSome, Advance, Inv, Over, Sendable, receiverVars
<1>2. CASE UNCHANGED sent
  BY <1>1, <1>2, Unnoticed
<1>3. CASE sent' = Append(sent, current[1])
  <2>. DEFINE q == SubSeq(sent, Len(received) + 1, Len(sent))
              pkt == current[1]
  <2>1. /\ sent \in Seq(Offered) /\ received \in Seq(RawPacket)
        /\ pkt \in Offered /\ Len(received) <= Len(sent)
        /\ Len(stream) \in Nat /\ n \in Nat /\ n > 0
        /\ Len(stream) + n <= BufBytes /\ BufBytes \in Nat
    BY <1>1, StreamAssumption
       DEF Inv, TypeOK, ReceivedIsSent, SomeBytes, SendSome
  <2>2. Len(sent') = Len(sent) + 1
    BY <1>3, <2>1
  <2>3. SubSeq(sent', Len(received') + 1, Len(sent')) = Append(q, pkt)
    <3>1. SubSeq(Append(sent, pkt), Len(received) + 1, Len(sent) + 1)
            = Append(SubSeq(sent, Len(received) + 1, Len(sent)), pkt)
      <4>1. Len(received) \in Nat
        BY <2>1
      <4>. HIDE DEF pkt
      <4>2. ASSUME NEW r \in Nat, r <= Len(sent)
            PROVE  SubSeq(Append(sent, pkt), r + 1, Len(sent) + 1)
                     = Append(SubSeq(sent, r + 1, Len(sent)), pkt)
        BY <2>1, <4>2, QueueGains
      <4>. QED  BY <2>1, <4>1, <4>2
    <3>. QED  BY <1>1, <1>3, <2>2, <3>1
  <2>4. Len(q) < BufBytes
    <3>1. Len(q) + Len(received) = Len(sent) /\ Len(q) \in Nat
      BY <2>1, QueuePart
    <3>2. Len(sent) <= Len(received) + Len(stream)
      BY <1>1, InTransitFits
    <3>. QED  BY <2>1, <3>1, <3>2
  <2>5. InTransit = [p \in Peer |-> IF p = To THEN q ELSE <<>>]
    BY <1>1, Transit
  <2>6. InTransit' = [p \in Peer |-> IF p = To THEN Append(q, pkt) ELSE <<>>]
    BY <1>1, <2>3, TransitNext
  <2>. HIDE DEF q, pkt
  <2>7. InTransit' = [InTransit EXCEPT ![To] = Append(@, pkt)]
    BY <2>5, <2>6, Peers
  <2>8. Packets!Delivered(From, pkt)
    <3>1. Packets!Writable(From) /\ ~Packets!PeerGone(From)
      BY <1>1, Peers DEF Sendable, Packets!Writable, Packets!PeerGone,
                         Packets!Other, Other, Packets!Server, Packets!Client,
                         Server, Client
    <3>2. Packets!Other(From) = To
      BY Peers DEF Packets!Other, Other, Packets!Server, Packets!Client,
                   Server, Client
    <3>3. Len(InTransit[To]) < BufBytes
      BY <2>4, <2>5, Peers
    <3>. QED  BY <2>7, <3>1, <3>2, <3>3 DEF Packets!Delivered
  <2>9. Packets!Deliver
    BY <1>1, <2>1, <2>8 DEF Packets!Deliver
  <2>. QED  BY <2>9 DEF Packets!ConnectionNext
<1>. QED  BY <1>2, <1>3 DEF SendSome, Advance

LEMMA TakeStep ==
  ASSUME Inv, Inv', NEW n \in SomeBytes, RecvSome(n)
  PROVE  [Packets!ConnectionNext]_Packets!connectionVars
<1>. DEFINE q == SubSeq(sent, Len(received) + 1, Len(sent))
            x == CombinePacket(header, DeserializeBodyPacket(
                   Filled(buffer \o SubSeq(stream, 1, n)), header))
<1>1. /\ phase # "ended" /\ phase' # "ended" /\ UNCHANGED <<sent, ends>>
      /\ (phase' = "ended" <=> phase = "ended")
      /\ received' = received \/ received' = Append(received, x)
  BY DEF RecvSome, Reads, Complete, senderVars
<1>2. CASE received' = received
  BY <1>1, <1>2, Unnoticed
<1>3. CASE received' = Append(received, x)
  <2>1. /\ sent \in Seq(Offered) /\ received \in Seq(RawPacket)
        /\ Len(received) \in Nat
    BY DEF Inv, TypeOK
  <2>2. Len(received') = Len(received) + 1
    BY <1>3, <2>1
  <2>3. Len(received) < Len(sent)
    <3>1. Len(received') <= Len(sent')
      BY DEF Inv, ReceivedIsSent
    <3>2. Len(sent) \in Nat
      BY <2>1
    <3>. QED  BY <1>1, <2>1, <2>2, <3>1, <3>2
  <2>4. q # <<>> /\ SubSeq(sent, (Len(received) + 1) + 1, Len(sent)) = Tail(q)
    BY <2>1, <2>3, QueueLoses
  <2>5. InTransit = [p \in Peer |-> IF p = To THEN q ELSE <<>>]
    BY <1>1, Transit
  <2>6. InTransit' = [p \in Peer |-> IF p = To THEN Tail(q) ELSE <<>>]
    BY <1>1, <2>2, <2>4, TransitNext
  <2>. HIDE DEF q
  <2>7. InTransit[To] # <<>> /\ InTransit' = [InTransit EXCEPT ![To] = Tail(@)]
    BY <2>4, <2>5, <2>6, Peers
  <2>8. Packets!Other(From) = To
    BY Peers DEF Packets!Other, Other, Packets!Server, Packets!Client,
                 Server, Client
  <2>9. Packets!Take
    BY <1>1, <2>2, <2>7, <2>8 DEF Packets!Take, Packets!Takes
  <2>. QED  BY <2>9 DEF Packets!ConnectionNext
<1>. QED  BY <1>1, <1>2, <1>3

\* The receive thread ends when nothing is on its way, or because of the RST;
\* or its process ends.
LEMMA EndStep ==
  ASSUME Inv, Inv', RecvEnd \/ RecvReset \/ ReceiverCloses
  PROVE  [Packets!ConnectionNext]_Packets!connectionVars
<1>. DEFINE none == [p \in Peer |-> <<>>]
<1>1. phase' = "ended" /\ UNCHANGED <<sent, received>>
  BY DEF RecvEnd, RecvReset, ReceiverCloses, senderVars
<1>2. /\ InTransit' = none
      /\ InTransit \in [Peer -> Seq(Offered)] /\ InTransit[From] = <<>>
  BY <1>1, Transit, TransitNext
<1>3. InTransit' = [InTransit EXCEPT ![To] = <<>>]
  BY <1>2, Peers
<1>4. /\ Packets!Other(From) = To /\ Packets!Other(To) = From
      /\ Packets!Client = Client /\ Packets!Peer = Peer
  BY Peers DEF Packets!Other, Other, Packets!Server, Packets!Client,
               Packets!Peer, Peer, Server, Client
<1>5. ends \in [Peer -> {"open", "wrShut", "rdShut", "closed"}]
  BY DEF Inv, TypeOK
<1>6. CASE RecvEnd
  <2>1. InTransit = none
    <3>1. phase # "ended" /\ Len(stream) = 0 /\ sent \in Seq(Offered)
          /\ received \in Seq(RawPacket)
      BY <1>6 DEF RecvEnd, Reads, Inv, TypeOK
    <3>2. Len(sent) <= Len(received) + Len(stream)
      BY <3>1, InTransitFits
    <3>3. SubSeq(sent, Len(received) + 1, Len(sent)) = <<>>
      BY <3>1, <3>2
    <3>. QED  BY <3>1, <3>3, Transit
  <2>2. CASE To = Client
    <3>1. Packets!EndOfStream(To)
      BY <1>4, <1>6, <2>1, Peers DEF RecvEnd, Reads, Packets!EndOfStream
    <3>2. Packets!Shutdown(Client, "rdShut")
      BY <1>5, <1>6, <2>2 DEF RecvEnd, Reads, Packets!Shutdown
    <3>3. Packets!SeeEnd
      BY <1>1, <1>2, <1>4, <2>1, <2>2, <3>1, <3>2 DEF Packets!SeeEnd
    <3>. QED  BY <3>3 DEF Packets!ConnectionNext
  <2>3. CASE To # Client
    <3>1. UNCHANGED ends
      BY <1>5, <1>6, <2>3 DEF RecvEnd
    <3>. QED
      BY <1>1, <1>2, <2>1, <3>1
         DEF Packets!connectionVars, Packets!transportVars
  <2>. QED  BY <2>2, <2>3
<1>7. CASE RecvReset
  <2>1. Packets!ConnectionReset(To)
    BY <1>4, <1>7 DEF RecvReset, Reads, Packets!ConnectionReset, Packets!PeerGone
  <2>2. Packets!SeeReset
    BY <1>1, <1>3, <1>4, <1>7, <2>1 DEF RecvReset, Packets!SeeReset
  <2>. QED  BY <2>2 DEF Packets!ConnectionNext
<1>8. CASE ReceiverCloses
  <2>1. Packets!Close(To)
    BY <1>3, <1>8 DEF ReceiverCloses, Packets!Close
  <2>2. Packets!Vanish
    BY <1>1, <1>4, <2>1, Peers DEF Packets!Vanish
  <2>. QED  BY <2>2 DEF Packets!ConnectionNext
<1>. QED  BY <1>6, <1>7, <1>8

LEMMA SenderStep ==
  ASSUME Inv, Inv',
         \/ \E pkt \in Offered : StartPacket(pkt)
         \/ SendInVain \/ SendFails \/ StopSending \/ SenderCloses
  PROVE  [Packets!ConnectionNext]_Packets!connectionVars
<1>1. UNCHANGED <<sent, received, phase>>
  BY DEF StartPacket, SendInVain, SendFails, StopSending, SenderCloses,
         senderVars, receiverVars
<1>2. CASE UNCHANGED ends
  BY <1>1, <1>2, Unnoticed
<1>3. UNCHANGED InTransit
  <2>. DEFINE q == SubSeq(sent, Len(received) + 1, Len(sent))
  <2>1. CASE phase = "ended"
    BY <1>1, <2>1, Transit, TransitNext
  <2>2. CASE phase # "ended"
    <3>1. InTransit = [p \in Peer |-> IF p = To THEN q ELSE <<>>]
      BY <2>2, Transit
    <3>2. InTransit' = [p \in Peer |-> IF p = To THEN q' ELSE <<>>]
      BY <1>1, <2>2, TransitNext
    <3>. QED  BY <1>1, <3>1, <3>2
  <2>. QED  BY <2>1, <2>2
<1>4. InTransit' = [InTransit EXCEPT ![From] = <<>>]
  <2>1. InTransit \in [Peer -> Seq(Offered)] /\ InTransit[From] = <<>>
    BY Transit
  <2>. QED  BY <1>3, <2>1
<1>5. CASE StopSending
  <2>1. Packets!Shutdown(From, "wrShut")
    BY <1>5 DEF StopSending, Packets!Shutdown
  <2>2. Packets!StopSending
    BY <1>1, <1>3, <2>1 DEF Packets!StopSending
  <2>. QED  BY <2>2 DEF Packets!ConnectionNext
<1>6. CASE SenderCloses
  <2>1. Packets!Close(From)
    BY <1>4, <1>6 DEF SenderCloses, Packets!Close
  <2>2. From \in Packets!Peer
    BY Peers DEF Packets!Peer, Packets!Server, Packets!Client, Peer, Server,
                 Client
  <2>3. Packets!Vanish
    BY <1>1, <2>1, <2>2 DEF Packets!Vanish
  <2>. QED  BY <2>3 DEF Packets!ConnectionNext
<1>. QED
  BY <1>2, <1>5, <1>6 DEF StartPacket, SendInVain, SendFails

\* What Transport says of SendPacket, RecievePacket, shutdown and close, whole
\* packet by whole packet, is what the loops over send and recv do.
THEOREM BytesAreAConnection == Spec => PacketsAreWhole
<1>1. Init => Packets!ConnectionInit
  <2>. SUFFICES ASSUME Init PROVE Packets!ConnectionInit
    OBVIOUS
  <2>1. sent = <<>> /\ received = <<>> /\ Len(<<>>) = 0
    BY DEF Init
  <2>2. SubSeq(sent, Len(received) + 1, Len(sent)) = <<>>
    BY <2>1
  <2>3. InTransit = [p \in Peer |-> <<>>]
    BY <2>2 DEF InTransit
  <2>4. Packets!Peer = Peer
    BY DEF Packets!Peer, Packets!Server, Packets!Client, Peer, Server, Client
  <2>. QED
    BY <2>1, <2>3, <2>4
       DEF Init, Packets!ConnectionInit, Packets!TransportInit
<1>2. Inv /\ Inv' /\ [Next]_vars
        => [Packets!ConnectionNext]_Packets!connectionVars
  <2>. SUFFICES ASSUME Inv, Inv', [Next]_vars
                PROVE  [Packets!ConnectionNext]_Packets!connectionVars
    OBVIOUS
  <2>1. CASE \E n \in SomeBytes : SendSome(n)
    BY <2>1, DeliverStep
  <2>2. CASE \E n \in SomeBytes : RecvSome(n)
    BY <2>2, TakeStep
  <2>3. CASE UNCHANGED vars
    BY <2>3, Unnoticed DEF vars, senderVars, receiverVars
  <2>4. CASE Answered
    BY <2>4, Unnoticed DEF Answered, senderVars
  <2>. QED  BY <2>1, <2>2, <2>3, <2>4, SenderStep, EndStep DEF Next
<1>. QED
  BY <1>1, <1>2, InitInv, NextInv, PTL
     DEF Spec, PacketsAreWhole, Packets!ConnectionSpec

=============================================================================
