-------------------------------- MODULE Codec -------------------------------
(***************************************************************************)
(* The bytes of a packet and of the metadata of a file (CommunMod.cpp): a  *)
(* packet is its type, the length of its body in network byte order, the   *)
(* body and the control byte; metadata is a size, the length of a name and *)
(* the name, with both numbers as they lie in the memory of the sender.    *)
(* A byte is a number below Base, 256 in the program.                      *)
(***************************************************************************)
EXTENDS Integers, Sequences

CONSTANT Base
ASSUME BaseAssumption == Base \in Nat \ {0, 1}

Byte == 0 .. Base - 1

\* The numbers that fit in 4 bytes (uint32_t); a number of 8 bytes (uint64_t)
\* is the pair of its halves, the high one first.
Word == 0 .. Base * Base * Base * Base - 1
LongWord == Word \X Word

\* A sequence of bytes as a number, most significant byte first.
Big4(b) == ((b[1] * Base + b[2]) * Base + b[3]) * Base + b[4]

\* The 4 bytes of a number, most significant byte first.
Digits4(n) ==
  LET n1 == n \div Base
      n2 == n1 \div Base
      n3 == n2 \div Base
  IN  << n3, n2 % Base, n1 % Base, n % Base >>

Flip(s) == [i \in 1 .. Len(s) |-> s[Len(s) + 1 - i]]

\* How a host of the given byte order keeps a number in memory, and reads it.
Order == {"big", "little"}
Memory4(order, n) == IF order = "big" THEN Digits4(n) ELSE Flip(Digits4(n))
Value4(order, b) == Big4(IF order = "big" THEN b ELSE Flip(b))

\* The same for 8 bytes.
Digits8(n) == Digits4(n[1]) \o Digits4(n[2])
Big8(b) == << Big4(SubSeq(b, 1, 4)), Big4(SubSeq(b, 5, 8)) >>
Memory8(order, n) == IF order = "big" THEN Digits8(n) ELSE Flip(Digits8(n))
Value8(order, b) == Big8(IF order = "big" THEN b ELSE Flip(b))

-----------------------------------------------------------------------------
(***************************************************************************)
(* Packets.  htonl and ntohl make the length on the wire big-endian on     *)
(* every host.                                                             *)
(***************************************************************************)
RawPacket == [type : Byte, body : Seq(Byte), ctl : Byte]

SerializePacket(data) ==
  <<data.type>> \o Memory4("big", Len(data.body)) \o data.body \o <<data.ctl>>

HeaderLen == 5

DeserializeHeaderPacket(hdrbuff) ==
  [type |-> hdrbuff[1], len |-> Value4("big", SubSeq(hdrbuff, 2, HeaderLen))]

\* Mutant of BytesToRecieve: the type byte is counted again.
PastTheEnd(hdr) == hdr.len + 2

\* How much the receive threads read after a header: the body and PL_CTL.
BytesToRecieve(hdr) == hdr.len + 1

DeserializeBodyPacket(buff, hdr) ==
  [body |-> SubSeq(buff, 1, hdr.len), ctl |-> buff[hdr.len + 1]]

CombinePacket(hdr, body) ==
  [type |-> hdr.type, body |-> body.body, ctl |-> body.ctl]

-----------------------------------------------------------------------------
(***************************************************************************)
(* The metadata of a file, written by one host and read by another.        *)
(***************************************************************************)
Metadata == [FileSize : LongWord, FileName : Seq(Byte)]

\* Mutant of SerializeFileMetadataPacket: the size goes through htonl.
SerializeNetworkSize(order, meta) ==
  Memory8("big", meta.FileSize) \o Memory4(order, Len(meta.FileName))
    \o meta.FileName

SerializeFileMetadataPacket(order, meta) ==
  Memory8(order, meta.FileSize) \o Memory4(order, Len(meta.FileName))
    \o meta.FileName

DeserializeFileMetadataPacket(order, buff) ==
  LET NameLen == Value4(order, SubSeq(buff, 9, 12))
  IN  [FileSize |-> Value8(order, SubSeq(buff, 1, 8)),
       FileName |-> SubSeq(buff, 13, 12 + NameLen)]
=============================================================================
