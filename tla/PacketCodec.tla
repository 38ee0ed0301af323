----------------------------- MODULE PacketCodec -----------------------------
(***************************************************************************)
(* Datagrams of pkg/network: parsing and serialising (packet.go) and the   *)
(* Internet checksum (checksum.go).                                        *)
(*                                                                         *)
(* Positions count from 1.  A 32-bit field of TCP stays the four bytes it  *)
(* is.  No sum of the words of a datagram reaches 2^32, so that the        *)
(* uint32 of the code is a natural number here.                            *)
(***************************************************************************)
EXTENDS ConnectionID

ICMP == 1
TCP == 6
UDP == 17

(* An index or a slice out of range.                                        *)
Panic == [panic |-> TRUE]

Drop(bytes, n) == SubSeq(bytes, n + 1, Len(bytes))

(* copy into a slice of n zero bytes                                        *)
Fit(bytes, n) == [i \in 1..n |-> IF i <= Len(bytes) THEN bytes[i] ELSE 0]

Overwrite(bytes, at, with) ==
    [i \in 1..Len(bytes) |-> IF i \in at..(at + Len(with) - 1) THEN with[i - at + 1] ELSE bytes[i]]

-----------------------------------------------------------------------------
(***************************************************************************)
(* Checksums.                                                              *)
(***************************************************************************)
(* Bytes at odd positions are the high ones, also a last one on its own.    *)
WordSum(data) ==
    LET sum[i \in 0..Len(data)] ==
            IF i = 0 THEN 0
            ELSE sum[i - 1] + (IF i % 2 = 1 THEN 256 * data[i] ELSE data[i])
    IN  sum[Len(data)]

(* One round of the loop that folds the carry; no uint32 needs a third.     *)
FoldOnce(sum) == IF sum > 65535 THEN (sum % 65536) + (sum \div 65536) ELSE sum

BugFoldOnce(sum) == FoldOnce(sum)

FoldCarry(sum) == FoldOnce(FoldOnce(sum))

CalculateChecksum(data) == 65535 - FoldCarry(WordSum(data))

CalculateIPChecksum(header) == CalculateChecksum(Overwrite(header, 11, <<0, 0>>))

PseudoHeader(srcIP, dstIP, protocol, length) ==
    Fit(To4(srcIP), 4) \o Fit(To4(dstIP), 4) \o <<0, protocol>> \o PutUint16(length % 65536)

BugKeepOldChecksum(srcIP, dstIP, segment) ==
    CalculateChecksum(PseudoHeader(srcIP, dstIP, TCP, Len(segment)) \o segment)

(* Both index the checksum field of the segment, whether it is there or not. *)
CalculateTCPChecksum(srcIP, dstIP, segment) ==
    IF Len(segment) < 18 THEN Panic
    ELSE CalculateChecksum(PseudoHeader(srcIP, dstIP, TCP, Len(segment))
                           \o Overwrite(segment, 17, <<0, 0>>))

CalculateUDPChecksum(srcIP, dstIP, segment) ==
    LET checksum == CalculateChecksum(PseudoHeader(srcIP, dstIP, UDP, Len(segment))
                                      \o Overwrite(segment, 7, <<0, 0>>))
    IN  IF Len(segment) < 8 THEN Panic ELSE IF checksum = 0 THEN 65535 ELSE checksum

-----------------------------------------------------------------------------
(***************************************************************************)
(* IP packets.                                                             *)
(***************************************************************************)
Error == [err |-> TRUE]

BugNoTrim(data) ==
    LET headerLen == 4 * (data[1] % 16)
        flagsAndOffset == Uint16(data, 7)
    IN  IF Len(data) < 20 \/ data[1] \div 16 # 4 \/ Len(data) < headerLen THEN Error
        ELSE [Version |-> 4, HeaderLen |-> headerLen, TOS |-> data[2],
              TotalLen |-> Uint16(data, 3), ID |-> Uint16(data, 5),
              Flags |-> flagsAndOffset \div 8192, FragOffset |-> flagsAndOffset % 8192,
              TTL |-> data[9], Protocol |-> data[10], Checksum |-> Uint16(data, 11),
              SrcIP |-> SubSeq(data, 13, 16), DstIP |-> SubSeq(data, 17, 20),
              Options |-> SubSeq(data, 21, headerLen), Payload |-> Drop(data, headerLen)]

(* A packet may claim to be longer than the data, which then are all of it, *)
(* but not shorter than its header.                                         *)
ParseIPPacket(data) ==
    LET headerLen == 4 * (data[1] % 16)
        totalLen == Uint16(data, 3)
        flagsAndOffset == Uint16(data, 7)
    IN  IF Len(data) < 20 \/ data[1] \div 16 # 4 \/ Len(data) < headerLen THEN Error
        ELSE IF totalLen <= Len(data) /\ totalLen < headerLen THEN Panic
        ELSE [Version    |-> data[1] \div 16,
              HeaderLen  |-> headerLen,
              TOS        |-> data[2],
              TotalLen   |-> totalLen,
              ID         |-> Uint16(data, 5),
              Flags      |-> flagsAndOffset \div 8192,
              FragOffset |-> flagsAndOffset % 8192,
              TTL        |-> data[9],
              Protocol   |-> data[10],
              Checksum   |-> Uint16(data, 11),
              SrcIP      |-> SubSeq(data, 13, 16),
              DstIP      |-> SubSeq(data, 17, 20),
              Options    |-> SubSeq(data, 21, headerLen),
              Payload    |-> SubSeq(data, headerLen + 1,
                                    IF totalLen <= Len(data) THEN totalLen ELSE Len(data))]

(* The header as bytes, with a length and a checksum given.                 *)
Header(p, totalLen, checksum) ==
    <<((16 * p.Version) % 256) + (p.HeaderLen \div 4), p.TOS>>
        \o PutUint16(totalLen % 65536)
        \o PutUint16(p.ID)
        \o PutUint16(((8192 * p.Flags) % 65536) + (p.FragOffset % 8192))
        \o <<p.TTL, p.Protocol>>
        \o PutUint16(checksum)
        \o Fit(To4(p.SrcIP), 4) \o Fit(To4(p.DstIP), 4)
        \o Fit(p.Options, p.HeaderLen - 20)

Serialize(p) == Header(p, p.HeaderLen + Len(p.Payload), p.Checksum) \o p.Payload

RecalculateIPChecksum(p) ==
    [p EXCEPT !.Checksum = CalculateIPChecksum(Header(p, p.TotalLen, 0))]

(* Both put the checksum of the segment into the field of the IP header.    *)
RecalculateTCPChecksum(p) ==
    IF p.Protocol # TCP THEN p
    ELSE IF Len(p.Payload) < 18 THEN Panic
    ELSE [p EXCEPT !.Checksum = CalculateTCPChecksum(p.SrcIP, p.DstIP, p.Payload)]

RecalculateUDPChecksum(p) ==
    IF p.Protocol # UDP THEN p
    ELSE IF Len(p.Payload) < 8 THEN Panic
    ELSE [p EXCEPT !.Checksum = CalculateUDPChecksum(p.SrcIP, p.DstIP, p.Payload)]

RecalculateTransportChecksum(p) ==
    IF p.Protocol = TCP THEN RecalculateTCPChecksum(p) ELSE RecalculateUDPChecksum(p)

BugIPFirst(p) == RecalculateTransportChecksum(RecalculateIPChecksum(p))

RecalculateChecksums(p) ==
    IF RecalculateTransportChecksum(p) = Panic THEN Panic
    ELSE RecalculateIPChecksum(RecalculateTransportChecksum(p))

NewConnectionTupleFromPacket(p) ==
    IF p.Protocol \notin {TCP, UDP} \/ Len(p.Payload) < 4 THEN Error
    ELSE [SrcIP |-> p.SrcIP, SrcPort |-> Uint16(p.Payload, 1),
          DstIP |-> p.DstIP, DstPort |-> Uint16(p.Payload, 3)]

GenerateConnectionIDFromPacket(p) ==
    IF NewConnectionTupleFromPacket(p) = Error THEN None
    ELSE GenerateConnectionIDFromTuple(NewConnectionTupleFromPacket(p))

-----------------------------------------------------------------------------
(***************************************************************************)
(* TCP segments.                                                           *)
(***************************************************************************)
ParseTCPPacket(payload) ==
    LET offset == 4 * (payload[13] \div 16)
    IN  IF Len(payload) < 20 \/ (offset > 20 /\ Len(payload) < offset) THEN Error
        ELSE [SrcPort    |-> Uint16(payload, 1),
              DstPort    |-> Uint16(payload, 3),
              SeqNum     |-> SubSeq(payload, 5, 8),
              AckNum     |-> SubSeq(payload, 9, 12),
              DataOffset |-> offset,
              Flags      |-> payload[14] % 64,
              Window     |-> Uint16(payload, 15),
              Checksum   |-> Uint16(payload, 17),
              Urgent     |-> Uint16(payload, 19),
              Options    |-> SubSeq(payload, 21, offset),
              Payload    |-> Drop(payload, offset)]

SerializeTCP(t) ==
    PutUint16(t.SrcPort) \o PutUint16(t.DstPort) \o t.SeqNum \o t.AckNum
        \o <<16 * (t.DataOffset \div 4), t.Flags>>
        \o PutUint16(t.Window) \o PutUint16(t.Checksum) \o PutUint16(t.Urgent)
        \o Fit(t.Options, t.DataOffset - 20)
        \o t.Payload

=============================================================================
