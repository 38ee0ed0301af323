------------------------------- MODULE Network -------------------------------
(***************************************************************************)
(* Datagrams of one connection in the hands of pkg/network: what is read   *)
(* off the wire, what callers do to a packet in between, and what goes     *)
(* onto the wire again.  The connection is one an application made and     *)
(* netfilter redirected, so that it has an ID from the client's handler,   *)
(* and one from each of its datagrams.                                     *)
(*                                                                         *)
(* A packet is one step of its caller at a time, since it is nobody        *)
(* else's.  Operators named Bug... are plausible mistakes in the           *)
(* definition that follows them; no specification here uses them.          *)
(***************************************************************************)
EXTENDS PacketCodec

CONSTANTS
    Connections,  \* what applications may connect: source and destination
    Texts,        \* what they may send
    OptionLists,  \* IP options, in multiples of four bytes
    Marks,        \* of a TCP header: the four bits after the data offset (NS is
                  \* one of them) and the byte of flags (CWR and ECE its highest)
    Fragments,    \* the word of flags and fragment offset
    TTLs

ASSUME NetworkAssumption ==
    /\ LittleEndian \in BOOLEAN
    /\ \A c \in Connections :
        /\ c \in [SrcIP : Seq(Byte), SrcPort : Word, DstIP : Seq(Byte), DstPort : Word]
        /\ Len(c.SrcIP) = Len(c.DstIP) /\ Len(c.SrcIP) \in {4, 16}
        /\ Len(c.SrcIP) = 16 => To4(c.SrcIP) = None   \* or it is one of IPv4
    /\ Texts \subseteq Seq(Byte) /\ OptionLists \subseteq Seq(Byte)
    /\ \A t \in Texts : Len(t) + 84 <= TopWord   \* a datagram holds it with both headers
    /\ \A o \in OptionLists : Len(o) % 4 = 0 /\ Len(o) <= 40
    /\ Marks \subseteq (0..15) \X Byte
    /\ Fragments \subseteq Word /\ TTLs \subseteq Byte

VARIABLES
    conn,    \* the connection
    wire,    \* a datagram of it that has been sent, or None
    pkt,     \* a datagram of it as a packet, or Error
    \* history
    sealed,  \* the header is as it was when its checksum was calculated, but for
             \* its length if that was not set
    summed   \* the segment is as it was when its checksum was stored

vars == <<conn, wire, pkt, sealed, summed>>

-----------------------------------------------------------------------------
(***************************************************************************)
(* The environment: datagrams as RFC 791, 793 and 768 lay them out.  The   *)
(* checksums are left to the network card.                                 *)
(***************************************************************************)
Segment(ft, protocol, marks, text) ==
    LET ports == PutUint16(ft.SrcPort) \o PutUint16(ft.DstPort)
    IN  CASE protocol = TCP -> ports \o <<0, 1, 2, 255, 255, 254, 1, 0>>
                                     \o <<96 + marks[1], marks[2], 2, 1>>
                                     \o <<0, 0, 0, 7, 1, 3, 3, 7>> \o text
          [] protocol = UDP -> ports \o PutUint16(8 + Len(text)) \o <<0, 0>> \o text
          [] protocol = ICMP -> <<8, 0, 0, 0>> \o text

Datagram(ft, protocol, marks, options, fragment, ttl, text) ==
    LET payload == IF fragment % 8192 # 0 THEN text ELSE Segment(ft, protocol, marks, text)
        headerLen == 20 + Len(options)
    IN  IF Len(ft.SrcIP) = 16 THEN Zeros(40)
        ELSE <<64 + (headerLen \div 4), 0>> \o PutUint16(headerLen + Len(payload))
                \o <<1, 2>> \o PutUint16(fragment) \o <<ttl, protocol>> \o <<0, 0>>
                \o ft.SrcIP \o ft.DstIP \o options \o payload

NatOf(ft) ==
    [family |-> IF Len(ft.DstIP) = 4 THEN "ip4" ELSE "ip6", ip |-> ft.DstIP, port |-> ft.DstPort]

HandlerOf(ft) == HandlerID(ft.SrcIP, ft.SrcPort, NatOf(ft))

-----------------------------------------------------------------------------
(* The length that Serialize writes, whatever TotalLen is.                  *)
SentLen(p) == p.HeaderLen + Len(p.Payload)

TextAt(protocol) == IF protocol = TCP THEN 24 ELSE 8   \* how long a segment's header is
TransportAt(p) == IF p.Protocol = TCP THEN 17 ELSE 7   \* where a segment has its checksum
FirstFragment(p) == p.FragOffset = 0 /\ p.Protocol \in {TCP, UDP}

Init ==
    /\ conn \in Connections
    /\ wire = None
    /\ pkt = Error
    /\ sealed = FALSE
    /\ summed = FALSE

Arrive ==
    /\ wire = None /\ pkt = Error
    /\ \E ft \in {conn, Reverse(conn)}, protocol \in {TCP, UDP, ICMP}, marks \in Marks,
          options \in OptionLists, fragment \in Fragments, ttl \in TTLs, text \in Texts :
            wire' = Datagram(ft, protocol, marks, options, fragment, ttl, text)
    /\ sealed' = FALSE /\ summed' = FALSE
    /\ UNCHANGED <<conn, pkt>>

(* A frame may have been padded to its least length, or the capture has cut *)
(* it somewhere in its text.                                                *)
Parse ==
    /\ wire # None
    /\ \/ /\ \E pad \in {0, 6} : pkt' = ParseIPPacket(wire \o Zeros(pad))
          /\ UNCHANGED summed
       \/ /\ \E n \in 4 * (wire[1] % 16) + TextAt(wire[10]) .. Len(wire) - 1 :
                pkt' = ParseIPPacket(SubSeq(wire, 1, n))
          /\ summed' = FALSE
    /\ wire' = None
    /\ UNCHANGED <<conn, sealed>>

Send ==
    /\ pkt # Error
    /\ wire' = Serialize(pkt)
    /\ pkt' = Error
    /\ sealed' = (sealed /\ pkt.TotalLen = SentLen(pkt))
    /\ UNCHANGED <<conn, summed>>

SetTTL(ttl) ==
    /\ pkt # Error
    /\ pkt' = [pkt EXCEPT !.TTL = ttl]
    /\ sealed' = FALSE
    /\ UNCHANGED <<conn, wire, summed>>

(* A caller that gives a packet another text may forget its length.         *)
SetText(text, length) ==
    /\ pkt # Error /\ FirstFragment(pkt)
    /\ LET p == [pkt EXCEPT !.Payload = SubSeq(@, 1, TextAt(pkt.Protocol)) \o text]
       IN  pkt' = IF length THEN [p EXCEPT !.TotalLen = SentLen(p)] ELSE p
    /\ sealed' = FALSE /\ summed' = FALSE
    /\ UNCHANGED <<conn, wire>>

(* The checksum of a segment needs a whole one: the code does not look      *)
(* whether the field is there.                                              *)
RecalculateHeader ==
    /\ pkt # Error
    /\ \/ pkt' = RecalculateIPChecksum(pkt)
       \/ /\ FirstFragment(pkt) \/ pkt.Protocol = ICMP
          /\ pkt' = RecalculateChecksums(pkt)
    /\ sealed' = TRUE
    /\ UNCHANGED <<conn, wire, summed>>

(* RecalculateTCPChecksum or RecalculateUDPChecksum without the other half  *)
RecalculateTransport ==
    /\ pkt # Error /\ FirstFragment(pkt)
    /\ pkt' \in {RecalculateTCPChecksum(pkt), RecalculateUDPChecksum(pkt)}
    /\ sealed' = (sealed /\ pkt' = pkt)
    /\ UNCHANGED <<conn, wire, summed>>

(* The caller puts the checksum where the segment has it.                   *)
StoreTransportChecksum ==
    /\ pkt # Error /\ FirstFragment(pkt)
    /\ LET checksum == IF pkt.Protocol = TCP
                       THEN CalculateTCPChecksum(pkt.SrcIP, pkt.DstIP, pkt.Payload)
                       ELSE CalculateUDPChecksum(pkt.SrcIP, pkt.DstIP, pkt.Payload)
       IN  pkt' = [pkt EXCEPT !.Payload = Overwrite(@, TransportAt(pkt), PutUint16(checksum))]
    /\ summed' = TRUE
    /\ UNCHANGED <<conn, wire, sealed>>

Next ==
    \/ Arrive \/ Parse \/ Send
    \/ \E ttl \in TTLs : SetTTL(ttl)
    \/ \E text \in Texts, length \in BOOLEAN : SetText(text, length)
    \/ RecalculateHeader \/ RecalculateTransport \/ StoreTransportChecksum

Spec == Init /\ [][Next]_vars

-----------------------------------------------------------------------------
(***************************************************************************)
(* Properties.                                                             *)
(***************************************************************************)
Packets ==
    [Version : {4}, HeaderLen : 20..60, TOS : Byte, TotalLen : Word, ID : Word, Flags : 0..7,
     FragOffset : 0..8191, TTL : Byte, Protocol : Byte, Checksum : Word,
     SrcIP : Seq(Byte), DstIP : Seq(Byte), Options : Seq(Byte), Payload : Seq(Byte)]

(* Every field fits the width the code gives it.                            *)
TypeOK ==
    /\ conn \in Connections
    /\ wire \in Seq(Byte)
    /\ pkt # Error => pkt \in Packets
    /\ sealed \in BOOLEAN /\ summed \in BOOLEAN

(* The sum a receiver takes over 16-bit words, a last odd byte padded.      *)
ReceiverSum(bytes) ==
    LET words == (Len(bytes) + 1) \div 2
        sum[n \in 0..words] ==
            IF n = 0 THEN 0 ELSE sum[n - 1] + Uint16(bytes \o <<0>>, 2 * n - 1)
    IN  sum[words]

Verifies(bytes) == ReceiverSum(bytes) % 65535 = 0

(* A receiver accepts the header of a packet that goes out as it was when   *)
(* RecalculateIPChecksum or RecalculateChecksums last ran if its TotalLen   *)
(* is set, and never if it is stale: those sum the field (checksum.go:116), *)
(* while Serialize sends the real length.  This holds whatever the checksum *)
(* field held before (both transport checksums pass through it) and however *)
(* often the packet was parsed and serialised since.                        *)
HeaderVerifies ==
    sealed /\ pkt # Error =>
        (Verifies(SubSeq(Serialize(pkt), 1, pkt.HeaderLen)) <=> pkt.TotalLen = SentLen(pkt))

(* A receiver accepts a segment whose checksum CalculateTCPChecksum or      *)
(* CalculateUDPChecksum gave, of odd length too; a UDP checksum is never 0, *)
(* which would mean that there is none.                                     *)
SegmentVerifies ==
    summed /\ pkt # Error =>
        /\ Verifies(pkt.SrcIP \o pkt.DstIP \o <<0, pkt.Protocol>>
                    \o PutUint16(Len(pkt.Payload)) \o pkt.Payload)
        /\ pkt.Protocol = UDP => Uint16(pkt.Payload, 7) # 0

(* A packet serialised and parsed again, though the frame may have been     *)
(* padded on the way, is the same packet but for a stale length, which is   *)
(* set right: nothing tells then that a frame was cut.  A TCP segment loses *)
(* exactly NS and the reserved bits (packet.go:172) and CWR and ECE         *)
(* (packet.go:116).                                                         *)
SurvivesTheWire ==
    pkt # Error =>
        /\ \A pad \in {0, 6} : ParseIPPacket(Serialize(pkt) \o Zeros(pad))
                                = [pkt EXCEPT !.TotalLen = SentLen(pkt)]
        /\ (FirstFragment(pkt) /\ pkt.Protocol = TCP) =>
                SerializeTCP(ParseTCPPacket(pkt.Payload))
                    = [pkt.Payload EXCEPT ![13] = 16 * (@ \div 16), ![14] = @ % 64]

(* The handler's ID of a connection, taken from the accepted socket and     *)
(* what the kernel remembers of its destination, is that of the connection  *)
(* seen from the other end, and no other connection has it, of whichever    *)
(* family: not one between other ports of the same address either.          *)
IDIsTheConnection ==
    \A c \in Connections : HandlerOf(c) = HandlerOf(conn) <=> c \in {conn, Reverse(conn)}

(* Every datagram that shows its ports has it too, in either direction and  *)
(* whatever was done to the packet: the ID taken from four bytes of an      *)
(* address is the one taken from what the kernel and net.ParseIP gave.      *)
PacketsHaveTheID ==
    pkt # Error /\ FirstFragment(pkt) => GenerateConnectionIDFromPacket(pkt) = HandlerOf(conn)
=============================================================================
