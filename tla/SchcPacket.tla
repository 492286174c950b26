----------------------------- MODULE SchcPacket -----------------------------
(***************************************************************************)
(* IPv6 and UDP packets as bit strings, where their fields stand, the      *)
(* checksum of their upper layers, and access to a field store.  A packet  *)
(* travels up (device to application) or down.                             *)
(***************************************************************************)
EXTENDS SchcField

(* Ipv6Packet::parse and UdpDatagram::parse; ReadableIpv6 is the part of   *)
(* the former that does not depend on the declared length.                 *)
ReadableIpv6(packet) ==
  Len(packet) >= 320 /\ Slice(packet, 0, 4) = BitsOf(6, 4)

ParsesIpv6(packet) ==
  /\ ReadableIpv6(packet)
  /\ 320 + 8 * Number(Slice(packet, 32, 16)) = Len(packet)

ParsesUdp(segment) ==
  /\ Len(segment) >= 64
  /\ Number(Slice(segment, 32, 16)) >= 8
  /\ 8 * Number(Slice(segment, 32, 16)) = Len(segment)

NextHeader(packet) == Number(Slice(packet, 48, 8))
Upper(packet) == From(packet, 320)
UDP == 17
ICMPv6 == 58

(* validate_packet_lengths: what does not look like IPv6 is not checked.   *)
ValidLengths(packet) ==
  ReadableIpv6(packet) =>
    ParsesIpv6(packet) /\ (NextHeader(packet) = UDP => ParsesUdp(Upper(packet)))

-----------------------------------------------------------------------------
(* Where a field of fixed place stands.  Device fields are in the source   *)
(* half of a header on the way up and in the destination half on the way   *)
(* down.                                                                   *)
Place(field, direction) ==
  LET at(offset, bits) == [offset |-> offset, bits |-> bits]
      device == direction = "up"
  IN CASE field = "ipv6-version" -> at(0, 4)
       [] field = "ipv6-trafficclass" -> at(4, 8)
       [] field = "ipv6-flowlabel" -> at(12, 20)
       [] field = "ipv6-payload-length" -> at(32, 16)
       [] field = "ipv6-nextheader" -> at(48, 8)
       [] field = "ipv6-hoplimit" -> at(56, 8)
       [] field = "ipv6-devprefix" -> at(IF device THEN 64 ELSE 192, 64)
       [] field = "ipv6-deviid" -> at(IF device THEN 128 ELSE 256, 64)
       [] field = "ipv6-appprefix" -> at(IF device THEN 192 ELSE 64, 64)
       [] field = "ipv6-appiid" -> at(IF device THEN 256 ELSE 128, 64)
       [] field = "udp-dev-port" -> at(IF device THEN 320 ELSE 336, 16)
       [] field = "udp-app-port" -> at(IF device THEN 336 ELSE 320, 16)
       [] field = "udp-length" -> at(352, 16)
       [] field = "udp-checksum" -> at(368, 16)
       [] field = "icmpv6-type" -> at(320, 8)
       [] field = "icmpv6-code" -> at(328, 8)
       [] field = "icmpv6-checksum" -> at(336, 16)
       [] field = "icmpv6-identifier" -> at(352, 16)
       [] field = "icmpv6-sequence" -> at(368, 16)
       [] field \in {"icmpv6-mtu", "icmpv6-pointer", "unused"} -> at(352, 32)
       [] field = "coap-version" -> at(384, 2)
       [] field = "coap-type" -> at(386, 2)
       [] field = "coap-tkl" -> at(388, 4)
       [] field = "coap-code" -> at(392, 8)
       [] field = "coap-mid" -> at(400, 16)

Ipv6Fields == {"ipv6-version", "ipv6-trafficclass", "ipv6-flowlabel",
               "ipv6-payload-length", "ipv6-nextheader", "ipv6-hoplimit",
               "ipv6-devprefix", "ipv6-deviid", "ipv6-appprefix", "ipv6-appiid"}
UdpFields == {"udp-dev-port", "udp-app-port", "udp-length", "udp-checksum",
              "udp-payload"}
CoapFields == {"coap-version", "coap-type", "coap-tkl", "coap-code",
               "coap-mid", "coap-token", "coap-payload"}
Icmpv6Fields == {"icmpv6-type", "icmpv6-code", "icmpv6-checksum",
                 "icmpv6-identifier", "icmpv6-sequence", "icmpv6-mtu",
                 "icmpv6-pointer", "icmpv6-payload"}

(* The fields that stand for what follows the headers: what no entry of    *)
(* this kind describes may be carried behind the residue.                  *)
PayloadFields == {Payload, "udp-payload", "coap-payload", "icmpv6-payload"}

-----------------------------------------------------------------------------
(* transport_checksum: the ones' complement sum of the pseudo-header and   *)
(* the segment in 16-bit words, never sent as zero.                        *)
WordSum(s) ==
  LET words == (Len(s) + 15) \div 16
      even == s \o Zeros(16 * words - Len(s))
      sum[i \in 0..words] ==
        IF i = 0 THEN 0
        ELSE sum[i - 1] + Number(Slice(even, 16 * (i - 1), 16))
  IN sum[words]

Fold16(n) == (n % 2^16) + (n \div 2^16)
AllOnes == 2^16 - 1

TransportChecksum(source, destination, next, segment) ==
  LET sum == WordSum(source) + WordSum(destination)
             + Len(segment) \div 8 + next + WordSum(segment)
      checksum == AllOnes - Fold16(Fold16(sum))
  IN BitsOf(IF checksum = 0 THEN AllOnes ELSE checksum, 16)

(* Where the checksum of an upper layer is, and the field it is.           *)
SumOffset(next) == IF next = UDP THEN 48 ELSE 16
SumField(next) == IF next = UDP THEN "udp-checksum" ELSE "icmpv6-checksum"

Patch(s, offset, bits) ==
  SubSeq(s, 1, offset) \o bits \o From(s, offset + Len(bits))

(* The upper layer with the checksum that goes with it.                    *)
Summed(source, destination, next, upper) ==
  LET blank == Patch(upper, SumOffset(next), Zeros(16))
  IN Patch(upper, SumOffset(next),
           TransportChecksum(source, destination, next, blank))

-----------------------------------------------------------------------------
(* Access to a field store, or to the part of it in one scope: the first   *)
(* value of a field, as an unsigned number of n bits or as a byte string.  *)
(* Picked has the items of a sequence at some of its places, in order.     *)
Picked(s, places) ==
  LET picked[i \in 0..Len(s)] ==
        IF i = 0 THEN <<>>
        ELSE IF i \in places THEN Append(picked[i - 1], s[i])
        ELSE picked[i - 1]
  IN picked[Len(s)]

In(store, scope) == Picked(store, {i \in 1..Len(store) : store[i].scope = scope})

Positions(store, field) == {i \in 1..Len(store) : store[i].field = field}
Has(store, field) == Positions(store, field) # {}

First(store, field) == store[Min(Positions(store, field))].value

FitsIn(v, n) ==
  Len(v) <= 64 /\ (Len(v) > n => SubSeq(v, 1, Len(v) - n) = Zeros(Len(v) - n))
AsUint(v, n) == IF Len(v) >= n THEN From(v, Len(v) - n) ELSE Zeros(n - Len(v)) \o v
AsBytes(v) == v \o Zeros(8 * Bytes(Len(v)) - Len(v))

HasUint(store, field, n) == Has(store, field) /\ FitsIn(First(store, field), n)
Uint(store, field, n) == AsUint(First(store, field), n)

(* A field may be absent, but must fit when it is there.                   *)
MayHaveUint(store, field, n) == Has(store, field) => FitsIn(First(store, field), n)

(* The scope that extraction or decoding has reached: that of the field    *)
(* stored last.                                                            *)
Reached(store) == IF store = <<>> THEN "outer" ELSE store[Len(store)].scope

(* The stored outer type says that this is an ICMPv6 error, which carries  *)
(* a packet.  Its fields begin with a second version; fields of its        *)
(* transport cannot come before that.                                      *)
InIcmpError(store) ==
  LET outer == In(store, "outer")
  IN HasUint(outer, "icmpv6-type", 8) /\ Number(Uint(outer, "icmpv6-type", 8)) \in 1..4

OpensEmbedded(entry, store) ==
  /\ entry.field = "ipv6-version"
  /\ InIcmpError(store)
  /\ Has(In(store, "outer"), "ipv6-version")

TransportTooEarly(entry, store) ==
  LET outer == In(store, "outer")
  IN /\ entry.field \in UdpFields \cup CoapFields \cup {Option}
     /\ InIcmpError(store)
     /\ HasUint(outer, "ipv6-nextheader", 8)
     /\ Number(Uint(outer, "ipv6-nextheader", 8)) = ICMPv6
=============================================================================
