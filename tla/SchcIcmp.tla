------------------------------ MODULE SchcIcmp ------------------------------
(***************************************************************************)
(* ICMPv6 messages as Icmpv6Message parses them, and the packet that an    *)
(* ICMPv6 error carries.                                                   *)
(***************************************************************************)
EXTENDS SchcCoap

MessageType(message) == Number(Slice(message, 0, 8))
ErrorTypes == 1..4
EchoTypes == {128, 129}
UnusedTypes == {1, 3}

(* Icmpv6Message::parse: errors and echo messages have eight bytes before  *)
(* their payload, other messages four.                                     *)
PayloadOffset(message) ==
  IF MessageType(message) \in ErrorTypes \cup EchoTypes THEN 64 ELSE 32

ParsesIcmp(message) ==
  Len(message) >= 32 /\ Len(message) >= PayloadOffset(message)

IcmpPayload(message) == From(message, PayloadOffset(message))

(* The 32-bit word after the checksum of an error of some type.            *)
TypeWord(type) ==
  CASE type \in UnusedTypes -> "unused"
    [] type = 2 -> "icmpv6-mtu"
    [] type = 4 -> "icmpv6-pointer"

(* embedded_ipv6_packet, of a packet that parses as IPv6.                  *)
EmbeddedPacket(packet) ==
  LET message == Upper(packet)
  IN IF /\ NextHeader(packet) = ICMPv6
        /\ ParsesIcmp(message)
        /\ MessageType(message) \in ErrorTypes
        /\ ParsesIpv6(IcmpPayload(message))
     THEN Ok(IcmpPayload(message))
     ELSE Err("Packet")

Opposite(direction) == IF direction = "up" THEN "down" ELSE "up"

(* packet_for_scope, and the way the packet of a scope travels: an error   *)
(* goes back to where the packet it carries came from.                     *)
PacketOf(packet, scope) ==
  IF scope = "outer" THEN Ok(packet) ELSE EmbeddedPacket(packet)

DirectionOf(direction, scope) ==
  IF scope = "outer" THEN direction ELSE Opposite(direction)
=============================================================================
