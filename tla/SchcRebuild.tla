---------------------------- MODULE SchcRebuild ----------------------------
(***************************************************************************)
(* Reconstruction of a packet from a field store.  The fields of one scope *)
(* make one packet: IPv6 with UDP, which may carry CoAP, or with ICMPv6,   *)
(* which may carry the packet that the embedded scope makes.               *)
(*                                                                         *)
(* In the operators below, fields is the part of a store in one scope.     *)
(***************************************************************************)
EXTENDS SchcIcmp

Given16(fields, field, computed) ==
  IF Has(fields, field) THEN Uint(fields, field, 16) ELSE computed

(* shared_payload: fid-payload and the payload field of the protocol may   *)
(* both be there and must then agree.                                      *)
SharedPayload(fields, own) ==
  CASE Has(fields, own) -> AsBytes(First(fields, own))
    [] ~Has(fields, own) /\ Has(fields, Payload) -> AsBytes(First(fields, Payload))
    [] OTHER -> <<>>

PayloadsAgree(fields, own) ==
  Has(fields, own) /\ Has(fields, Payload) =>
    AsBytes(First(fields, own)) = AsBytes(First(fields, Payload))

-----------------------------------------------------------------------------
(* reconstruct_coap, where the outer fields have a CoAP version.           *)
HasCoap(fields) == Has(In(fields, "outer"), "coap-version")

StoredOptions(fields) ==
  LET options == Picked(fields, Positions(fields, Option))
  IN [k \in 1..Len(options) |-> [number |-> options[k].number,
                                 value |-> AsBytes(options[k].value)]]

CoapComplete(fields) ==
  LET tkl == Number(Uint(fields, "coap-tkl", 8))
  IN /\ \A f \in {"coap-version", "coap-type", "coap-tkl", "coap-code"} :
          HasUint(fields, f, 8)
     /\ HasUint(fields, "coap-mid", 16)
     /\ FitsIn(First(fields, "coap-version"), 2)
     /\ FitsIn(First(fields, "coap-type"), 2)
     /\ tkl <= 8
     /\ IF Has(fields, "coap-token") THEN Len(First(fields, "coap-token")) = 8 * tkl
        ELSE tkl = 0
     /\ PayloadsAgree(fields, "coap-payload")

CoapOf(fields) ==
  CoapBits([version |-> Uint(fields, "coap-version", 2),
            type |-> Uint(fields, "coap-type", 2),
            code |-> Uint(fields, "coap-code", 8),
            mid |-> Uint(fields, "coap-mid", 16),
            token |-> IF Has(fields, "coap-token") THEN First(fields, "coap-token")
                      ELSE <<>>,
            options |-> StoredOptions(fields),
            payload |-> SharedPayload(fields, "coap-payload")])

-----------------------------------------------------------------------------
(* reconstruct_udp: what it needs, and the datagram, its checksum left     *)
(* zero unless it is given.                                                *)
UdpComplete(fields) ==
  /\ \A f \in {"udp-dev-port", "udp-app-port"} : HasUint(fields, f, 16)
  /\ \A f \in {"udp-length", "udp-checksum"} : MayHaveUint(fields, f, 16)
  /\ IF HasCoap(fields)
     THEN /\ CoapComplete(fields)
          /\ OptionsInOrder(StoredOptions(fields))
          /\ Has(fields, "udp-payload") =>
               AsBytes(First(fields, "udp-payload")) = CoapOf(fields)
     ELSE PayloadsAgree(fields, "udp-payload")

UdpBits(direction, fields) ==
  LET payload == IF HasCoap(fields) THEN CoapOf(fields)
                 ELSE SharedPayload(fields, "udp-payload")
      device == Uint(fields, "udp-dev-port", 16)
      app == Uint(fields, "udp-app-port", 16)
  IN (IF direction = "up" THEN device \o app ELSE app \o device)
     \o Given16(fields, "udp-length", BitsOf(8 + Len(payload) \div 8, 16))
     \o Given16(fields, "udp-checksum", Zeros(16)) \o payload

(* reconstruct_icmpv6, but for errors.                                     *)
StoredType(fields) == Number(Uint(fields, "icmpv6-type", 8))

IcmpComplete(fields) ==
  /\ \A f \in {"icmpv6-type", "icmpv6-code"} : HasUint(fields, f, 8)
  /\ MayHaveUint(fields, "icmpv6-checksum", 16)

HasEcho(fields) ==
  StoredType(fields) \in EchoTypes /\ Has(fields, "icmpv6-identifier")

MessageComplete(fields) ==
  /\ PayloadsAgree(fields, "icmpv6-payload")
  /\ HasEcho(fields) => /\ HasUint(fields, "icmpv6-identifier", 16)
                        /\ HasUint(fields, "icmpv6-sequence", 16)

IcmpStart(fields) ==
  Uint(fields, "icmpv6-type", 8) \o Uint(fields, "icmpv6-code", 8)
  \o Given16(fields, "icmpv6-checksum", Zeros(16))

MessageBits(fields) ==
  IcmpStart(fields)
  \o (IF HasEcho(fields)
      THEN Uint(fields, "icmpv6-identifier", 16) \o Uint(fields, "icmpv6-sequence", 16)
      ELSE <<>>)
  \o SharedPayload(fields, "icmpv6-payload")

-----------------------------------------------------------------------------
(* reconstruct_ipv6_with_upper.  Addresses are put together from values of *)
(* exactly 64 bits.                                                        *)
HasHalf(fields, field) == Has(fields, field) /\ Len(First(fields, field)) = 64

Ipv6Complete(fields) ==
  /\ \A f \in {"ipv6-version", "ipv6-nextheader", "ipv6-trafficclass", "ipv6-hoplimit"} :
       HasUint(fields, f, 8)
  /\ Number(Uint(fields, "ipv6-version", 8)) = 6
  /\ HasUint(fields, "ipv6-flowlabel", 20)
  /\ MayHaveUint(fields, "ipv6-payload-length", 16)
  /\ \A f \in {"ipv6-devprefix", "ipv6-deviid", "ipv6-appprefix", "ipv6-appiid"} :
       HasHalf(fields, f)

Address(fields, role) ==
  IF role = "device"
  THEN First(fields, "ipv6-devprefix") \o First(fields, "ipv6-deviid")
  ELSE First(fields, "ipv6-appprefix") \o First(fields, "ipv6-appiid")

StoredNext(fields) == Number(Uint(fields, "ipv6-nextheader", 8))

WithIpv6(direction, fields, upper) ==
  LET source == Address(fields, IF direction = "up" THEN "device" ELSE "app")
      destination == Address(fields, IF direction = "up" THEN "app" ELSE "device")
      next == StoredNext(fields)
      size == BitsOf(Len(upper) \div 8, 16)
  IN BitsOf(6, 4) \o Uint(fields, "ipv6-trafficclass", 8)
     \o Uint(fields, "ipv6-flowlabel", 20)
     \o Given16(fields, "ipv6-payload-length", size)
     \o BitsOf(next, 8) \o Uint(fields, "ipv6-hoplimit", 8)
     \o source \o destination
     \o (IF Has(fields, SumField(next)) THEN upper
         ELSE Summed(source, destination, next, upper))

-----------------------------------------------------------------------------
(* reconstruct_packet_at for the embedded scope.  The compressor takes no  *)
(* ICMPv6 field from an embedded packet, but a rule may have one.  (With   *)
(* the fields of an error in an error the function calls itself without an *)
(* end; no rule set here has them.)                                        *)
InnerComplete(inner) ==
  /\ Ipv6Complete(inner)
  /\ \/ StoredNext(inner) = UDP /\ UdpComplete(inner)
     \/ /\ StoredNext(inner) = ICMPv6
        /\ IcmpComplete(inner) /\ MessageComplete(inner)
        /\ StoredType(inner) \notin ErrorTypes

Inner(direction, inner) ==
  WithIpv6(direction, inner,
    IF StoredNext(inner) = UDP THEN UdpBits(direction, inner) ELSE MessageBits(inner))

(* reconstruct_icmpv6 for errors: the packet an error carries is either    *)
(* rebuilt from the embedded fields, or the payload field of the error.    *)
ErrorComplete(direction, outer, inner) ==
  LET word == TypeWord(StoredType(outer))
  IN /\ Has(outer, word) /\ Len(First(outer, word)) = 32
     /\ IF Has(inner, "ipv6-version")
        THEN /\ InnerComplete(inner)
             /\ Has(outer, Payload) =>
                  AsBytes(First(outer, Payload)) = Inner(Opposite(direction), inner)
        ELSE Has(outer, Payload)

ErrorBits(direction, outer, inner) ==
  IcmpStart(outer) \o First(outer, TypeWord(StoredType(outer)))
  \o (IF Has(inner, "ipv6-version") THEN Inner(Opposite(direction), inner)
      ELSE AsBytes(First(outer, Payload)))

(* reconstruct_packet_at for the outer scope.                              *)
Complete(direction, store) ==
  LET outer == In(store, "outer")
      inner == In(store, "embedded")
  IN /\ Ipv6Complete(outer)
     /\ \/ StoredNext(outer) = UDP /\ UdpComplete(outer)
        \/ /\ StoredNext(outer) = ICMPv6
           /\ IcmpComplete(outer)
           /\ IF StoredType(outer) \in ErrorTypes
              THEN ErrorComplete(direction, outer, inner)
              ELSE MessageComplete(outer)

Assemble(direction, store) ==
  LET outer == In(store, "outer")
      inner == In(store, "embedded")
  IN WithIpv6(direction, outer,
       CASE StoredNext(outer) = UDP -> UdpBits(direction, outer)
         [] StoredNext(outer) = ICMPv6 ->
              IF StoredType(outer) \in ErrorTypes
              THEN ErrorBits(direction, outer, inner)
              ELSE MessageBits(outer))

(* reconstruct_packet.  Whatever is missing or does not fit is reported    *)
(* alike here.                                                             *)
Reconstruct(direction, store) ==
  IF ~Complete(direction, store) THEN Err("InvalidResidue")
  ELSE LET packet == Assemble(direction, store)
       IN IF ValidLengths(packet) THEN Ok(packet) ELSE Err("Packet")

-----------------------------------------------------------------------------
(* header_only_icmp_error: what follows the residue is then the packet the *)
(* error carries, and has to be one.                                       *)
HeaderOnlyError(store) ==
  LET outer == In(store, "outer")
  IN /\ HasUint(outer, "ipv6-nextheader", 8) /\ StoredNext(outer) = ICMPv6
     /\ HasUint(outer, "icmpv6-type", 8) /\ StoredType(outer) \in ErrorTypes
     /\ \A f \in {Payload, "icmpv6-payload"} : ~Has(store, f)

ValidEmbedded(suffix) ==
  ParsesIpv6(suffix) /\ (NextHeader(suffix) = UDP => ParsesUdp(Upper(suffix)))

(* reconstruct_packet_with_suffix: append the bytes carried after the      *)
(* residue, then compute again what the store does not give.               *)
(*                                                                         *)
(* Mutant: lengths are patched, the checksum is left as it was.            *)
AmendedStale(store, joined) ==
  LET size == BitsOf((Len(joined) - 320) \div 8, 16)
  IN IF NextHeader(joined) = UDP THEN Patch(Patch(joined, 32, size), 352, size)
     ELSE Patch(joined, 32, size)

Amended(store, joined) ==
  LET outer == In(store, "outer")
      next == NextHeader(joined)
      size == BitsOf((Len(joined) - 320) \div 8, 16)
      unless(field, s, offset, bits) ==
        IF Has(outer, field) THEN s ELSE Patch(s, offset, bits)
      sized == unless("ipv6-payload-length", joined, 32, size)
      upper == Upper(IF next = UDP THEN unless("udp-length", sized, 352, size) ELSE sized)
  IN SubSeq(sized, 1, 320)
     \o (IF Has(outer, SumField(next)) THEN upper
         ELSE Summed(Slice(sized, 64, 128), Slice(sized, 192, 128), next, upper))

Parses(store, packet) ==
  /\ NextHeader(packet) = UDP /\ HasCoap(store) => ParseCoap(From(packet, 384)).ok
  /\ NextHeader(packet) = ICMPv6 => ParsesIcmp(Upper(packet))
  /\ ValidLengths(packet)

ReconstructWithSuffix(direction, store, suffix) ==
  LET carried == [field |-> Payload, number |-> 0, index |-> 0,
                  scope |-> "outer", value |-> suffix]
      injects == HeaderOnlyError(store)
      full == IF injects THEN Append(store, carried) ELSE store
      packet == Amended(store, Assemble(direction, full)
                               \o (IF injects THEN <<>> ELSE suffix))
  IN IF injects /\ ~ValidEmbedded(suffix) THEN Err("Packet")
     ELSE IF ~Complete(direction, full) THEN Err("InvalidResidue")
     ELSE IF Parses(store, packet) THEN Ok(packet) ELSE Err("Packet")
=============================================================================
