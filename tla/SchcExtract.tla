---------------------------- MODULE SchcExtract ----------------------------
(***************************************************************************)
(* What the compressor takes out of a packet for one entry of a rule: in   *)
(* which scope, which field or CoAP option, and what it sends for it.      *)
(***************************************************************************)
EXTENDS SchcIcmp

(* scope_for_field, then field_position_applies.  An occurrence of an      *)
(* option is looked up in the message; other fields occur once in a scope. *)
SenderScope(entry, store) ==
  IF Reached(store) = "embedded" \/ OpensEmbedded(entry, store)
  THEN Ok("embedded")
  ELSE IF TransportTooEarly(entry, store) THEN Err("Packet") ELSE Ok("outer")

PositionApplies(entry, scope, store) ==
  \/ entry.position = 0
  \/ entry.field = Option
  \/ scope = "outer" /\ entry.position = 1
  \/ /\ scope = "embedded" /\ entry.position = 2
     /\ Has(In(store, "outer"), "ipv6-version")

-----------------------------------------------------------------------------
(* extract_coap_field, from a UDP payload.  A token takes its length from  *)
(* the rule, and that has to be the packet's.                              *)
ExtractCoap(message, field, length) ==
  LET place == Place(field, "up")
      token(t) == IF length.kind = "variable" THEN Err("InvalidResidue")
                  ELSE IF length.n # Len(t) THEN Err("Packet") ELSE Ok(t)
  IN Then(ParseCoap(message), LAMBDA coap :
       CASE field = "coap-token" -> token(coap.token)
         [] field = "coap-payload" -> Ok(coap.payload)
         [] OTHER -> Ok(Slice(message, place.offset - 384, place.bits)))

(* extract_icmpv6_field.  The payload begins after the checksum, unless    *)
(* entries before it stood for the word in between.                        *)
Structured(store) ==
  \E f \in {"icmpv6-identifier", "icmpv6-sequence", "icmpv6-mtu",
            "icmpv6-pointer"} : Has(store, f)

ExtractIcmp(message, field, store) ==
  LET type == MessageType(message)
      place == Place(field, "up")
      defined == CASE field \in {"icmpv6-identifier", "icmpv6-sequence"} ->
                        type \in EchoTypes
                   [] field = "icmpv6-mtu" -> type = 2
                   [] field = "icmpv6-pointer" -> type = 4
                   [] OTHER -> TRUE
  IN IF ~ParsesIcmp(message) \/ ~defined THEN Err("Packet")
     ELSE IF field # "icmpv6-payload"
          THEN Ok(Slice(message, place.offset - 320, place.bits))
     ELSE Ok(From(message, IF Structured(store) THEN PayloadOffset(message) ELSE 32))

(* extract_unused_field.                                                   *)
ExtractUnused(packet, length) ==
  LET message == Upper(packet)
  IN IF length # [kind |-> "known", n |-> 32] THEN Err("InvalidResidue")
     ELSE IF /\ NextHeader(packet) = ICMPv6 /\ ParsesIcmp(message)
             /\ MessageType(message) \in UnusedTypes
          THEN Ok(Slice(message, 32, 32))
     ELSE Err("Packet")

(* extract_generic_payload.                                                *)
ExtractPayload(packet, store) ==
  LET upper == Upper(packet)
  IN CASE NextHeader(packet) = UDP /\ ParsesUdp(upper) ->
            IF Has(store, "coap-version")
            THEN Then(ParseCoap(From(upper, 64)), LAMBDA coap : Ok(coap.payload))
            ELSE Ok(From(upper, 64))
       [] NextHeader(packet) = ICMPv6 /\ ParsesIcmp(upper) -> Ok(IcmpPayload(upper))
       [] OTHER -> Err("Packet")

(* extract_field, but for options, from the packet of a scope and with the *)
(* fields stored there.  A UDP field is read from whatever upper layer     *)
(* parses as UDP, an ICMPv6 field from whatever parses as ICMPv6.          *)
ExtractField(source, direction, field, length, scope, store) ==
  LET udp == Upper(source)
      place == Place(field, direction)
      outerOnly == CoapFields \cup Icmpv6Fields \cup {"unused"}
  IN CASE scope = "embedded" /\ field \in outerOnly -> Err("Packet")
       [] field \in Ipv6Fields -> Ok(Slice(source, place.offset, place.bits))
       [] field \in UdpFields \cup CoapFields /\ ~ParsesUdp(udp) -> Err("Packet")
       [] field = "udp-payload" /\ ParsesUdp(udp) -> Ok(From(udp, 64))
       [] field \in UdpFields \ {"udp-payload"} /\ ParsesUdp(udp) ->
            Ok(Slice(source, place.offset, place.bits))
       [] field \in CoapFields /\ scope = "outer" /\ ParsesUdp(udp) ->
            ExtractCoap(From(udp, 64), field, length)
       [] field \in Icmpv6Fields /\ scope = "outer" ->
            ExtractIcmp(udp, field, store)
       [] field = "unused" /\ scope = "outer" -> ExtractUnused(source, length)
       [] field = Payload -> ExtractPayload(source, store)
       [] OTHER -> Err("UnknownSid")

-----------------------------------------------------------------------------
(* Options of the outer packet.                                            *)
MessageOptions(packet) ==
  IF ParsesUdp(Upper(packet))
  THEN Then(ParseCoap(From(Upper(packet), 64)), LAMBDA coap : Ok(coap.options))
  ELSE Err("Packet")

(* Which option an entry stands for, by its place on the wire, or 0.       *)
(*                                                                         *)
(* select_coap_option: the occurrence of the number that the position      *)
(* says, else the option at that place if it has the number.               *)
(* extract_matching_coap_option, for position 0: the first option of the   *)
(* number and the right length that matches or cannot be compared.         *)
OptionOf(entry, options, length) ==
  LET same == {k \in 1..Len(options) : options[k].number = entry.number}
      nth == {k \in same : Cardinality({j \in same : j <= k}) = entry.position}
      match(k) == Matches(entry, options[k].value)
      chosen == {k \in same :
                   /\ length.kind = "known" => length.n = Len(options[k].value)
                   /\ ~match(k).ok \/ match(k).value.matched}
      first(ks) == IF ks = {} THEN 0 ELSE Min(ks)
  IN IF entry.position = 0 THEN first(chosen)
     ELSE IF nth # {} THEN first(nth)
     ELSE first(same \cap {entry.position})

-----------------------------------------------------------------------------
(* One entry of traverse_branch: refused, failed, or sent with the field   *)
(* as it is stored and the option it was taken from, if any.               *)
Length(entry, store) ==
  LET known == Resolve(entry.length, store)
  IN IF Variable(entry) THEN Ok([kind |-> "variable", n |-> 0])
     ELSE IF known.ok THEN Ok([kind |-> "known", n |-> known.value]) ELSE known

Encoded(entry, found, scope, outcome) ==
  IF outcome.kind # "sent" THEN outcome
  ELSE [kind |-> "sent", bits |-> outcome.bits, ordinals |-> found.ordinal,
        field |-> [field |-> entry.field, number |-> entry.number,
                   index |-> entry.index, scope |-> scope, value |-> found.value]]

OptionToSend(packet, entry, scope, length) ==
  LET chosen(options, k) ==
        IF k = 0 THEN Ok(<<>>) ELSE Ok(<<[value |-> options[k].value, ordinal |-> <<k>>]>>)
  IN IF scope = "embedded" THEN Err("Packet")
     ELSE Then(MessageOptions(packet), LAMBDA options :
            chosen(options, OptionOf(entry, options, length)))

FieldToSend(packet, direction, entry, scope, length, store) ==
  Then(PacketOf(packet, scope), LAMBDA source :
    Then(ExtractField(source, DirectionOf(direction, scope), entry.field, length,
                      scope, In(store, scope)), LAMBDA value :
      Ok(<<[value |-> value, ordinal |-> <<>>]>>)))

(* What is extracted for an entry: one value, or none where the packet has *)
(* no such field or the position does not apply.                           *)
ToSend(packet, direction, entry, scope, store) ==
  IF ~PositionApplies(entry, scope, store) THEN Ok(<<>>)
  ELSE Then(Length(entry, store), LAMBDA length :
         IF entry.field = Option THEN OptionToSend(packet, entry, scope, length)
         ELSE FieldToSend(packet, direction, entry, scope, length, store))

EncodeEntry(packet, direction, entry, store) ==
  LET encoded(scope, sent) ==
        CASE sent.ok /\ sent.value = <<>> -> Refused
          [] sent.ok /\ sent.value # <<>> ->
               Encoded(entry, sent.value[1], scope, EncodeField(entry, sent.value[1].value, store))
          [] ~sent.ok -> Failed(sent.error)
      inScope(scope) ==
        IF scope.ok
        THEN encoded(scope.value, ToSend(packet, direction, entry, scope.value, store))
        ELSE Failed(scope.error)
  IN inScope(SenderScope(entry, store))

-----------------------------------------------------------------------------
(* carry_through_suffix: what the described headers do not cover, when no  *)
(* entry stood for the payload and the options described are the first     *)
(* ones of the message.  Everything it reads has been extracted before, so *)
(* that it cannot fail.                                                    *)
DescribesCoap(store) ==
  \E f \in CoapFields \cup {Option} : Has(store, f)

CoapPrefix(packet, ordinals) ==
  LET coap == ParseCoap(From(Upper(packet), 64)).value
  IN Len(HeadBits(coap)) + Len(OptionsBits(SubSeq(coap.options, 1, Len(ordinals))))

CarriedFrom(packet, store, ordinals) ==
  CASE NextHeader(packet) = UDP /\ Has(store, "udp-dev-port") ->
         384 + (IF DescribesCoap(store) THEN CoapPrefix(packet, ordinals) ELSE 0)
    [] NextHeader(packet) = ICMPv6 /\ Has(store, "icmpv6-type") ->
         320 + PayloadOffset(Upper(packet))
    [] OTHER -> 320

Carries(packet, store, ordinals) ==
  /\ \A f \in PayloadFields : ~Has(store, f)
  /\ NextHeader(packet) = UDP /\ Has(store, "udp-dev-port") =>
       ordinals = [k \in 1..Len(ordinals) |-> k]
=============================================================================
