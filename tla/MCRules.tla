------------------------------ MODULE MCRules ------------------------------
(***************************************************************************)
(* Rules and packets for the small instances: headers as the repository's  *)
(* tests have them, one address pair, one port pair and short payloads,    *)
(* with what makes the interesting cases happen varied.                    *)
(***************************************************************************)
EXTENDS SchcIcmp

Byte(v) == BitsOf(v, 8)
Word(v) == BitsOf(v, 16)
Wide(v) == Zeros(48) \o BitsOf(v, 16)

-----------------------------------------------------------------------------
(* Entries.  Indexes are set by Numbered.                                  *)
NoTarget == [kind |-> "none", values |-> <<>>]
OneOf(values) == [kind |-> "mapping", values |-> values]
Only(value) == [kind |-> "bytes", values |-> <<value>>]

Plain(field, dir, bits, target, matching, action) ==
  [field |-> field, number |-> 0, index |-> 0, position |-> 1, dir |-> dir,
   length |-> [kind |-> "fixed", n |-> bits], target |-> target,
   matching |-> matching, action |-> action]

Equal == [kind |-> "equal", n |-> 0]
Ignore == [kind |-> "ignore", n |-> 0]
Msb(n) == [kind |-> "msb", n |-> n]
Listed == [kind |-> "mapping", n |-> 0]

Elided(field, bits, value) ==
  Plain(field, "bi", bits, Only(value), Equal, "not-sent")
SentAsIs(field, bits) ==
  Plain(field, "bi", bits, NoTarget, Ignore, "value-sent")
Computed(field) == Plain(field, "bi", 16, NoTarget, Ignore, "compute")
Indexed(field, bits, values) ==
  Plain(field, "bi", bits, OneOf(values), Listed, "mapping-sent")

Toward(dir, entry) == [entry EXCEPT !.dir = dir]
At(position, entry) == [entry EXCEPT !.position = position]
Embedded(entries) == [k \in 1..Len(entries) |-> At(2, entries[k])]

(* A field sent with its length; an option, sent so, or elided.            *)
SentInBytes(field) ==
  [SentAsIs(field, 0) EXCEPT !.length = [kind |-> "bytes", n |-> 0]]
PayloadEntry == SentInBytes(Payload)
OptionSent(number, position) ==
  [At(position, SentInBytes(Option)) EXCEPT !.number = number]
OptionElided(number, position, value) ==
  [At(position, Elided(Option, Len(value), value)) EXCEPT !.number = number]

(* Entry indexes from 0 in steps of step.                                  *)
Numbered(entries, step) ==
  [k \in 1..Len(entries) |-> [entries[k] EXCEPT !.index = step * (k - 1)]]

DevPrefix == Wide(513)
AppPrefix == Wide(514)
DevIid == Wide(1)
AppIid == Wide(258)
Iids == [f \in {"ipv6-deviid", "ipv6-appiid"} |->
           IF f = "ipv6-deviid" THEN DevIid ELSE AppIid]

Ipv6Front(next) ==
  <<Elided("ipv6-version", 4, Byte(6)),
    Elided("ipv6-trafficclass", 8, Byte(0)),
    Elided("ipv6-flowlabel", 20, Byte(0)),
    Computed("ipv6-payload-length"),
    Elided("ipv6-nextheader", 8, Byte(next)),
    SentAsIs("ipv6-hoplimit", 8),
    Elided("ipv6-devprefix", 64, DevPrefix)>>

Ipv6(next) ==
  Ipv6Front(next) \o
  <<Plain("ipv6-deviid", "bi", 64, NoTarget, Ignore, "device-iid"),
    Elided("ipv6-appprefix", 64, AppPrefix),
    Plain("ipv6-appiid", "bi", 64, Only(Wide(256)), Msb(56), "lsb")>>
Ipv6Entries == Ipv6(17)

Port == 5683
DevPort == Elided("udp-dev-port", 16, Word(Port))
AppPort == Elided("udp-app-port", 16, Word(Port))
MappedPort == Indexed("udp-app-port", 16, <<Word(1), Word(Port), Word(7)>>)
UdpSums == <<Computed("udp-length"), Computed("udp-checksum")>>
SentSums == <<Computed("udp-length"), SentAsIs("udp-checksum", 16)>>
UdpEntries == Ipv6Entries \o <<DevPort, AppPort>> \o UdpSums

CoapHead ==
  <<Elided("coap-version", 2, Byte(1)),
    Indexed("coap-type", 2, <<Byte(1), Byte(0)>>),
    SentAsIs("coap-tkl", 4),
    Indexed("coap-code", 8, <<Byte(1), Byte(69)>>),
    Plain("coap-mid", "bi", 16, Only(Word(512)), Msb(8), "lsb"),
    [SentAsIs("coap-token", 0) EXCEPT !.length = [kind |-> "token", n |-> 0]]>>

IcmpHead(types) ==
  <<Indexed("icmpv6-type", 8, types), SentAsIs("icmpv6-code", 8),
    Computed("icmpv6-checksum")>>
Echo == IcmpHead(<<Byte(128), Byte(129)>>)
EchoWords == <<SentAsIs("icmpv6-identifier", 16),
               Plain("icmpv6-sequence", "bi", 16, Only(Word(0)), Msb(8), "lsb")>>

Rule(value, len, nature, entries) ==
  [id |-> [value |-> value, len |-> len], nature |-> nature,
   entries |-> Numbered(entries, 1)]

-----------------------------------------------------------------------------
(* Rules.  HeaderOnly carries the payload behind the residue, WithPayload  *)
(* has an entry for it; the two directed rules take one direction each.    *)
HeaderOnly(value, len) == Rule(value, len, "compression", UdpEntries)
WithPayload(value, len) ==
  Rule(value, len, "compression",
       Ipv6Entries \o <<DevPort, MappedPort>> \o SentSums \o <<PayloadEntry>>)
AnyPorts(value, len) ==
  Rule(value, len, "management",
       Ipv6Entries \o <<SentAsIs("udp-dev-port", 16), SentAsIs("udp-app-port", 16)>>
       \o SentSums)
Directed(value, len, dir) ==
  Rule(value, len, "compression",
       Ipv6Entries \o <<Toward(dir, DevPort), Toward(dir, AppPort)>> \o UdpSums)
Wrap(value, len) == Rule(value, len, "no-compression", <<>>)
WrapUdp(value, len) == Rule(value, len, "no-compression", Ipv6Entries)
Fragment(value, len) == Rule(value, len, "fragmentation", <<>>)

(* CoAP: the whole message, options by their occurrence; the first options *)
(* only; an option wherever it is; the option at the second place.         *)
Coap(value, len, rest) ==
  Rule(value, len, "compression", UdpEntries \o CoapHead \o rest)
CoapMarker == Plain(Marker, "bi", 8, Only(Byte(255)), Ignore, "not-sent")
CoapWhole(value, len) ==
  Coap(value, len, <<OptionSent(11, 1), OptionSent(11, 2), CoapMarker, PayloadEntry>>)
CoapFirst(value, len) == Coap(value, len, <<OptionSent(12, 1)>>)
CoapAny(value, len) ==
  Coap(value, len, <<OptionElided(11, 0, Byte(98)), SentInBytes("coap-payload")>>)
CoapSecond(value, len) == Coap(value, len, <<OptionSent(12, 1), OptionSent(25, 2)>>)
(* An option as long as the token: its length is the entry of index 16.    *)
CoapSized(value, len) ==
  Coap(value, len,
       <<[OptionSent(11, 1) EXCEPT !.length = [kind |-> "previous", n |-> 16]]>>)

(* ICMPv6: echo messages with their payload sent as one field, as words    *)
(* and a field, or carried; errors with the packet they carry described,   *)
(* sent as a field, or carried.                                            *)
Icmp(value, len, rest) == Rule(value, len, "compression", Ipv6(58) \o rest)
EchoWhole(value, len) == Icmp(value, len, Echo \o <<SentInBytes("icmpv6-payload")>>)
EchoFields(value, len) ==
  Icmp(value, len, Echo \o EchoWords \o <<SentInBytes("icmpv6-payload")>>)
EchoCarried(value, len) == Icmp(value, len, Echo \o EchoWords)
EchoShort(value, len) == Icmp(value, len, Echo)

Unreachable == IcmpHead(<<Byte(1), Byte(3)>>) \o <<Elided("unused", 32, Zeros(32))>>
ErrorFields(value, len) ==
  Icmp(value, len,
       Unreachable
       \o Embedded(Ipv6Front(17) \o
                   <<Elided("ipv6-deviid", 64, DevIid),
                     Elided("ipv6-appprefix", 64, AppPrefix),
                     SentAsIs("ipv6-appiid", 64), DevPort, AppPort>>
                   \o UdpSums \o <<SentInBytes("udp-payload")>>))
ErrorCarried(value, len) == Icmp(value, len, Unreachable)
TooBig(value, len) ==
  Icmp(value, len, IcmpHead(<<Byte(2)>>) \o <<SentAsIs("icmpv6-mtu", 32), PayloadEntry>>)

-----------------------------------------------------------------------------
(* Packets, with a correct checksum unless sum says otherwise.             *)
Packet(direction, hop, next, upper) ==
  LET device == DevPrefix \o DevIid
      app == AppPrefix \o AppIid
  IN BitsOf(6, 4) \o Zeros(28) \o Word(Len(upper) \div 8) \o Byte(next) \o Byte(hop)
     \o (IF direction = "up" THEN device \o app ELSE app \o device)
     \o Summed(device, app, next, upper)

Miscounted(p) == Patch(p, 320 + SumOffset(NextHeader(p)), Word(4660))

Udp(direction, hop, devPort, appPort, payload) ==
  Packet(direction, hop, 17,
         (IF direction = "up" THEN Word(devPort) \o Word(appPort)
          ELSE Word(appPort) \o Word(devPort))
         \o Word(8 + Len(payload) \div 8) \o Zeros(16) \o payload)

CoapMessage(token, code, options, payload) ==
  CoapBits([version |-> <<0, 1>>, type |-> <<0, 0>>, code |-> Byte(code),
            mid |-> Word(515), token |-> token, options |-> options,
            payload |-> payload])
CoapUdp(direction, token, options, payload) ==
  Udp(direction, 64, Port, Port, CoapMessage(token, 69, options, payload))
Opt(number, value) == [number |-> number, value |-> value]

IcmpPacket(direction, type, code, rest) ==
  Packet(direction, 64, 58, Byte(type) \o Byte(code) \o Zeros(16) \o rest)

(* Another device than the one the receiver's profile knows.               *)
Foreign(p, direction) ==
  Patch(p, Place("ipv6-deviid", direction).offset, Wide(2))

(* Not IPv6; IPv6 with a wrong length; IPv6 without an upper layer; IPv6   *)
(* whose upper layer says it is UDP, or ICMPv6, and is not.                *)
TwoBytes == Byte(1) \o Byte(128)
Overlong == Udp("up", 64, Port, Port, <<>>) \o Byte(9)
Bare(next) == BitsOf(6, 4) \o Zeros(28) \o Word(0) \o Byte(next) \o Byte(64)
              \o DevPrefix \o DevIid \o AppPrefix \o AppIid

GoodPackets(direction) ==
  {Udp(direction, 64, Port, Port, payload) :
     payload \in {<<>>, Byte(255), Byte(0) \o Byte(128)}}
  \cup {Udp(direction, 3, Port, 7, Byte(5)),
        Udp(direction, 64, 1, 2, Byte(0))}

OddPackets == {TwoBytes, Overlong, Bare(59), Bare(17), <<>>}

(* No options; one number twice; two numbers a step of thirteen apart, and *)
(* after them one that needs the longer extension; UDP that is no CoAP.    *)
CoapPackets(direction) ==
  {CoapUdp(direction, <<>>, <<>>, <<>>),
   CoapUdp(direction, Byte(90), <<Opt(11, Byte(97)), Opt(11, Byte(98))>>, Byte(34)),
   CoapUdp(direction, <<>>, <<Opt(11, Byte(98))>>, Byte(34)),
   CoapUdp(direction, Byte(90), <<Opt(12, <<>>), Opt(25, Byte(1))>>, <<>>),
   CoapUdp(direction, <<>>, <<Opt(12, Byte(1)), Opt(25, <<>>), Opt(294, Byte(2))>>,
           Byte(35)),
   Udp(direction, 64, Port, Port, Byte(73))}

(* Echo messages with and without data; errors that carry a UDP packet,    *)
(* another ICMPv6 message, and what is no packet; a message of another     *)
(* type; ICMPv6 that is not long enough for its type.                      *)
Returned(direction) == Udp(Opposite(direction), 7, Port, Port, Byte(33))

IcmpPackets(direction) ==
  {IcmpPacket(direction, 128, 0, Word(77) \o Word(1)),
   IcmpPacket(direction, 129, 0, Word(77) \o Word(2) \o Word(4112)),
   IcmpPacket(direction, 1, 4, Zeros(32) \o Returned(direction)),
   IcmpPacket(direction, 3, 0, Zeros(32) \o Bare(59)),
   IcmpPacket(direction, 1, 4, Zeros(32) \o Word(9)),
   IcmpPacket(direction, 2, 0, Word(0) \o Word(1280) \o Returned(direction)),
   IcmpPacket(direction, 128, 0, Byte(7))}
=============================================================================
