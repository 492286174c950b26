---------------------------- MODULE SchcTransfer ----------------------------
(***************************************************************************)
(* A packet from end to end.  The node in one role compresses it and frames*)
(* the result, padded to whole bytes; the node in the other role, which    *)
(* loaded the same rules, decompresses the frame.  Neither sends the       *)
(* direction: each takes it from its own role.                             *)
(***************************************************************************)
EXTENDS SchcCompress, SchcDecompress

VARIABLES
  sender   \* the role of the node that compresses

transferVars == <<compressVars, decompressVars, sender>>

Roles == {"core", "device"}
Receiver == IF sender = "core" THEN "device" ELSE "core"

(* NodeRole::outbound and inbound: the endpoint and flow of an operation.  *)
Outbound(role) ==
  [endpoint |-> role, flow |-> IF role = "core" THEN "downlink" ELSE "uplink"]
Inbound(role) ==
  [endpoint |-> role, flow |-> IF role = "core" THEN "uplink" ELSE "downlink"]

(* encode_direction; decode_position with inverse_direction.  Only packets *)
(* that leave an endpoint are encoded there, and only others decoded.      *)
EncodeDirection(path) ==
  CASE path = [endpoint |-> "device", flow |-> "uplink"] -> "up"
    [] path = [endpoint |-> "core", flow |-> "downlink"] -> "down"

DecodePosition(path) ==
  CASE path = [endpoint |-> "core", flow |-> "uplink"] -> "core"
    [] path = [endpoint |-> "device", flow |-> "downlink"] -> "device"

InverseDirection(position) == IF position = "device" THEN "down" ELSE "up"

(* Until the frame is there the decompressor has nothing to do.            *)
TransferInit ==
  /\ sender \in Roles
  /\ CompressInit
  /\ direction = EncodeDirection(Outbound(sender))
  /\ datagram = <<>>
  /\ padding = 0
  /\ stage = "idle"
  /\ selected = 0 /\ next = 1 /\ pos = 0 /\ fields = <<>>
  /\ successes = <<>>
  /\ firstError = NoError
  /\ answer = NoAnswer

Idle == UNCHANGED <<datagram, padding, stage, attemptVars, successes,
                    firstError, answer>>

(* The bit writer fills the last byte with zeros, and SchcFrame::new makes *)
(* sure of it.                                                             *)
Padded(bits) == bits \o Zeros(8 * Bytes(Len(bits)) - Len(bits))

(* Mutant: the receiver takes its own outbound direction.                  *)
DeliverOwnDirection ==
  /\ stage = "idle"
  /\ compressed.ok
  /\ datagram' = Padded(compressed.value.bits)
  /\ direction' = EncodeDirection(Outbound(Receiver))
  /\ stage' = "select"
  /\ UNCHANGED <<rules, packet, agenda, candidates, natureErrors, branchErrors,
                 compressed, padding, attemptVars, successes, firstError,
                 answer, sender>>

(* Runtime::decode_padded_detailed on what encode_detailed framed.         *)
Deliver ==
  /\ stage = "idle"
  /\ compressed.ok
  /\ datagram' = Padded(compressed.value.bits)
  /\ direction' = InverseDirection(DecodePosition(Inbound(Receiver)))
  /\ stage' = "select"
  /\ UNCHANGED <<rules, packet, agenda, candidates, natureErrors, branchErrors,
                 compressed, padding, attemptVars, successes, firstError,
                 answer, sender>>

Transfer ==
  \/ Compress /\ Idle /\ UNCHANGED sender
  \/ Deliver
  \/ /\ Decompress
     /\ UNCHANGED <<packet, agenda, candidates, natureErrors, branchErrors,
                    compressed, sender>>

TransferSpec == TransferInit /\ [][Transfer]_transferVars
-----------------------------------------------------------------------------
(* Correctness.  A rule that has an entry for the payload is used only if  *)
(* its fields give the packet back.  Another one can when its entries for  *)
(* this direction describe all headers in front of what is carried, and,   *)
(* in an ICMPv6 error, what is carried is a packet.  A wrapped packet      *)
(* comes back when its declared lengths are those of its bytes.            *)
Used == rules[compressed.value.rule]

Described ==
  LET entries == SelectSeq(Used.entries, LAMBDA e : Accepts(e, direction))
  IN {entries[k].field : k \in 1..Len(entries)}

HeadersDescribed ==
  LET message == Upper(packet)
  IN CASE NextHeader(packet) = UDP ->
            /\ {"udp-dev-port", "udp-app-port"} \subseteq Described
            /\ Described \cap (CoapFields \cup {Option}) # {} =>
                 CoapFields \ {"coap-payload"} \subseteq Described
       [] NextHeader(packet) = ICMPv6 ->
            /\ {"icmpv6-type", "icmpv6-code"} \subseteq Described
            /\ MessageType(message) \in EchoTypes =>
                 {"icmpv6-identifier", "icmpv6-sequence"} \subseteq Described
            /\ MessageType(message) \in ErrorTypes =>
                 /\ TypeWord(MessageType(message)) \in Described
                 /\ ValidEmbedded(IcmpPayload(message))
                 /\ \A k \in 1..Len(Used.entries) : Used.entries[k].position < 2
       [] OTHER -> FALSE

Recoverable ==
  IF WrapsPacket(Used) THEN ValidLengths(packet)
  ELSE Described \cap PayloadFields # {} \/ HeadersDescribed

(* What the rule leaves to the receiver comes back as the receiver knows   *)
(* it: the IIDs of its profile, and a checksum that verifies.              *)
FromProfile(entry) == entry.action \in {"device-iid", "app-iid"}

Profiled(p, field) ==
  IF \E k \in 1..Len(Used.entries) :
        /\ Used.entries[k].field = field
        /\ FromProfile(Used.entries[k])
        /\ Accepts(Used.entries[k], direction)
  THEN Patch(p, Place(field, direction).offset, Provider[field])
  ELSE p

Expected ==
  LET known == Profiled(Profiled(packet, "ipv6-deviid"), "ipv6-appiid")
  IN IF WrapsPacket(Used) THEN packet
     ELSE IF LeavesChecksum(Used, NextHeader(packet))
          THEN SubSeq(known, 1, 320)
               \o Summed(Slice(known, 64, 128), Slice(known, 192, 128),
                         NextHeader(packet), Upper(known))
          ELSE known

(* What one node puts into a frame, the other takes out of it: the same    *)
(* rule, the same number of bits before the padding and the same packet,   *)
(* bit for bit, but for what the rule leaves to the receiver.  When it     *)
(* cannot, it says so, and never makes up another packet.                  *)
Restored ==
  stage = "answered" =>
    IF Recoverable
    THEN answer = Ok([bits |-> Len(compressed.value.bits),
                      rule |-> compressed.value.rule, packet |-> Expected])
    ELSE ~answer.ok

(* The receiver follows the sender entry by entry: in the attempt that     *)
(* ends where the compressed bits end it can decode every entry, and then  *)
(* it has stored the fields that the sender had, in the same scopes and    *)
(* with the same values, but for those it computes or has in its profile.  *)
(* A mapping value it stores in whole bytes, as it is listed.  Nothing in  *)
(* the datagram tells it the scope of an entry, its length, or which       *)
(* option a value belongs to.                                              *)
AsReceived(stored) ==
  LET entry(f) == CHOOSE e \in {Used.entries[k] : k \in 1..Len(Used.entries)} :
                    e.index = f.index
      sent == SelectSeq(stored, LAMBDA f : entry(f).action # "compute")
      received(f) ==
        CASE FromProfile(entry(f)) -> Provider[f.field]
          [] entry(f).action = "mapping-sent" ->
               Zeros(8 * Bytes(Len(f.value)) - Len(f.value)) \o f.value
          [] OTHER -> f.value
  IN [k \in 1..Len(sent) |-> [sent[k] EXCEPT !.value = received(sent[k])]]

FieldsAsExtracted ==
  stage = "fields" /\ Len(Wire) = Len(compressed.value.bits) =>
    IF next <= Len(rules[selected].entries)
    THEN LET entry == rules[selected].entries[next]
         IN Skipped(entry) \/ Decoded(entry, Wire, pos, fields).ok
    ELSE fields = AsReceived(Scan(compressed.value.rule).outcome.state.fields)

(* What "a header-only compression rule" carries, the receiver "appends"   *)
(* to what it reconstructs: a packet such a rule was used for, and from    *)
(* which the receiver makes a packet, is the packet it makes.              *)
CarriedRulesRestore ==
  stage = "answered" /\ answer.ok /\ ~WrapsPacket(Used)
    /\ Described \cap PayloadFields = {}
  => answer.value.packet = Expected

(* "No-compression rules return the packet bytes that follow the rule ID,  *)
(* preserving bit order and zero-bit padding exactly", whatever they are.  *)
WrappingIsTransparent ==
  stage = "answered" /\ Used.nature = "no-compression" =>
    answer.ok /\ answer.value.packet = packet
=============================================================================
