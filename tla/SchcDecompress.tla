--------------------------- MODULE SchcDecompress ---------------------------
(***************************************************************************)
(* Decompressor::decompress_detailed.  A datagram comes in whole bytes, so *)
(* it ends in up to seven padding bits nobody counted.  The decompressor   *)
(* makes one attempt for each possible number of zero padding bits, as if  *)
(* the datagram ended there: it selects the rule, decodes the rule's field *)
(* entries one after the other, and reconstructs the packet from them and  *)
(* from the whole bytes left unread.  One attempt must succeed, and no     *)
(* two.                                                                    *)
(***************************************************************************)
EXTENDS SchcContext

CONSTANTS
  Datagrams    \* datagrams that arrive, in bits

ASSUME DatagramsAssumption == \A d \in Datagrams : d \in Bits /\ Len(d) % 8 = 0

VARIABLES
  datagram,   \* the padded datagram under decompression
  padding,    \* bits the current attempt takes for padding
  stage,      \* "select", "fields", "finish", "answered"
  selected,   \* the rule of the current attempt, or 0
  next,       \* the entry to decode next
  pos,        \* the reader position
  fields,     \* the field store of the current attempt
  successes,  \* what the attempts so far restored
  firstError, \* the error of the first attempt that failed
  answer      \* what decompress_detailed returns

attemptVars == <<selected, next, pos, fields>>
decompressVars == <<context, datagram, padding, stage, selected, next, pos,
                    fields, successes, firstError, answer>>

NoError == "none"
NoAnswer == Err("none")

Start(d) ==
  /\ datagram = d
  /\ padding = 0
  /\ stage = "select"
  /\ selected = 0 /\ next = 1 /\ pos = 0 /\ fields = <<>>
  /\ successes = <<>>
  /\ firstError = NoError
  /\ answer = NoAnswer

DecompressInit ==
  /\ ContextInit
  /\ \E d \in Datagrams : Start(d)

-----------------------------------------------------------------------------
(* The bits the current attempt can read.                                  *)
Wire == SubSeq(datagram, 1, Len(datagram) - padding)
Remaining == Len(Wire) - pos

LastPadding == IF Len(datagram) < 7 THEN Len(datagram) ELSE 7

(* zero_padding_bits.                                                      *)
ZeroPadding == From(datagram, Len(datagram) - padding) = Zeros(padding)

(* select_rule: the first rule in load order whose ID the wire starts with.*)
RulesFor(wire) == {i \in 1..Len(rules) : IsPrefix(IdBits(rules[i]), wire)}
SelectRule(wire) == Min(RulesFor(wire))

NextAttempt ==
  /\ padding' = padding + 1
  /\ stage' = "select"
  /\ selected' = 0 /\ next' = 1 /\ pos' = 0 /\ fields' = <<>>

AttemptFails(e) ==
  /\ firstError' = IF firstError = NoError THEN e ELSE firstError
  /\ NextAttempt
  /\ UNCHANGED successes

AttemptSucceeds(rule, packet) ==
  /\ successes' = Append(successes, [bits |-> Len(Wire), rule |-> rule,
                                     packet |-> packet])
  /\ NextAttempt
  /\ UNCHANGED firstError

AttemptYields(rule, outcome) ==
  \/ outcome.ok /\ AttemptSucceeds(rule, outcome.value)
  \/ ~outcome.ok /\ AttemptFails(outcome.error)

(* decode_no_compression_payload: the rest, if it is whole bytes.          *)
RestAsPacket(rest) ==
  IF Len(rest) % 8 # 0 THEN Err("InvalidResidue")
  ELSE IF ValidLengths(rest) THEN Ok(rest) ELSE Err("Packet")

(* One pass of the loop up to the rule: padding that is not zero rules the *)
(* length out, and a rule without fields to decode decides at once.        *)
SkipAttempt ==
  /\ stage = "select"
  /\ padding <= LastPadding
  /\ ~ZeroPadding
  /\ NextAttempt
  /\ UNCHANGED <<context, datagram, successes, firstError, answer>>

Select ==
  /\ stage = "select"
  /\ padding <= LastPadding
  /\ ZeroPadding
  /\ \/ RulesFor(Wire) = {} /\ AttemptFails("NoMatchingRule")
     \/ /\ RulesFor(Wire) # {}
        /\ LET i == SelectRule(Wire)
               rest == From(Wire, rules[i].id.len)
           IN \/ /\ rules[i].nature = "fragmentation"
                 /\ AttemptFails("UnsupportedRuleNature")
              \/ /\ rules[i].nature # "fragmentation"
                 /\ WrapsPacket(rules[i])
                 /\ AttemptYields(i, RestAsPacket(rest))
              \/ /\ rules[i].nature # "fragmentation"
                 /\ ~WrapsPacket(rules[i])
                 /\ selected' = i
                 /\ pos' = rules[i].id.len
                 /\ stage' = "fields"
                 /\ UNCHANGED <<padding, next, fields, successes, firstError>>
  /\ UNCHANGED <<context, datagram, answer>>

(* decode_fields, one entry: entries for the other direction, the marker   *)
(* and computed fields are passed over.                                    *)
Skipped(entry) ==
  \/ ~Accepts(entry, direction)
  \/ entry.field = Marker
  \/ entry.action = "compute"

(* The receiver's own idea of the scope an entry is in, and of where a     *)
(* field may be.                                                           *)
(*                                                                         *)
(* Mutant: a second version does not begin the embedded packet.            *)
ReceiverScopeFlat(entry, store) == Ok(Reached(store))

ReceiverScope(entry, store) ==
  IF Reached(store) = "embedded" \/ OpensEmbedded(entry, store)
  THEN Ok("embedded")
  ELSE IF TransportTooEarly(entry, store) THEN Err("InvalidResidue") ELSE Ok("outer")

ReceiverPosition(entry, scope) ==
  \/ entry.position = 0
  \/ entry.field = Option
  \/ <<scope, entry.position>> \in {<<"outer", 1>>, <<"embedded", 2>>}

Decoded(entry, bits, from, store) ==
  LET scope == ReceiverScope(entry, store)
      decoded == DecodeField(entry, bits, from, store)
  IN IF ~scope.ok THEN scope
     ELSE IF ~ReceiverPosition(entry, scope.value) THEN Err("InvalidResidue")
     ELSE IF ~decoded.ok THEN decoded
     ELSE Ok([pos |-> decoded.value.pos,
              field |-> [field |-> entry.field, number |-> entry.number,
                         index |-> entry.index, scope |-> scope.value,
                         value |-> decoded.value.value]])

DecodeEntry ==
  /\ stage = "fields"
  /\ next <= Len(rules[selected].entries)
  /\ LET entry == rules[selected].entries[next]
         outcome == Decoded(entry, Wire, pos, fields)
     IN \/ /\ Skipped(entry)
           /\ next' = next + 1
           /\ UNCHANGED <<padding, stage, selected, pos, fields, successes,
                          firstError>>
        \/ /\ ~Skipped(entry) /\ outcome.ok
           /\ fields' = Append(fields, outcome.value.field)
           /\ pos' = outcome.value.pos
           /\ next' = next + 1
           /\ UNCHANGED <<padding, stage, selected, successes, firstError>>
        \/ ~Skipped(entry) /\ ~outcome.ok /\ AttemptFails(outcome.error)
  /\ UNCHANGED <<context, datagram, answer>>

(* Mutant: up to seven bits left unread pass for padding.                  *)
FinishTolerant ==
  /\ stage = "fields"
  /\ next > Len(rules[selected].entries)
  /\ AttemptYields(selected,
       IF Remaining < 8 THEN Reconstruct(direction, fields)
       ELSE IF Remaining % 8 # 0 THEN Err("InvalidResidue")
       ELSE ReconstructWithSuffix(direction, fields, From(Wire, pos)))
  /\ UNCHANGED <<context, datagram, answer>>

(* After the last entry.  Whole bytes left unread are the payload that a   *)
(* rule without a payload entry carries as it is; fewer than eight bits    *)
(* must be none.                                                           *)
Finish ==
  /\ stage = "fields"
  /\ next > Len(rules[selected].entries)
  /\ LET carries == \A f \in PayloadFields : ~Has(fields, f)
     IN AttemptYields(selected,
          IF Remaining = 0 THEN Reconstruct(direction, fields)
          ELSE IF Remaining < 8 \/ ~carries \/ Remaining % 8 # 0
               THEN Err("InvalidResidue")
          ELSE ReconstructWithSuffix(direction, fields, From(Wire, pos)))
  /\ UNCHANGED <<context, datagram, answer>>

(* unique_padding_bit_length: exactly one attempt may have succeeded.      *)
Answer ==
  /\ stage = "select"
  /\ padding > LastPadding
  /\ answer' = CASE Len(successes) = 0 -> Err(firstError)
                 [] Len(successes) = 1 -> Ok(successes[1])
                 [] OTHER -> Err("AmbiguousPadding")
  /\ stage' = "answered"
  /\ UNCHANGED <<context, datagram, padding, attemptVars, successes,
                 firstError>>

Decompress == SkipAttempt \/ Select \/ DecodeEntry \/ Finish \/ Answer

DecompressSpec == DecompressInit /\ [][Decompress]_decompressVars
-----------------------------------------------------------------------------
(* Correctness.  However many trailing zeros a datagram has, it has one    *)
(* reading: rule IDs, field lengths and the eight-bit unit of carried      *)
(* payloads leave room for one number of padding bits, so a packet never   *)
(* gets lost as ambiguous.                                                 *)
NeverAmbiguous ==
  /\ Len(successes) <= 1
  /\ answer # Err("AmbiguousPadding")

(* The loader's check of rule IDs is what makes "the first rule whose ID   *)
(* the datagram starts with" the only one, in every attempt and wherever   *)
(* the rule stands in the set.                                             *)
OneRulePerDatagram ==
  /\ \A i, j \in RulesFor(datagram) : i = j
  /\ selected # 0 => RulesFor(datagram) = {selected}
  /\ \A k \in 1..Len(successes) : RulesFor(datagram) = {successes[k].rule}

(* A checksum the rule leaves to the receiver verifies over the whole      *)
(* restored segment, the payload carried behind the residue included.      *)
SegmentSum(packet) ==
  Fold16(Fold16(WordSum(Slice(packet, 64, 256)) + Len(Upper(packet)) \div 8
                + NextHeader(packet) + WordSum(Upper(packet))))

(* No outer entry gives the checksum of the upper layer.                   *)
LeavesChecksum(rule, upper) ==
  /\ ~WrapsPacket(rule)
  /\ \A k \in 1..Len(rule.entries) :
       LET entry == rule.entries[k]
       IN entry.field = SumField(upper) /\ entry.position < 2 =>
            entry.action = "compute" \/ ~Accepts(entry, direction)

ComputedChecksumVerifies ==
  \A k \in 1..Len(successes) :
     LET restored == successes[k].packet
     IN LeavesChecksum(rules[successes[k].rule], NextHeader(restored)) =>
          SegmentSum(restored) = AllOnes
=============================================================================
