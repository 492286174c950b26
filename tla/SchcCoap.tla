------------------------------ MODULE SchcCoap ------------------------------
(***************************************************************************)
(* CoAP messages as CoapMessage parses and serializes them.  A message is  *)
(* a record of the header fields and the token as bits, of the options as  *)
(* a sequence of [number, value], and of the payload.  An option says on   *)
(* the wire by how much its number exceeds that of the option before it.   *)
(***************************************************************************)
EXTENDS SchcPacket

PayloadMarker == BitsOf(255, 8)

(* encode_extended and the wire form of an option.                         *)
Nibble(n) == IF n <= 12 THEN n ELSE IF n <= 268 THEN 13 ELSE 14

Extension(n) ==
  CASE Nibble(n) <= 12 -> <<>>
    [] Nibble(n) = 13 -> BitsOf(n - 13, 8)
    [] Nibble(n) = 14 -> BitsOf(n - 269, 16)

OptionBits(delta, value) ==
  LET size == Len(value) \div 8
  IN BitsOf(Nibble(delta), 4) \o BitsOf(Nibble(size), 4)
     \o Extension(delta) \o Extension(size) \o value

Delta(options, k) ==
  options[k].number - (IF k = 1 THEN 0 ELSE options[k - 1].number)

(* CoapMessage::to_vec.                                                    *)
HeadBits(m) ==
  m.version \o m.type \o BitsOf(Len(m.token) \div 8, 4) \o m.code \o m.mid \o m.token

OptionsBits(options) ==
  FlattenSeq([k \in 1..Len(options) |->
                OptionBits(Delta(options, k), options[k].value)])

CoapBits(m) ==
  HeadBits(m) \o OptionsBits(m.options)
  \o (IF m.payload = <<>> THEN <<>> ELSE PayloadMarker \o m.payload)

(* What CoapMessage::from_parts and CoapOption::new ask of options.        *)
Encodable(n) == n <= 65804

OptionsInOrder(options) ==
  \A k \in 1..Len(options) :
     /\ Delta(options, k) >= 0
     /\ Encodable(Delta(options, k))
     /\ Encodable(Len(options[k].value) \div 8)

-----------------------------------------------------------------------------
(* read_extended: the number a nibble and its extension at position at     *)
(* denote, and the position after the extension.                           *)
ReadExtended(input, nibble, at) ==
  LET width == IF nibble = 13 THEN 8 ELSE 16
      least == IF nibble = 13 THEN 13 ELSE 269
  IN CASE nibble <= 12 -> Ok([n |-> nibble, at |-> at])
       [] nibble \in {13, 14} ->
            IF at + width > Len(input) THEN Err("Packet")
            ELSE Ok([n |-> Number(Slice(input, at, width)) + least,
                     at |-> at + width])
       [] nibble = 15 -> Err("Packet")

(* One turn of CoapMessage::parse's loop.  The sum of all deltas that fit  *)
(* an IPv6 packet is below 2^32, so that option numbers do not overflow.   *)
ReadOption(input, at) ==
  LET nibble(offset) == Number(Slice(input, at + offset, 4))
      option(delta, size) ==
        IF size.at + 8 * size.n > Len(input) THEN Err("Packet")
        ELSE Ok([kind |-> "option", delta |-> delta,
                 value |-> Slice(input, size.at, 8 * size.n),
                 at |-> size.at + 8 * size.n])
  IN Then(ReadExtended(input, nibble(0), at + 8), LAMBDA delta :
       Then(ReadExtended(input, nibble(4), delta.at), LAMBDA size :
         option(delta.n, size)))

(* The items that follow the token: options, and the payload that ends     *)
(* them.  An error ends them too.                                          *)
ItemAt(input, at) ==
  LET payload(value) == [kind |-> "payload", value |-> value, delta |-> 0]
      error == [kind |-> "error", delta |-> 0]
      item(option) == IF option.ok THEN option.value ELSE error
  IN CASE at = Len(input) -> payload(<<>>)
       [] at < Len(input) /\ Slice(input, at, 8) = PayloadMarker ->
            IF at + 8 = Len(input) THEN error ELSE payload(From(input, at + 8))
       [] OTHER -> item(ReadOption(input, at))

Items(input, start) ==
  LET items[at \in 0..Len(input)] ==
        LET item == ItemAt(input, at)
        IN <<item>> \o (IF item.kind = "option" THEN items[item.at] ELSE <<>>)
  IN items[start]

(* CoapMessage::parse.                                                     *)
CoapOptions(items) ==
  LET number[k \in 0..Len(items)] ==
        IF k = 0 THEN 0 ELSE number[k - 1] + items[k].delta
  IN [k \in 1..(Len(items) - 1) |-> [number |-> number[k], value |-> items[k].value]]

ParseCoap(input) ==
  LET size == Number(Slice(input, 4, 4))
      message(items) ==
        IF items[Len(items)].kind = "error" THEN Err("Packet")
        ELSE Ok([version |-> Slice(input, 0, 2), type |-> Slice(input, 2, 2),
                 code |-> Slice(input, 8, 8), mid |-> Slice(input, 16, 16),
                 token |-> Slice(input, 32, 8 * size),
                 options |-> CoapOptions(items),
                 payload |-> items[Len(items)].value])
  IN IF Len(input) < 32 THEN Err("Packet")
     ELSE IF size > 8 \/ 32 + 8 * size > Len(input) THEN Err("Packet")
     ELSE message(Items(input, 32 + 8 * size))
=============================================================================
