------------------------------ MODULE SchcField ------------------------------
(***************************************************************************)
(* How one field entry turns a field value into residue bits and back:     *)
(* the compressor's matching operators and actions, the decompressor's     *)
(* length and value decoding, and the length prefix they share.            *)
(*                                                                         *)
(* A field store is the sequence of [field, number, index, scope, value]   *)
(* records in the order the fields were extracted or decoded; scope is     *)
(* "outer", or "embedded" in the packet that an ICMPv6 error carries.      *)
(***************************************************************************)
EXTENDS SchcRule

CONSTANTS
  Provider,   \* Provider[f]: the IID the external value provider has for f
  NoProvider  \* the decompressor has no provider

IidFields == {"ipv6-deviid", "ipv6-appiid"}

(* The provider answers with whole bytes.                                  *)
ASSUME ProviderAssumption ==
  Provider # NoProvider =>
    \A f \in IidFields : Provider[f] \in Bits /\ Len(Provider[f]) % 8 = 0

StoredFields == [field: STRING, number: Nat, index: Nat,
                 scope: {"outer", "embedded"}, value: Bits]

(* bytes_as_value: a target as a value of n bits.  Up to 64 bits it is a   *)
(* number, aligned to the right; beyond that it is aligned to the left.    *)
BytesAsValue(target, n) ==
  LET room == 8 * Bytes(n)
      wide == target \o Zeros(room - Len(target))
      excess == Len(target) - n
  IN IF Len(target) > room THEN Err("InvalidResidue")
     ELSE IF n > 64
          THEN IF 1 \in {wide[i] : i \in (n + 1)..room}
               THEN Err("InvalidResidue")
               ELSE Ok(SubSeq(wide, 1, n))
     ELSE IF excess <= 0 THEN Ok(Zeros(n - Len(target)) \o target)
     ELSE IF 1 \in {target[i] : i \in 1..excess} THEN Err("InvalidBitLength")
     ELSE Ok(From(target, excess))

(* The single byte string of an equal, msb, not-sent or lsb entry.         *)
Target(entry) == entry.target.values[1]

Unmatched == Ok([matched |-> FALSE])
Matched(index) == Ok([matched |-> TRUE, index |-> index])

(* matches_branch.  The result carries the index of the mapping value, or  *)
(* 0.  A mapping is searched in order, and a value that cannot be compared *)
(* ends the search with its error.                                         *)
MatchEqual(entry, v) ==
  LET t == BytesAsValue(Target(entry), Len(v))
  IN IF ~t.ok THEN t ELSE IF t.value = v THEN Matched(0) ELSE Unmatched

MatchMsb(entry, v) ==
  LET t == BytesAsValue(Target(entry), Len(v))
      n == entry.matching.n
  IN IF n > Len(v) THEN Err("InvalidBitLength")
     ELSE IF ~t.ok THEN t
     ELSE IF SubSeq(t.value, 1, n) = SubSeq(v, 1, n) THEN Matched(0)
     ELSE Unmatched

MatchMapping(entry, v) ==
  LET as(i) == BytesAsValue(entry.target.values[i], Len(v))
      ends == {i \in 1..Len(entry.target.values) : ~as(i).ok \/ as(i).value = v}
      first == Min(ends)
  IN IF ends = {} THEN Unmatched
     ELSE IF as(first).ok THEN Matched(first) ELSE as(first)

Matches(entry, v) ==
  CASE entry.matching.kind = "equal" -> MatchEqual(entry, v)
    [] entry.matching.kind = "ignore" -> Matched(0)
    [] entry.matching.kind = "msb" -> MatchMsb(entry, v)
    [] entry.matching.kind = "mapping" -> MatchMapping(entry, v)

-----------------------------------------------------------------------------
(* write_variable_length_prefix and read_variable_length_prefix: 4 bits,   *)
(* 15 and 8 bits, or 15, 255 and 16 bits.                                  *)
(*                                                                         *)
(* Mutant: fifteen is still written in the short form.                     *)
WritePrefixLong(n) ==
  IF n <= 15 THEN Ok(BitsOf(n, 4))
  ELSE IF n <= 254 THEN Ok(BitsOf(15, 4) \o BitsOf(n, 8))
  ELSE IF n <= 65535 THEN Ok(BitsOf(15, 4) \o BitsOf(255, 8) \o BitsOf(n, 16))
  ELSE Err("InvalidResidue")

WritePrefix(n) ==
  IF n <= 14 THEN Ok(BitsOf(n, 4))
  ELSE IF n <= 254 THEN Ok(BitsOf(15, 4) \o BitsOf(n, 8))
  ELSE IF n <= 65535 THEN Ok(BitsOf(15, 4) \o BitsOf(255, 8) \o BitsOf(n, 16))
  ELSE Err("InvalidResidue")

ReadPrefix(bits, pos) ==
  LET short == Read(bits, pos, 4)
      medium == Read(bits, pos + 4, 8)
      long == Read(bits, pos + 12, 16)
      length(r) == Ok([n |-> Number(r.value.bits), pos |-> r.value.pos])
  IN IF ~short.ok THEN short
     ELSE IF Number(short.value.bits) < 15 THEN length(short)
     ELSE IF ~medium.ok THEN medium
     ELSE IF Number(medium.value.bits) < 255 THEN length(medium)
     ELSE IF ~long.ok THEN long
     ELSE length(long)

(* mapping_index_bits: the bits of the largest index.                      *)
IndexBits(count) ==
  IF count <= 1 THEN 0 ELSE CHOOSE b \in 1..count :
                              2^b > count - 1 /\ 2^(b - 1) <= count - 1

Variable(entry) == entry.length.kind \in {"bytes", "bits"}

(* The length prefix of a field sent by value or by its low bits.          *)
(*                                                                         *)
(* Mutant: a length in bits is written in bytes.                           *)
LengthPrefixInBytes(entry, v) ==
  IF Variable(entry) THEN WritePrefix(Bytes(Len(v))) ELSE Ok(<<>>)

LengthPrefix(entry, v) ==
  CASE entry.length.kind = "bytes" ->
         IF Len(v) % 8 # 0 THEN Err("InvalidResidue")
         ELSE WritePrefix(Len(v) \div 8)
    [] entry.length.kind = "bits" -> WritePrefix(Len(v))
    [] OTHER -> Ok(<<>>)

(* write_residue: the bits the compressor sends for value v.               *)
WriteResidue(entry, v, index) ==
  LET prefix == LengthPrefix(entry, v)
      after(rest) == IF prefix.ok THEN Ok(prefix.value \o rest) ELSE prefix
  IN CASE entry.action \in {"not-sent", "compute", "device-iid", "app-iid"} -> Ok(<<>>)
       [] entry.action = "value-sent" -> after(v)
       [] entry.action = "mapping-sent" ->
            IF index = 0 THEN Err("InvalidResidue")
            ELSE Ok(BitsOf(index - 1, IndexBits(Len(entry.target.values))))
       [] entry.action = "lsb" -> after(From(v, entry.matching.n))

-----------------------------------------------------------------------------
(* LengthResolver::resolve, for a length that the rule or an earlier field *)
(* determines: the latest TKL, or the first field with the entry's index.  *)
(* A length function the program does not know has no length.              *)
Resolve(length, store) ==
  LET known == {i \in 1..Len(store) : store[i].index = length.n}
      first == Min(known)
      tkl == {i \in 1..Len(store) : store[i].field = "coap-tkl"}
  IN CASE length.kind = "fixed" -> Ok(length.n)
       [] length.kind = "token" ->
            IF tkl = {} THEN Err("InvalidResidue")
            ELSE Ok(8 * Number(store[Max(tkl)].value))
       [] length.kind = "function" -> Err("InvalidResidue")
       [] length.kind \in {"previous", "previous-bits"} ->
            IF known = {} THEN Err("InvalidResidue")
            ELSE IF Len(store[first].value) > 64 THEN Err("InvalidBitLength")
            ELSE Ok(Number(store[first].value)
                    * (IF length.kind = "previous" THEN 8 ELSE 1))

(* One entry of traverse_branch, once the field is extracted: refused when  *)
(* the value has not the determined length or does not match, failed when  *)
(* a step cannot be done, else the bits sent for it.                       *)
Refused == [kind |-> "refused"]
Failed(e) == [kind |-> "failed", error |-> e]
Sent(bits) == [kind |-> "sent", bits |-> bits]

EncodeField(entry, v, store) ==
  LET known == IF Variable(entry) THEN Ok(Len(v)) ELSE Resolve(entry.length, store)
      match == Matches(entry, v)
      residue == WriteResidue(entry, v, match.value.index)
  IN IF ~known.ok THEN Failed(known.error)
     ELSE IF known.value # Len(v) THEN Refused
     ELSE IF ~match.ok THEN Failed(match.error)
     ELSE IF ~match.value.matched THEN Refused
     ELSE IF ~residue.ok THEN Failed(residue.error)
     ELSE Sent(residue.value)

(* decode_field_len: the field's length in bits and the reader after it.   *)
DecodeLength(entry, bits, pos, store) ==
  LET at(n) == Ok([n |-> n, pos |-> pos])
      prefix == ReadPrefix(bits, pos)
      unit == IF entry.length.kind = "bytes" THEN 8 ELSE 1
      known == Resolve(entry.length, store)
  IN IF Variable(entry)
     THEN CASE entry.action = "not-sent" -> at(Len(Target(entry)))
            [] entry.action = "mapping-sent" -> at(0)
            [] OTHER -> IF prefix.ok
                        THEN Ok([prefix.value EXCEPT !.n = unit * @])
                        ELSE prefix
     ELSE IF known.ok THEN at(known.value) ELSE known

(* decode_field_value: the value and the reader position after it.         *)
DecodeNotSent(entry, n, pos) ==
  LET t == BytesAsValue(Target(entry), n)
  IN IF t.ok THEN Ok([value |-> t.value, pos |-> pos]) ELSE t

DecodeMapping(entry, bits, pos) ==
  LET b == IndexBits(Len(entry.target.values))
      r == Read(bits, pos, b)
      index == Number(r.value.bits) + 1
  IN IF ~r.ok THEN r
     ELSE IF index > Len(entry.target.values) THEN Err("InvalidResidue")
     ELSE Ok([value |-> entry.target.values[index], pos |-> r.value.pos])

DecodeLsb(entry, n, bits, pos) ==
  LET t == BytesAsValue(Target(entry), n)
      r == Read(bits, pos, n - entry.matching.n)
  IN IF entry.matching.n > n THEN Err("InvalidBitLength")
     ELSE IF ~t.ok THEN t
     ELSE IF ~r.ok THEN r
     ELSE Ok([value |-> SubSeq(t.value, 1, entry.matching.n) \o r.value.bits,
              pos |-> r.value.pos])

DecodeIid(entry, n, pos) ==
  LET iid == Provider[entry.field]
      v == BytesAsValue(iid, n)
  IN IF Provider = NoProvider THEN Err("InvalidResidue")
     ELSE IF Len(iid) # 8 * Bytes(n) THEN Err("InvalidResidue")
     ELSE IF v.ok THEN Ok([value |-> v.value, pos |-> pos]) ELSE v

DecodeValue(entry, n, bits, pos) ==
  LET r == Read(bits, pos, n)
  IN CASE entry.action = "not-sent" -> DecodeNotSent(entry, n, pos)
       [] entry.action = "value-sent" ->
            IF r.ok THEN Ok([value |-> r.value.bits, pos |-> r.value.pos]) ELSE r
       [] entry.action = "mapping-sent" -> DecodeMapping(entry, bits, pos)
       [] entry.action = "lsb" -> DecodeLsb(entry, n, bits, pos)
       [] entry.action \in {"device-iid", "app-iid"} -> DecodeIid(entry, n, pos)

(* One entry of decode_fields that is not skipped: its length, then its    *)
(* value.  A TKL that sets the token's length is a number.                 *)
DecodeField(entry, bits, pos, store) ==
  LET length == DecodeLength(entry, bits, pos, store)
      decoded == DecodeValue(entry, length.value.n, bits, length.value.pos)
  IN IF ~length.ok THEN length
     ELSE IF decoded.ok /\ entry.field = "coap-tkl" /\ Len(decoded.value.value) > 64
          THEN Err("InvalidBitLength")
     ELSE decoded
=============================================================================
