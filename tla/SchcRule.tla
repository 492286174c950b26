------------------------------ MODULE SchcRule ------------------------------
(***************************************************************************)
(* Rules as the loaders leave them in a RuleContext, and the checks a rule *)
(* set passes before it gets there.                                        *)
(*                                                                         *)
(* A field entry is a record                                               *)
(*   field     the field identity, without its prefix fid-                 *)
(*   number    the option number of a "coap-option" entry, else 0          *)
(*   index     entry_index, by which later entries refer to this one       *)
(*   position  field_position: an occurrence, or 0 for any                 *)
(*   dir       "bi", "up" or "down"                                        *)
(*   length    [kind, n]: kind "fixed" (n bits), "bytes" or "bits" (the    *)
(*             length is variable), "token", "previous" or "previous-bits" *)
(*             (n is the index of the entry that holds the length in bytes *)
(*             or bits), "function" (the unknown function with SID n)      *)
(*   target    [kind, values]: kind "none", "bytes" or "mapping"           *)
(*   matching  [kind, n]: "equal", "ignore", "msb" (n bits) or "mapping"   *)
(*   action    the CDA                                                     *)
(* and a rule is [id |-> [value, len], nature, entries].                   *)
(***************************************************************************)
EXTENDS SchcBits

Natures == {"compression", "management", "no-compression", "fragmentation"}

Directions == {"up", "down"}

(* DirectionSelector::accepts.                                             *)
Accepts(entry, direction) == entry.dir \in {"bi", direction}

(* The fields the receiver can compute, and the marker entry.              *)
Computable == {"ipv6-payload-length", "udp-length", "udp-checksum",
               "icmpv6-checksum"}
Marker == "coap-payload-marker"
Option == "coap-option"
Payload == "payload"

LengthKinds == {"fixed", "bytes", "bits", "token", "previous", "previous-bits",
                "function"}
Operators == {"equal", "ignore", "msb", "mapping"}
Actions == {"not-sent", "value-sent", "mapping-sent", "lsb", "compute",
            "device-iid", "app-iid"}

FieldEntries ==
  {entry \in [field: STRING, number: Nat, index: Nat, position: Nat,
              dir: {"bi", "up", "down"}, length: [kind: LengthKinds, n: Nat],
              target: [kind: {"none", "bytes", "mapping"}, values: Seq(Bits)],
              matching: [kind: Operators, n: Nat], action: Actions] :
     entry.target.kind = "bytes" => Len(entry.target.values) = 1}

RuleRecords ==
  [id: [value: Nat, len: Nat], nature: Natures, entries: Seq(FieldEntries)]

IdBits(rule) == BitsOf(rule.id.value, rule.id.len)

-----------------------------------------------------------------------------
(* validate_rule_id: 1 to 64 bits, and the value fits.                     *)
ValidRuleId(id) ==
  /\ id.len \in 1..64
  /\ id.len < 64 => id.value < 2^id.len

(* rule_id_collision compares the shorter ID with the top bits of the      *)
(* longer one, which it gets by a right shift.                             *)
(*                                                                         *)
(* Mutant: a longer ID is only compared with shorter ones before it.       *)
RuleIdCollisionOneWay(earlier, later) ==
  /\ earlier.len <= later.len
  /\ later.value \div 2^(later.len - earlier.len) = earlier.value

RuleIdCollision(earlier, later) ==
  IF earlier.len <= later.len
  THEN later.value \div 2^(later.len - earlier.len) = earlier.value
  ELSE earlier.value \div 2^(earlier.len - later.len) = later.value

ValidRuleIdPrefixes(rules) ==
  \A j \in 1..Len(rules) : \A i \in 1..(j - 1) :
     ~RuleIdCollision(rules[i].id, rules[j].id)

(* fid-payload takes a length in whole bytes.                              *)
PayloadLengthSupported(entry) ==
  \/ entry.field # Payload
  \/ entry.length.kind = "fixed" /\ entry.length.n % 8 = 0
  \/ entry.length.kind \in {"bytes", "previous"}
  \/ entry.length.kind = "bits" /\ entry.action = "lsb"

(* validate_field_rule.                                                    *)
ValidEntry(entry) ==
  /\ entry.matching.kind \in {"equal", "msb"} => entry.target.kind = "bytes"
  /\ entry.matching.kind = "mapping" \/ entry.action = "mapping-sent" =>
       entry.target.kind = "mapping" /\ entry.target.values # <<>>
  /\ entry.action \in {"not-sent", "lsb"} /\ entry.field # Marker =>
       entry.target.kind = "bytes"
  /\ entry.action = "lsb" => entry.matching.kind = "msb"
  /\ entry.action = "compute" => entry.field \in Computable
  /\ entry.action = "device-iid" => entry.field = "ipv6-deviid"
  /\ entry.action = "app-iid" => entry.field = "ipv6-appiid"
  /\ entry.field = Marker =>
       entry.action = "not-sent" /\ entry.matching.kind = "ignore"
  /\ PayloadLengthSupported(entry)

(* normalize_cbor_fields leaves distinct entry indexes in ascending order; *)
(* they need not be consecutive.                                           *)
Normalized(entries) ==
  \A i, j \in 1..Len(entries) : i < j => entries[i].index < entries[j].index

(* A rule set that from_json_str or from_cbor_slice accepts.               *)
Loads(rules) ==
  /\ \A i \in 1..Len(rules) :
       /\ ValidRuleId(rules[i].id)
       /\ rules[i].nature \in Natures
       /\ Normalized(rules[i].entries)
       /\ \A k \in 1..Len(rules[i].entries) : ValidEntry(rules[i].entries[k])
  /\ ValidRuleIdPrefixes(rules)
=============================================================================
