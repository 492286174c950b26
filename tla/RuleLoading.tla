----------------------------- MODULE RuleLoading -----------------------------
(***************************************************************************)
(* RuleContext::from_json_str and from_cbor_slice: the two formats of rule *)
(* files, read against a SID registry.  JSON names identities and leaves   *)
(* entry indexes to the order of the file; CORECONF CBOR numbers them and  *)
(* gives every entry its index.                                            *)
(*                                                                         *)
(* A document is what the parsers of the two formats hand over: records    *)
(* for JSON, [type, v] values for CBOR, whose maps are functions from      *)
(* their integer keys.  Field identifiers are written without fid-.        *)
(***************************************************************************)
EXTENDS SidRegistry, SchcRule

FieldNames ==
  {"ipv6-version", "ipv6-trafficclass", "ipv6-flowlabel", "ipv6-payload-length",
   "ipv6-nextheader", "ipv6-hoplimit", "ipv6-devprefix", "ipv6-deviid",
   "ipv6-appprefix", "ipv6-appiid", "udp-dev-port", "udp-app-port",
   "udp-length", "udp-checksum", "udp-payload", "coap-version", "coap-type",
   "coap-tkl", "coap-code", "coap-mid", "coap-token", "coap-payload", Marker,
   "icmpv6-type", "icmpv6-code", "icmpv6-checksum", "icmpv6-identifier",
   "icmpv6-sequence", "icmpv6-mtu", "icmpv6-pointer", "icmpv6-payload",
   "unused", Payload}

Invalid == Err("InvalidRuleField")

(* field_ref with resolve_supported_field_ref: a registered identifier the *)
(* codec does not know is an error.                                        *)
FieldRefOf(identifier) ==
  CASE identifier \in FieldNames -> Ok([field |-> identifier, number |-> 0])
    [] identifier = "coap-option-uri-host" -> Ok([field |-> Option, number |-> 3])
    [] identifier = "coap-option-uri-path" -> Ok([field |-> Option, number |-> 11])
    [] OTHER -> Invalid

(* Entries or rules one after the other, as far as the first that fails.   *)
AllOk(results) ==
  LET bad == {k \in 1..Len(results) : ~results[k].ok}
  IN IF bad = {} THEN Ok([k \in 1..Len(results) |-> results[k].value])
     ELSE results[Min(bad)]

(* An entry from its parts, once each of them could be read.               *)
Entry(ref, index, position, dir, length, target, matching, action) ==
  LET entry == [field |-> ref.value.field, number |-> ref.value.number,
                index |-> index.value, position |-> position.value,
                dir |-> dir.value, length |-> length.value,
                target |-> target.value, matching |-> matching.value,
                action |-> action.value]
  IN IF /\ ref.ok /\ index.ok /\ position.ok /\ dir.ok /\ length.ok
        /\ target.ok /\ matching.ok /\ action.ok
     THEN IF ValidEntry(entry) THEN Ok(entry) ELSE Invalid
     ELSE Invalid

(* A rule set from its rules, in file order.                               *)
RuleSet(results) ==
  LET loaded == AllOk(results)
  IN IF ~loaded.ok THEN loaded
     ELSE IF ValidRuleIdPrefixes(loaded.value) THEN loaded
     ELSE Err("AmbiguousRuleIdPrefix")

-----------------------------------------------------------------------------
(* JSON.  Identities are looked up in the registry by name, although only  *)
(* their being there matters.                                              *)
Registered(identifier) == SidOf(identifier) # Absent

(* A name of the format, and the identifier that must be registered for    *)
(* it.                                                                     *)
Named(identifier, value) == IF Registered(identifier) THEN Ok(value) ELSE Invalid

JsonFieldRef(field) ==
  IF field.field = Option THEN Ok([field |-> Option, number |-> field.number])
  ELSE IF Registered(field.field) THEN FieldRefOf(field.field) ELSE Invalid

(* json_field_length: length or length_bits, and not both.                 *)
(*                                                                         *)
(* Mutant: length_bits gives way when both are there.                      *)
JsonLengthFirst(field) ==
  CASE field.length # Absent -> Ok(field.length)
    [] field.length = Absent /\ field.length_bits # Absent ->
         Ok([kind |-> "fixed", n |-> field.length_bits])
    [] OTHER -> Invalid

JsonLength(field) ==
  CASE field.length # Absent /\ field.length_bits = Absent -> Ok(field.length)
    [] field.length = Absent /\ field.length_bits # Absent ->
         Ok([kind |-> "fixed", n |-> field.length_bits])
    [] OTHER -> Invalid

JsonDirection(name) ==
  CASE name = "bi" -> Named("di-bidirectional", name)
    [] name = "up" -> Named("di-up", name)
    [] name = "down" -> Named("di-down", name)
    [] OTHER -> Invalid

JsonMatching(mo) ==
  CASE mo.kind = "equal" -> Named("mo-equal", mo)
    [] mo.kind = "ignore" -> Named("mo-ignore", mo)
    [] mo.kind = "mapping" -> Named("mo-match-mapping", mo)
    [] mo.kind = "msb" -> Named("mo-msb", mo)
    [] OTHER -> Invalid

(* cda and cbor_cda: the identities of the actions.                        *)
ActionOf ==
  [identifier \in {"cda-not-sent", "cda-value-sent", "cda-mapping-sent",
                   "cda-lsb", "cda-compute", "cda-deviid", "cda-appiid"} |->
     CASE identifier = "cda-not-sent" -> "not-sent"
       [] identifier = "cda-value-sent" -> "value-sent"
       [] identifier = "cda-mapping-sent" -> "mapping-sent"
       [] identifier = "cda-lsb" -> "lsb"
       [] identifier = "cda-compute" -> "compute"
       [] identifier = "cda-deviid" -> "device-iid"
       [] identifier = "cda-appiid" -> "app-iid"]

JsonAction(name) ==
  LET known == {i \in DOMAIN ActionOf : ActionOf[i] = name}
  IN IF known = {} THEN Invalid ELSE Named(CHOOSE i \in known : TRUE, name)

(* decode_hex: an even number of digits, each of them a digit.             *)
DecodeHex(digits) ==
  IF Len(digits) % 2 = 0 /\ \A k \in 1..Len(digits) : digits[k] \in 0..15
  THEN Ok(FlattenSeq([k \in 1..Len(digits) |-> BitsOf(digits[k], 4)]))
  ELSE Invalid

JsonTarget(target) ==
  LET decoded == AllOk([k \in 1..Len(target.values) |-> DecodeHex(target.values[k])])
  IN CASE target.kind = "null" -> Ok([kind |-> "none", values |-> <<>>])
       [] target.kind = "string" /\ decoded.ok ->
            Ok([kind |-> "bytes", values |-> decoded.value])
       [] target.kind = "array" /\ decoded.ok ->
            Ok([kind |-> "mapping", values |-> decoded.value])
       [] OTHER -> Invalid

(* load_field.  field_position defaults to 1.                              *)
JsonEntry(field, index) ==
  Entry(JsonFieldRef(field), Ok(index),
        Ok(IF field.field_position = Absent THEN 1 ELSE field.field_position),
        JsonDirection(field.direction), JsonLength(field),
        JsonTarget(field.target), JsonMatching(field.mo), JsonAction(field.cda))

JsonNature(name) ==
  CASE name = Absent -> Ok("compression")
    [] name = "nature-management" -> Ok("management")
    [] name \in Natures -> Ok(name)
    [] OTHER -> Err("InvalidRule")

JsonRule(rule) ==
  LET entries == AllOk([k \in 1..Len(rule.fields) |->
                          JsonEntry(rule.fields[k], k - 1)])
      nature == JsonNature(rule.nature)
      id == [value |-> rule.rule_id, len |-> rule.rule_id_length]
  IN CASE ~ValidRuleId(id) -> Err("InvalidRule")
       [] ValidRuleId(id) /\ ~entries.ok -> entries
       [] ValidRuleId(id) /\ entries.ok /\ ~nature.ok -> nature
       [] OTHER -> Ok([id |-> id, nature |-> nature.value, entries |-> entries.value])

FromJson(document) ==
  RuleSet([k \in 1..Len(document) |-> JsonRule(document[k])])

-----------------------------------------------------------------------------
(* CBOR.  map_value, value_to_u64 and their required variants.             *)
HasKey(value, key) == value.type = "map" /\ key \in DOMAIN value.v

Get(value, key) == IF HasKey(value, key) THEN Ok(value.v[key]) ELSE Invalid

AsInt(value) ==
  IF value.type = "int" /\ value.v \in Nat THEN Ok(value.v) ELSE Invalid

GetInt(value, key) == IF HasKey(value, key) THEN AsInt(value.v[key]) ELSE Invalid

(* integer_to_minimal_bytes, value_to_bytes and bytes_to_usize.            *)
MinimalBytes(n) == BitsOf(n, 8 * (CHOOSE b \in 1..8 : n < 256^b /\
                                    \A c \in 1..(b - 1) : n >= 256^c))

AsByteString(value) ==
  CASE value.type = "bytes" -> Ok(value.v)
    [] value.type = "int" /\ value.v \in Nat -> Ok(MinimalBytes(value.v))
    [] OTHER -> Invalid

AsUsize(bytes) == IF Len(bytes) > 64 THEN Invalid ELSE Ok(Number(bytes))

(* The identifier of a SID, or Absent, which no match arm has.             *)
GetIdentity(value, key) ==
  LET sid == GetInt(value, key)
  IN IF sid.ok THEN IdentifierOf(sid.value) ELSE Absent

(* cbor_target_entries: values with indexes, put in the order of the       *)
(* indexes, which must be 0, 1, 2 and so on.                               *)
(*                                                                         *)
(* Mutant: values stay in the order of the file.                           *)
ValueListUnsorted(value) ==
  LET list == value.v
  IN IF /\ value.type = "array"
        /\ \A k \in 1..Len(list) : GetInt(list[k], 1).ok /\ HasKey(list[k], 2)
        /\ {list[k].v[1].v : k \in 1..Len(list)} = 0..(Len(list) - 1)
     THEN Ok([k \in 1..Len(list) |-> list[k].v[2]])
     ELSE Invalid

ValueList(value) ==
  LET list == value.v
      at(index) == CHOOSE k \in 1..Len(list) : list[k].v[1].v = index
  IN IF /\ value.type = "array"
        /\ \A k \in 1..Len(list) : GetInt(list[k], 1).ok /\ HasKey(list[k], 2)
        /\ {list[k].v[1].v : k \in 1..Len(list)} = 0..(Len(list) - 1)
     THEN Ok([k \in 1..Len(list) |-> list[at(k - 1)].v[2]])
     ELSE Invalid

ByteStrings(value) ==
  LET values == ValueList(value)
  IN IF values.ok
     THEN AllOk([k \in 1..Len(values.value) |-> AsByteString(values.value[k])])
     ELSE Invalid

(* field_length_parameter.                                                 *)
LengthParameter(value) ==
  CASE ~HasKey(value, 6) -> Invalid
    [] HasKey(value, 6) /\ value.v[6].type = "bytes" -> AsUsize(value.v[6].v)
    [] OTHER -> GetInt(value, 6)

(* cbor_field_length and field_length_function: a function whose SID is    *)
(* not registered, or which is not one of these, is kept by its SID.       *)
CborLength(value) ==
  LET given == Get(value, 5)
      sid == AsInt(given.value.v)
      function == IdentifierOf(sid.value)
      parameter == LengthParameter(value)
      from(kind) == IF parameter.ok THEN Ok([kind |-> kind, n |-> parameter.value])
                    ELSE parameter
  IN IF ~given.ok THEN given
     ELSE IF given.value.type = "int"
          THEN IF given.value.v \in Nat THEN Ok([kind |-> "fixed", n |-> given.value.v])
               ELSE Invalid
     ELSE IF given.value.type # "tag45" THEN Invalid
     ELSE IF ~sid.ok THEN Invalid
     ELSE CASE function = "fl-token-length" -> Ok([kind |-> "token", n |-> 0])
            [] function = "fl-variable" -> Ok([kind |-> "bytes", n |-> 0])
            [] function = "fl-variable-bits" -> Ok([kind |-> "bits", n |-> 0])
            [] function = "fl-length-bytes" -> from("previous")
            [] function = "fl-length-bits" -> from("previous-bits")
            [] OTHER -> Ok([kind |-> "function", n |-> sid.value])

CborDirection(value) ==
  LET identity == GetIdentity(value, 7)
  IN CASE identity = "di-bidirectional" -> Ok("bi")
       [] identity = "di-up" -> Ok("up")
       [] identity = "di-down" -> Ok("down")
       [] OTHER -> Invalid

(* cbor_matching_operator: mo-msb takes the first of a list of values.     *)
CborMatching(value) ==
  LET identity == GetIdentity(value, 12)
      plain(kind) == Ok([kind |-> kind, n |-> 0])
      list == IF HasKey(value, 13) THEN ValueList(value.v[13]) ELSE Invalid
      bytes == AsByteString(list.value[1])
      bits == AsUsize(bytes.value)
  IN CASE identity = "mo-equal" -> plain("equal")
       [] identity = "mo-ignore" -> plain("ignore")
       [] identity = "mo-match-mapping" -> plain("mapping")
       [] identity = "mo-msb" ->
            IF ~list.ok THEN Invalid
            ELSE IF list.value = <<>> THEN Invalid
            ELSE IF ~bytes.ok THEN Invalid
            ELSE IF ~bits.ok THEN Invalid
            ELSE Ok([kind |-> "msb", n |-> bits.value])
       [] OTHER -> Invalid

CborAction(value) ==
  LET identity == GetIdentity(value, 16)
  IN IF identity \in DOMAIN ActionOf THEN Ok(ActionOf[identity]) ELSE Invalid

(* cbor_target_value: a list is a mapping when the operator or the action  *)
(* asks for one, or when it has several values.                            *)
CborTarget(value, matching, action) ==
  LET none == Ok([kind |-> "none", values |-> <<>>])
      list == ByteStrings(value.v[9])
      mapped == matching.value.kind = "mapping" \/ action.value = "mapping-sent"
  IN CASE ~HasKey(value, 9) -> none
       [] HasKey(value, 9) /\ value.v[9].type = "null" -> none
       [] OTHER -> IF ~list.ok THEN Invalid
                   ELSE IF list.value = <<>> THEN none
                   ELSE IF mapped \/ Len(list.value) > 1
                        THEN Ok([kind |-> "mapping", values |-> list.value])
                        ELSE Ok([kind |-> "bytes", values |-> list.value])

(* load_cbor_coreconf_field and load_cbor_universal_option_field, told     *)
(* apart by the keys an entry has.                                         *)
CborFieldRef(value) ==
  LET universal == <<HasKey(value, 2), HasKey(value, 3), HasKey(value, 4)>>
      identity == GetIdentity(value, 2)
      number == GetInt(value, 4)
  IN CASE universal = <<TRUE, FALSE, FALSE>> -> FieldRefOf(identity)
       [] universal = <<FALSE, TRUE, TRUE>> ->
            IF GetIdentity(value, 3) = "space-id-coap" /\ number.ok
            THEN Ok([field |-> Option, number |-> number.value])
            ELSE Invalid
       [] OTHER -> Invalid

CborEntry(value) ==
  LET matching == CborMatching(value)
      action == CborAction(value)
      target == IF matching.ok /\ action.ok
                THEN CborTarget(value, matching, action) ELSE Invalid
  IN Entry(CborFieldRef(value), GetInt(value, 1), GetInt(value, 8),
           CborDirection(value), CborLength(value), target, matching, action)

(* normalize_cbor_fields: duplicate indexes are refused, then entries are  *)
(* put in the order of their indexes.                                      *)
(*                                                                         *)
(* Mutant: entries stay in the order of the file.                          *)
NormalizeUnsorted(entries) ==
  IF \E j, k \in 1..Len(entries) : j # k /\ entries[j].index = entries[k].index
  THEN Invalid ELSE Ok(entries)

Normalize(entries) ==
  LET place(j) == Cardinality({i \in 1..Len(entries) :
                                 entries[i].index <= entries[j].index})
      at(k) == CHOOSE j \in 1..Len(entries) : place(j) = k
  IN IF \E j, k \in 1..Len(entries) : j # k /\ entries[j].index = entries[k].index
     THEN Invalid ELSE Ok([k \in 1..Len(entries) |-> entries[at(k)]])

(* cbor_rule_nature: key 3 may be absent or 0.                             *)
NatureOf ==
  [identifier \in {"nature-compression", "nature-no-compression",
                   "nature-fragmentation", "nature-management"} |->
     CASE identifier = "nature-compression" -> "compression"
       [] identifier = "nature-no-compression" -> "no-compression"
       [] identifier = "nature-fragmentation" -> "fragmentation"
       [] identifier = "nature-management" -> "management"]

CborNature(value) ==
  LET sid == GetInt(value, 3)
      identity == IdentifierOf(sid.value)
  IN IF ~HasKey(value, 3) THEN Ok("compression")
     ELSE IF ~sid.ok THEN Err("InvalidRule")
     ELSE IF sid.value = 0 THEN Ok("compression")
     ELSE IF identity \in DOMAIN NatureOf THEN Ok(NatureOf[identity])
     ELSE Err("InvalidRule")

(* The entry list, key 23, may only be missing where there is nothing to   *)
(* describe.                                                               *)
CborEntries(value, nature) ==
  LET list == value.v[23]
      entries == AllOk([k \in 1..Len(list.v) |-> CborEntry(list.v[k])])
  IN CASE ~HasKey(value, 23) ->
            IF nature \in {"no-compression", "fragmentation"} THEN Ok(<<>>)
            ELSE Err("InvalidRule")
       [] HasKey(value, 23) /\ list.type # "array" -> Err("InvalidRule")
       [] OTHER -> IF entries.ok THEN Normalize(entries.value) ELSE entries

CborRule(value) ==
  LET len == GetInt(value, 1)
      id == GetInt(value, 2)
      rule_id == [value |-> id.value, len |-> len.value]
      nature == CborNature(value)
      entries == CborEntries(value, nature.value)
  IN IF ~len.ok \/ ~id.ok THEN Err("InvalidRule")
     ELSE IF ~ValidRuleId(rule_id) THEN Err("InvalidRule")
     ELSE IF ~nature.ok THEN nature
     ELSE IF ~entries.ok THEN entries
     ELSE Ok([id |-> rule_id, nature |-> nature.value, entries |-> entries.value])

FromCbor(document) ==
  RuleSet([k \in 1..Len(document) |-> CborRule(document[k])])
=============================================================================
