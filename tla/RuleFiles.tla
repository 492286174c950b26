------------------------------ MODULE RuleFiles ------------------------------
(***************************************************************************)
(* A rule set on its way through a file: someone writes it down as JSON    *)
(* and as CORECONF CBOR, under the assignment of SIDs of the day, and a    *)
(* node loads the file with the registry it has by then, in which SIDs may *)
(* have been assigned again since.                                         *)
(* The writers are other programs (rule2sor, the builders of the tests);   *)
(* they put entries and value lists in any order.                          *)
(***************************************************************************)
EXTENDS RuleLoading

CONSTANTS
  SidFile,     \* the <<identifier, SID>> pairs of the first SID file, in order
  Revised,     \* the identifiers and SIDs that later items assign again
  MaxItems,    \* bound on the items inserted, those of the SID file included
  Documents    \* what is written, and how: see Document

ASSUME SidFileAssumption ==
  /\ SidFile \in Seq(Identifiers \X Sids)
  /\ \A k, l \in 1..Len(SidFile) :
        k # l => SidFile[k][1] # SidFile[l][1] /\ SidFile[k][2] # SidFile[l][2]

ASSUME RevisedAssumption == Revised \subseteq Identifiers \X Sids

(* SIDs are numbers.  A writer takes Unassigned for what has none; a rule  *)
(* of nature 0 is a compression rule whatever the registry says.           *)
Unassigned == 9999

ASSUME SidsAssumption == Sids \subseteq Nat \ {0, Unassigned}

(* What a writer was given: rules of the right shape, not always valid.    *)
(* Values are whole bytes, an option goes by its number, a length function *)
(* by its name; a number goes with the kinds that need one, and with msb   *)
(* it is a u64.                                                            *)
Writable(entry) ==
  /\ entry.field # Option => entry.number = 0
  /\ entry.field \notin {"coap-option-uri-host", "coap-option-uri-path"}
  /\ \A k \in 1..Len(entry.target.values) : Len(entry.target.values[k]) % 8 = 0
  /\ entry.target.kind = "none" => entry.target.values = <<>>
  /\ entry.length.kind # "function"
  /\ entry.length.kind \in {"token", "bytes", "bits"} => entry.length.n = 0
  /\ entry.matching.kind # "msb" => entry.matching.n = 0
  /\ \E b \in 1..8 : entry.matching.n < 256^b

(* A document lists entries by their indexes, which may be given twice.    *)
Ascending(entries) ==
  \A j, k \in 1..Len(entries) : j < k => entries[j].index <= entries[k].index

ASSUME DocumentsAssumption ==
  \A d \in Documents :
     /\ d.rules \in Seq(RuleRecords)
     /\ \A r \in 1..Len(d.rules) :
          /\ Ascending(d.rules[r].entries)
          /\ \A k \in 1..Len(d.rules[r].entries) : Writable(d.rules[r].entries[k])

(* A key that is not there has none of the values a key can have, and no   *)
(* identity.                                                               *)
Identities ==
  FieldNames \cup DOMAIN ActionOf \cup DOMAIN NatureOf
  \cup {"coap-option-uri-host", "coap-option-uri-path", "space-id-coap",
        "di-bidirectional", "di-up", "di-down",
        "mo-equal", "mo-ignore", "mo-msb", "mo-match-mapping",
        "fl-token-length", "fl-variable", "fl-variable-bits",
        "fl-length-bytes", "fl-length-bits"}

ASSUME KeysAssumption ==
  /\ Absent \notin Nat
  /\ Absent \notin Natures \cup {"nature-management"}
  /\ Absent \notin [kind: LengthKinds, n: Nat]
  /\ Absent \notin Identities

VARIABLES
  document,   \* [rules, order, terse, defect]
  edition,    \* the assignments the writer of the files had, or NotWritten
  fromJson,   \* what from_json_str returned, or NotLoaded
  fromCbor    \* what from_cbor_slice returned, or NotLoaded

fileVars == <<registryVars, document, edition, fromJson, fromCbor>>

NotLoaded == Err("not loaded")
NotWritten == Err("not written")

-----------------------------------------------------------------------------
(* The writers.  An identifier is written by the number it had then, one   *)
(* that had none by a number nobody has.  So the bytes of a file follow    *)
(* from document and edition, and stay as they are while the registry of   *)
(* the reader goes on.                                                     *)
Numbering(identifier) ==
  LET items == edition.value
      assigned == {k \in 1..Len(items) :
                     /\ items[k][1] = identifier
                     /\ \A l \in (k + 1)..Len(items) :
                           items[l][1] # identifier /\ items[l][2] # items[k][2]}
  IN IF assigned = {} THEN Unassigned ELSE items[Max(assigned)][2]

Shuffled(s) == IF document.order = "reverse" THEN Reverse(s)
               ELSE IF document.order = "rotated" THEN Tail(s) \o <<Head(s)>>
               ELSE s

InFileOrder(s) == IF s = <<>> THEN s ELSE Shuffled(s)

IntValue(n) == [type |-> "int", v |-> n]
Sid(identifier) == IntValue(Numbering(identifier))
Array(values) == [type |-> "array", v |-> values]
Map(pairs) == [type |-> "map", v |-> pairs]

IdentifierFor(map, value) == CHOOSE i \in DOMAIN map : map[i] = value

(* A terse writer writes byte strings without leading zeros as integers,   *)
(* and the options that have a name by their name.                         *)
ByteValue(bytes) ==
  IF document.terse /\ Len(bytes) <= 16 /\ bytes # <<>> /\ bytes = MinimalBytes(Number(bytes))
  THEN IntValue(Number(bytes)) ELSE [type |-> "bytes", v |-> bytes]

IsNamed(entry) == document.terse /\ entry.field = Option /\ entry.number \in {3, 11}
OptionName(entry) ==
  IF entry.number = 3 THEN "coap-option-uri-host" ELSE "coap-option-uri-path"

Indexed(index, value) ==
  Map([key \in {1, 2} |-> IF key = 1 THEN IntValue(index) ELSE value])

CborList(values) ==
  Array(InFileOrder([k \in 1..Len(values) |-> Indexed(k - 1, ByteValue(values[k]))]))

LengthFunction(kind) ==
  CASE kind = "token" -> "fl-token-length"
    [] kind = "bytes" -> "fl-variable"
    [] kind = "bits" -> "fl-variable-bits"
    [] kind = "previous" -> "fl-length-bytes"
    [] kind = "previous-bits" -> "fl-length-bits"

DirectionName(dir) ==
  CASE dir = "bi" -> "di-bidirectional" [] dir = "up" -> "di-up"
    [] dir = "down" -> "di-down"

MatchingName(kind) ==
  CASE kind = "equal" -> "mo-equal" [] kind = "ignore" -> "mo-ignore"
    [] kind = "msb" -> "mo-msb" [] kind = "mapping" -> "mo-match-mapping"

CborName(entry) == IF IsNamed(entry) THEN OptionName(entry) ELSE entry.field

WrittenCborEntry(entry) ==
  LET fixed == entry.length.kind = "fixed"
      universal == entry.field = Option /\ ~IsNamed(entry)
      keys == {1, 5, 7, 8, 12, 16}
              \cup (IF universal THEN {3, 4} ELSE {2})
              \cup {k \in {6} : entry.length.kind \in {"previous", "previous-bits"}}
              \cup {k \in {9} : entry.target.kind # "none"}
              \cup {k \in {13} : entry.matching.kind = "msb"}
  IN Map([k \in keys |->
       CASE k = 1 -> IntValue(entry.index)
         [] k = 2 -> Sid(CborName(entry))
         [] k = 3 -> Sid("space-id-coap")
         [] k = 4 -> IntValue(entry.number)
         [] k = 5 -> IF fixed THEN IntValue(entry.length.n)
                     ELSE [type |-> "tag45", v |-> Sid(LengthFunction(entry.length.kind))]
         [] k = 6 -> IntValue(entry.length.n)
         [] k = 7 -> Sid(DirectionName(entry.dir))
         [] k = 8 -> IntValue(entry.position)
         [] k = 9 -> CborList(entry.target.values)
         [] k = 12 -> Sid(MatchingName(entry.matching.kind))
         [] k = 13 -> CborList(<<MinimalBytes(entry.matching.n)>>)
         [] k = 16 -> Sid(IdentifierFor(ActionOf, entry.action))])

(* Hex digits, and the two ways of giving a fixed length and position 1.   *)
Hex(bits) == [k \in 1..(Len(bits) \div 4) |-> Number(Slice(bits, 4 * (k - 1), 4))]

WrittenJsonField(entry) ==
  LET short == document.terse /\ entry.length.kind = "fixed"
      kind == entry.target.kind
  IN [field |-> IF IsNamed(entry) THEN OptionName(entry) ELSE entry.field,
      number |-> entry.number,
      length |-> IF short THEN Absent ELSE entry.length,
      length_bits |-> IF short THEN entry.length.n ELSE Absent,
      field_position |-> IF document.terse /\ entry.position = 1 THEN Absent
                         ELSE entry.position,
      direction |-> entry.dir,
      target |-> [kind |-> CASE kind = "none" -> "null" [] kind = "bytes" -> "string"
                             [] kind = "mapping" -> "array",
                  values |-> [k \in 1..Len(entry.target.values) |->
                                Hex(entry.target.values[k])]],
      mo |-> entry.matching, cda |-> entry.action]

(* What can be wrong with the first entry of a file: a key that is missing *)
(* or makes it an entry of two kinds, a value list with a gap or an index  *)
(* twice, a number below zero, a bad length, hex digits that are odd in    *)
(* number or no digits.                                                    *)
NoDefect == [format |-> "none", what |-> "none", key |-> 0]

CborDefects ==
  {[format |-> "cbor", what |-> "missing", key |-> k] : k \in {1, 5, 7, 8, 12, 16}}
  \cup {[format |-> "cbor", what |-> w, key |-> k] :
          w \in {"gap", "twice", "no-list", "negative-value"}, k \in {9}}
  \cup {[format |-> "cbor", what |-> "negative", key |-> k] : k \in {1, 5, 8}}
  \cup {[format |-> "cbor", what |-> "both", key |-> k] : k \in {3, 4}}
  \cup {[format |-> "cbor", what |-> "no-entries", key |-> 23]}
JsonDefects ==
  {[format |-> "json", what |-> w, key |-> 0] :
     w \in {"two-lengths", "no-length", "odd-hex", "no-hex"}}

(* Only a file with an entry can be spoilt, a rule needs its entries only  *)
(* where they mean something, and an entry becomes one of two kinds by a   *)
(* key of the other.                                                       *)
ASSUME DefectsAssumption ==
  \A d \in Documents :
     /\ d.defect \in {NoDefect} \cup CborDefects \cup JsonDefects
     /\ d.defect # NoDefect => d.rules # <<>> /\ d.rules[1].entries # <<>>
     /\ d.defect.what = "no-entries" =>
          d.rules[1].nature \in {"compression", "management"}
     /\ d.defect.what = "both" => d.rules[1].entries[1].field # Option

SpoiltCbor(entry) ==
  LET defect == document.defect
      list(index) == Array(<<Indexed(0, ByteValue(Zeros(8))),
                             Indexed(index, ByteValue(Zeros(8)))>>)
      with(key, value) == Map([k \in DOMAIN entry.v \cup {key} |->
                                 IF k = key THEN value ELSE entry.v[k]])
  IN IF defect.format # "cbor" THEN entry
     ELSE CASE defect.what = "missing" ->
                 Map([k \in DOMAIN entry.v \ {defect.key} |-> entry.v[k]])
            [] defect.what = "gap" -> with(9, list(2))
            [] defect.what = "twice" -> with(9, list(0))
            [] defect.what = "no-list" -> with(9, IntValue(0))
            [] defect.what = "negative-value" ->
                 with(9, Array(<<Indexed(0, IntValue(-1))>>))
            [] defect.what = "negative" -> with(defect.key, IntValue(-1))
            [] defect.what = "both" -> with(defect.key, IntValue(1))
            [] defect.what = "no-entries" -> entry

SpoiltJson(field) ==
  LET defect == document.defect
      hex(digits) == [field EXCEPT !.target = [kind |-> "string", values |-> <<digits>>]]
  IN IF defect.format # "json" THEN field
     ELSE CASE defect.what = "two-lengths" ->
                 [field EXCEPT !.length = [kind |-> "fixed", n |-> 8], !.length_bits = 8]
            [] defect.what = "no-length" ->
                 [field EXCEPT !.length = Absent, !.length_bits = Absent]
            [] defect.what = "odd-hex" -> hex(<<1, 2, 3>>)
            [] defect.what = "no-hex" -> hex(<<16, 0>>)

Written(rules, OfRule(_, _)) == [r \in 1..Len(rules) |-> OfRule(r, rules[r])]

WrittenCborRule(r, rule) ==
  LET entry(k) == WrittenCborEntry(rule.entries[k])
      entries == [k \in 1..Len(rule.entries) |->
                    IF r = 1 /\ k = 1 THEN SpoiltCbor(entry(k)) ELSE entry(k)]
      nature == IdentifierFor(NatureOf, rule.nature)
      unnatured == document.terse /\ rule.nature = "compression"
      bare == \/ r = 1 /\ document.defect.what = "no-entries"
              \/ /\ document.terse /\ entries = <<>>
                 /\ rule.nature \in {"no-compression", "fragmentation"}
      keys == {1, 2} \cup {k \in {3} : ~unnatured} \cup {k \in {23} : ~bare}
  IN Map([k \in keys |-> CASE k = 1 -> IntValue(rule.id.len)
                           [] k = 2 -> IntValue(rule.id.value)
                           [] k = 3 -> Sid(nature)
                           [] k = 23 -> Array(InFileOrder(entries))])

WrittenJsonRule(r, rule) ==
  LET field(k) == WrittenJsonField(rule.entries[k])
  IN [rule_id |-> rule.id.value, rule_id_length |-> rule.id.len,
      nature |-> IF document.terse /\ rule.nature = "compression" THEN Absent
                 ELSE rule.nature,
      fields |-> [k \in 1..Len(rule.entries) |->
                    IF r = 1 /\ k = 1 THEN SpoiltJson(field(k)) ELSE field(k)]]

-----------------------------------------------------------------------------
(* SidRegistry::from_json_str on the first SID file has just returned.     *)
FilesInit ==
  /\ inserted = SidFile
  /\ by_identifier = [i \in Identifiers |->
       IF \E k \in 1..Len(SidFile) : SidFile[k][1] = i
       THEN (CHOOSE p \in {SidFile[k] : k \in 1..Len(SidFile)} : p[1] = i)[2]
       ELSE Absent]
  /\ by_sid = [s \in Sids |->
       IF \E k \in 1..Len(SidFile) : SidFile[k][2] = s
       THEN (CHOOSE p \in {SidFile[k] : k \in 1..Len(SidFile)} : p[2] = s)[1]
       ELSE Absent]
  /\ document \in Documents
  /\ edition = NotWritten
  /\ fromJson = NotLoaded
  /\ fromCbor = NotLoaded

(* Both files are written.                                                 *)
Write ==
  /\ edition = NotWritten
  /\ edition' = Ok(inserted)
  /\ UNCHANGED <<registryVars, document, fromJson, fromCbor>>

(* Another item is inserted, before or after the files are written; the    *)
(* loaders take the registry away.                                         *)
Revise(i, s) ==
  /\ fromJson = NotLoaded /\ fromCbor = NotLoaded
  /\ Len(inserted) < MaxItems
  /\ Insert(i, s)
  /\ UNCHANGED <<document, edition, fromJson, fromCbor>>

LoadJson ==
  /\ edition # NotWritten /\ fromJson = NotLoaded
  /\ fromJson' = FromJson(Written(document.rules, WrittenJsonRule))
  /\ UNCHANGED <<registryVars, document, edition, fromCbor>>

LoadCbor ==
  /\ edition # NotWritten /\ fromCbor = NotLoaded
  /\ fromCbor' = FromCbor(Written(document.rules, WrittenCborRule))
  /\ UNCHANGED <<registryVars, document, edition, fromJson>>

FilesNext ==
  \/ Write
  \/ \E pair \in Revised : Revise(pair[1], pair[2])
  \/ LoadJson
  \/ LoadCbor

FilesSpec == FilesInit /\ [][FilesNext]_fileVars
-----------------------------------------------------------------------------
(* Correctness.  What an entry needs the registry to know, and the codec.  *)
Known(identifier) == \E k \in 1..Len(inserted) :
                       inserted[k][1] = identifier /\ InForce(identifier, inserted[k][2])

Entries(rules) ==
  UNION {{r} \X (1..Len(rules[r].entries)) : r \in 1..Len(rules)}

(* JSON gives entries the indexes 0, 1, 2 and so on.                       *)
Counted(rules) ==
  LET counted(entries) ==
        [k \in 1..Len(entries) |-> [entries[k] EXCEPT !.index = k - 1]]
  IN [r \in 1..Len(rules) |-> [rules[r] EXCEPT !.entries = counted(@)]]

(* from_json_str loads exactly the rule set that was written, and refuses  *)
(* it when it breaks a rule, uses a name the SID file does not give to     *)
(* anything at the time, or has a defect.                                  *)
JsonKnows(entry) ==
  /\ entry.field \in FieldNames \cup {Option}
  /\ Known(DirectionName(entry.dir))
  /\ Known(MatchingName(entry.matching.kind))
  /\ Known(IdentifierFor(ActionOf, entry.action))
  /\ \/ entry.field = Option /\ ~IsNamed(entry)
     \/ Known(IF IsNamed(entry) THEN OptionName(entry) ELSE entry.field)

JsonLoadsWhatIsWritten ==
  fromJson # NotLoaded =>
    LET rules == Counted(document.rules)
        knows == \A e \in Entries(rules) : JsonKnows(rules[e[1]].entries[e[2]])
    IN IF Loads(rules) /\ knows /\ document.defect \notin JsonDefects
       THEN fromJson = Ok(rules)
       ELSE ~fromJson.ok

(* A number in a file means what its writer meant if the registry it is    *)
(* read with still has the name under it.  It is steady if it has no other *)
(* name under it.                                                          *)
Resolves(identifier) == InForce(identifier, Numbering(identifier))

Steady(identifier) ==
  \A i \in Identifiers : InForce(i, Numbering(identifier)) => i = identifier

(* The names behind the numbers of an entry and of a rule.  A length       *)
(* function needs none that resolves.                                      *)
References(entry) ==
  {DirectionName(entry.dir), MatchingName(entry.matching.kind),
   IdentifierFor(ActionOf, entry.action),
   IF entry.field = Option /\ ~IsNamed(entry) THEN "space-id-coap" ELSE CborName(entry)}

LengthReferences(entry) ==
  IF entry.length.kind = "fixed" THEN {} ELSE {LengthFunction(entry.length.kind)}

NatureReferences(rule) ==
  IF document.terse /\ rule.nature = "compression" THEN {}
  ELSE {IdentifierFor(NatureOf, rule.nature)}

CborKnows(entry) ==
  /\ entry.field \in FieldNames \cup {Option}
  /\ \A i \in References(entry) : Resolves(i)

NatureKnown(rule) == \A i \in NatureReferences(rule) : Resolves(i)

SteadyRule(rule) ==
  /\ \A i \in NatureReferences(rule) : Steady(i)
  /\ \A k \in 1..Len(rule.entries) :
        \A i \in References(rule.entries[k]) \cup LengthReferences(rule.entries[k]) :
           Steady(i)

(* Two things a CBOR file cannot say: a length function whose number has   *)
(* no name is kept and never resolves, and a list is a mapping when it has *)
(* several values or the operator or action picks one of them, else a      *)
(* single value.                                                           *)
Understood(entry) ==
  LET values == entry.target.values
      picks == entry.matching.kind = "mapping" \/ entry.action = "mapping-sent"
      kind == IF values = <<>> THEN "none"
              ELSE IF picks \/ Len(values) > 1 THEN "mapping" ELSE "bytes"
      function == LengthFunction(entry.length.kind)
  IN [entry EXCEPT !.target = [kind |-> kind, values |-> values],
                   !.length = IF entry.length.kind = "fixed" \/ Resolves(function) THEN @
                              ELSE [kind |-> "function", n |-> Numbering(function)]]

(* from_cbor_slice loads exactly the rule set that was written, whatever   *)
(* the order of entries and values in the file, or refuses it: when it     *)
(* breaks a rule, has a defect, or needs a number that is no longer        *)
(* assigned.  SIDs may have been assigned again before the file was        *)
(* written, and after, as long as the registry does not have another name  *)
(* under a number that the file uses: that cannot be seen in the file.     *)
CborLoadsWhatIsWritten ==
  fromCbor # NotLoaded /\ (\A r \in 1..Len(document.rules) : SteadyRule(document.rules[r])) =>
    LET rules == [r \in 1..Len(document.rules) |->
                    [document.rules[r] EXCEPT !.entries =
                       [k \in 1..Len(@) |-> Understood(@[k])]]]
        knows == /\ \A e \in Entries(rules) : CborKnows(rules[e[1]].entries[e[2]])
                 /\ \A r \in 1..Len(rules) : NatureKnown(rules[r])
    IN IF Loads(rules) /\ knows /\ document.defect \notin CborDefects
       THEN fromCbor = Ok(rules)
       ELSE ~fromCbor.ok

(* Whatever a file says, what loads is a rule set the compressor and the   *)
(* decompressor can be given.                                              *)
OnlySoundRulesLoad ==
  /\ fromJson.ok => Loads(fromJson.value)
  /\ fromCbor.ok => Loads(fromCbor.value)
=============================================================================
