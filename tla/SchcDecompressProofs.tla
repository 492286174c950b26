------------------------ MODULE SchcDecompressProofs -------------------------
(***************************************************************************)
(* Theorems about the decompressor: one rule for a datagram, and one       *)
(* number of padding bits.  Two attempts select the same rule, because no  *)
(* rule ID is a prefix of another; they decode the same fields, because    *)
(* what a field takes does not depend on the bits behind it; so they stop  *)
(* at the same position, and both want a whole number of bytes after it.   *)
(*                                                                         *)
(* And checksums: what the receiver was left to compute verifies.  That is *)
(* arithmetic of 16-bit words, the layout of a reconstructed packet, also  *)
(* of one that was given a payload and new lengths, and an invariant on    *)
(* where the fields of an attempt come from.                               *)
(***************************************************************************)
EXTENDS SchcDecompress, SchcFieldProofs

-----------------------------------------------------------------------------
(* Rule IDs.                                                               *)

(* Dropping k bits and then j is dropping k + j.                           *)
LEMMA HalvedTwice ==
  ASSUME NEW v \in Nat, NEW k \in Nat
  PROVE  \A j \in Nat : v \div 2^(k + j) = (v \div 2^k) \div 2^j
<1> DEFINE w == v \div 2^k
           S == {j \in Nat : v \div 2^(k + j) = w \div 2^j}
<1>1. w \in Nat
  BY HalvedPower
<1>2. 0 \in S
  <2>1. k + 0 = k /\ 2^0 = 1
    OBVIOUS
  <2>2. w \div 1 = w
    <3> HIDE DEF w
    <3> QED BY <1>1
  <2> QED BY <2>1, <2>2
<1>3. ASSUME NEW j \in Nat, j \in S PROVE j + 1 \in S
  <2>1. v \div 2^(k + j) = w \div 2^j
    BY <1>3
  <2>2. v \div 2^((k + j) + 1) = (v \div 2^(k + j)) \div 2
    BY HalvedPower
  <2>3. w \div 2^(j + 1) = (w \div 2^j) \div 2
    <3> HIDE DEF w
    <3> QED BY <1>1, HalvedPower
  <2>4. k + (j + 1) = (k + j) + 1
    OBVIOUS
  <2>5. v \div 2^(k + (j + 1)) = w \div 2^(j + 1)
    <3> HIDE DEF w
    <3> QED BY <2>1, <2>2, <2>3, <2>4, Zenon
  <2> QED BY <2>5
<1> HIDE DEF S
<1>4. Nat \subseteq S
  BY <1>2, <1>3, SetInduction
<1> QED BY <1>4 DEF S

(* Without its last k bits a number of n + k bits has n.                   *)
LEMMA TopFits ==
  ASSUME NEW v \in Nat
  PROVE  \A k \in Nat : \A n \in Nat : v < 2^(n + k) => v \div 2^k < 2^n
<1> DEFINE S == {k \in Nat : \A n \in Nat : v < 2^(n + k) => v \div 2^k < 2^n}
<1>1. 0 \in S
  <2>1. ASSUME NEW n \in Nat PROVE n + 0 = n
    OBVIOUS
  <2>2. 2^0 = 1 /\ v \div 1 = v
    OBVIOUS
  <2> QED BY <2>1, <2>2
<1>2. ASSUME NEW k \in Nat, k \in S PROVE k + 1 \in S
  <2> SUFFICES ASSUME NEW n \in Nat, v < 2^(n + (k + 1))
               PROVE  v \div 2^(k + 1) < 2^n
    OBVIOUS
  <2>1. n + (k + 1) = (n + 1) + k /\ n + 1 \in Nat
    OBVIOUS
  <2> DEFINE w == v \div 2^k
             p == 2^n
  <2>2. w < 2^(n + 1)
    BY <1>2, <2>1
  <2>3. 2^(n + 1) = 2 * p /\ p \in Nat
    BY PowerNext
  <2>4. w \in Nat /\ v \div 2^(k + 1) = w \div 2
    BY HalvedPower
  <2> HIDE DEF w, p
  <2>5. w \div 2 < p
    BY <2>2, <2>3, <2>4
  <2> QED BY <2>4, <2>5 DEF p
<1> HIDE DEF S
<1>3. Nat \subseteq S
  BY <1>1, <1>2, SetInduction
<1> QED BY <1>3 DEF S

(* A rule ID of a loaded rule set.                                         *)
IsId(id) == id.value \in Nat /\ id.len \in 1..64 /\ Fits(id.value, id.len)

LEMMA IdWidths ==
  /\ \A x \in 1..64 : x < 64 \/ x = 64
  /\ \A x, y \in 1..64 : x <= y \/ y <= x
OBVIOUS

(* When one string starts with two IDs, the shorter is the longer cut off. *)
LEMMA IdsCollide ==
  ASSUME NEW a, IsId(a), NEW b, IsId(b), a.len <= b.len, NEW w \in Bits,
         IsPrefix(BitsOf(a.value, a.len), w), IsPrefix(BitsOf(b.value, b.len), w)
  PROVE  b.value \div 2^(b.len - a.len) = a.value
<1> DEFINE n == a.len
           m == b.len
           v == a.value
           u == b.value
           k == m - n
           top == u \div 2^k
<1>1. v \in Nat /\ u \in Nat /\ n \in Nat /\ m \in Nat /\ n <= m
  BY DEF IsId
<1>2. Fits(v, n) /\ Fits(u, m)
  BY DEF IsId
<1>3. IsPrefix(BitsOf(v, n), w) /\ IsPrefix(BitsOf(u, m), w)
  OBVIOUS
<1> SUFFICES top = v
  OBVIOUS
<1> HIDE DEF n, m, v, u
<1>4. k \in Nat /\ m = n + k
  BY <1>1
<1>5. top \in Nat
  BY <1>1, <1>4, HalvedPower
<1>6. Fits(top, n)
  BY <1>1, <1>2, <1>4, TopFits DEF Fits
<1>7. /\ BitsOf(v, n) \in Bits /\ Len(BitsOf(v, n)) = n
      /\ BitsOf(u, m) \in Bits /\ Len(BitsOf(u, m)) = m
      /\ \A i \in 1..m : BitsOf(u, m)[i] = (u \div 2^(m - i)) % 2
  BY <1>1, BitsOfType
<1>8. \A i \in 1..n : BitsOf(v, n)[i] = w[i]
  BY <1>3, <1>7, PrefixBits
<1>9. \A i \in 1..m : BitsOf(u, m)[i] = w[i]
  BY <1>3, <1>7, PrefixBits
<1> HIDE DEF top
<1>10. /\ BitsOf(top, n) \in Bits /\ Len(BitsOf(top, n)) = n
       /\ \A i \in 1..n : BitsOf(top, n)[i] = (top \div 2^(n - i)) % 2
  BY <1>1, <1>5, BitsOfType
<1>11. ASSUME NEW i \in 1..n PROVE BitsOf(top, n)[i] = BitsOf(v, n)[i]
  <2> DEFINE j == n - i
  <2>1. j \in Nat /\ m - i = k + j /\ i \in 1..m
    BY <1>1, <1>4
  <2> HIDE DEF k, j
  <2>2. u \div 2^(k + j) = top \div 2^j
    <3>0. k \in Nat /\ u \in Nat
      BY <1>1, <1>4
    <3>2. \A x \in Nat : u \div 2^(k + x) = (u \div 2^k) \div 2^x
      BY <3>0, HalvedTwice
    <3>1. u \div 2^(k + j) = (u \div 2^k) \div 2^j
      BY <2>1, <3>2
    <3> QED BY <3>1, Zenon DEF top
  <2>3. BitsOf(u, m)[i] = (u \div 2^(k + j)) % 2
    BY <1>7, <2>1
  <2>4. BitsOf(top, n)[i] = (top \div 2^j) % 2
    BY <1>10 DEF j
  <2>5. BitsOf(u, m)[i] = w[i] /\ BitsOf(v, n)[i] = w[i]
    BY <1>8, <1>9, <2>1
  <2> QED BY <2>2, <2>3, <2>4, <2>5
<1>12. BitsOf(top, n) = BitsOf(v, n)
  BY <1>7, <1>10, <1>11, SameBits
<1>13. Number(BitsOf(top, n)) = top
  BY <1>1, <1>5, <1>6, NumberOfBits DEF Fits
<1>14. Number(BitsOf(v, n)) = v
  BY <1>1, <1>2, NumberOfBits DEF Fits
<1> QED BY <1>12, <1>13, <1>14

(* The rules of a loaded rule set are typed, and their IDs fit.            *)
Loaded(rs) ==
  /\ rs \in Seq(RuleRecords)
  /\ Loads(rs)
  /\ \A i \in 1..Len(rs) : rs[i].id.len = 64 => rs[i].id.value < 2^64

LEMMA LoadedRule ==
  ASSUME NEW rs, Loaded(rs), NEW i \in 1..Len(rs)
  PROVE  /\ IsId(rs[i].id)
         /\ rs[i].nature \in Natures
         /\ rs[i].entries \in Seq(FieldEntries)
         /\ \A k \in 1..Len(rs[i].entries) :
              rs[i].entries[k] \in FieldEntries /\ ValidEntry(rs[i].entries[k])
<1>1. rs[i] \in RuleRecords
  BY ElementOfSeq DEF Loaded
<1>2. /\ rs[i].id.value \in Nat /\ rs[i].nature \in Natures
      /\ rs[i].entries \in Seq(FieldEntries)
  BY <1>1 DEF RuleRecords
<1>3. /\ rs[i].id.len \in 1..64
      /\ rs[i].id.len < 64 => rs[i].id.value < 2^(rs[i].id.len)
      /\ rs[i].id.len = 64 => rs[i].id.value < 2^(rs[i].id.len)
  BY DEF Loaded, Loads, ValidRuleId
<1>4. Fits(rs[i].id.value, rs[i].id.len)
  <2>1. rs[i].id.len < 64 \/ rs[i].id.len = 64
    BY <1>3, IdWidths, Zenon
  <2> QED BY <1>3, <2>1, Zenon DEF Fits
<1>5. ASSUME NEW k \in 1..Len(rs[i].entries)
      PROVE  rs[i].entries[k] \in FieldEntries /\ ValidEntry(rs[i].entries[k])
  <2>1. rs[i].entries[k] \in FieldEntries
    BY <1>2, ElementOfSeq
  <2>2. ValidEntry(rs[i].entries[k])
    BY DEF Loaded, Loads
  <2> QED BY <2>1, <2>2
<1> QED BY <1>2, <1>3, <1>4, <1>5 DEF IsId

(* No bit string starts with the IDs of two rules of a loaded set.         *)
LEMMA OneRule ==
  ASSUME NEW rs, Loaded(rs), NEW w \in Bits,
         NEW i \in 1..Len(rs), IsPrefix(IdBits(rs[i]), w),
         NEW j \in 1..Len(rs), IsPrefix(IdBits(rs[j]), w)
  PROVE  i = j
<1> DEFINE id(k) == rs[k].id
<1>1. Len(rs) \in Nat
  BY DEF Loaded
<1>2. ASSUME NEW a \in 1..Len(rs), NEW b \in 1..Len(rs), a < b,
             IsPrefix(IdBits(rs[a]), w), IsPrefix(IdBits(rs[b]), w)
      PROVE  FALSE
  <2>1. a \in 1..(b - 1)
    BY <1>1, <1>2
  <2>2. ~RuleIdCollision(id(a), id(b))
    BY <2>1 DEF Loaded, Loads, ValidRuleIdPrefixes
  <2>3. IsId(id(a)) /\ IsId(id(b))
    BY LoadedRule
  <2>4. /\ IsPrefix(BitsOf(id(a).value, id(a).len), w)
        /\ IsPrefix(BitsOf(id(b).value, id(b).len), w)
    BY <1>2 DEF IdBits
  <2> HIDE DEF id
  <2>5. CASE id(a).len <= id(b).len
    <3>1. id(b).value \div 2^(id(b).len - id(a).len) = id(a).value
      BY <2>3, <2>4, <2>5, IdsCollide
    <3> QED BY <2>2, <2>5, <3>1 DEF RuleIdCollision
  <2>6. CASE ~(id(a).len <= id(b).len)
    <3>1. id(b).len <= id(a).len
      BY <2>3, <2>6, IdWidths, Zenon DEF IsId
    <3>2. id(a).value \div 2^(id(a).len - id(b).len) = id(b).value
      BY <2>3, <2>4, <3>1, IdsCollide
    <3> QED BY <2>2, <2>6, <3>2 DEF RuleIdCollision
  <2> QED BY <2>5, <2>6
<1>3. i < j \/ j < i \/ i = j
  BY <1>1
<1> QED BY <1>2, <1>3

-----------------------------------------------------------------------------
(* Decoding an entry.                                                      *)

LEMMA ScopeType ==
  ASSUME NEW entry, NEW store
  PROVE  \/ ReceiverScope(entry, store) = Ok("embedded")
         \/ ReceiverScope(entry, store) = Ok("outer")
         \/ ReceiverScope(entry, store) = Err("InvalidResidue")
BY DEF ReceiverScope

(* What an entry yields is typed, and does not depend on what follows the  *)
(* bits it takes.                                                          *)
LEMMA EntryTaken ==
  ASSUME NEW entry, Decodable(entry), NEW bits \in Bits, NEW from, Reaches(bits, from),
         NEW store \in Seq(StoredFields), Decoded(entry, bits, from, store).ok
  PROVE  /\ Decoded(entry, bits, from, store).value.field \in StoredFields
         /\ Reaches(bits, Decoded(entry, bits, from, store).value.pos)
         /\ \A more : Extends(more, bits) =>
              Decoded(entry, more, from, store) = Decoded(entry, bits, from, store)
<1> DEFINE scope == ReceiverScope(entry, store)
           decoded(b) == DecodeField(entry, b, from, store)
           field(b) == [field |-> entry.field, number |-> entry.number,
                        index |-> entry.index, scope |-> scope.value,
                        value |-> decoded(b).value.value]
           result(b) == Ok([pos |-> decoded(b).value.pos, field |-> field(b)])
<1>1. \A b : Decoded(entry, b, from, store)
               = IF ~scope.ok THEN scope
                 ELSE IF ~ReceiverPosition(entry, scope.value) THEN Err("InvalidResidue")
                 ELSE IF ~decoded(b).ok THEN decoded(b)
                 ELSE result(b)
  BY DEF Decoded
<1>2. scope = Ok("embedded") \/ scope = Ok("outer") \/ scope = Err("InvalidResidue")
  BY ScopeType
<1> HIDE DEF scope, decoded, result
<1>3. scope.ok /\ ReceiverPosition(entry, scope.value) /\ decoded(bits).ok
  BY <1>1, Outcomes
<1>4. Decoded(entry, bits, from, store) = result(bits)
  BY <1>1, <1>3
<1>5. /\ decoded(bits).value.value \in Bits
      /\ Reaches(bits, decoded(bits).value.pos)
      /\ \A more : Extends(more, bits) => decoded(more) = decoded(bits)
  BY <1>3, FieldTaken DEF decoded
<1>6. scope.value \in {"outer", "embedded"}
  BY <1>2, <1>3, Outcomes
<1>7. field(bits) \in StoredFields
  BY <1>5, <1>6 DEF Decodable, FieldEntries, StoredFields
<1>8. ASSUME NEW more, Extends(more, bits)
      PROVE  Decoded(entry, more, from, store) = result(bits)
  <2>1. decoded(more) = decoded(bits) /\ result(more) = result(bits)
    BY <1>5, <1>8 DEF result
  <2> QED BY <1>1, <1>3, <2>1
<1>9. /\ result(bits).value.pos = decoded(bits).value.pos
      /\ result(bits).value.field = field(bits)
  BY DEF result, Ok
<1> QED BY <1>4, <1>5, <1>7, <1>8, <1>9

-----------------------------------------------------------------------------
(* Errors.  No step of an attempt reports what only the end of them all    *)
(* can report, that the padding is ambiguous.                              *)
AttemptErrors == StepErrors \cup {"NoMatchingRule", "UnsupportedRuleNature"}

LEMMA LengthPlain ==
  ASSUME NEW entry, Decodable(entry), NEW bits, NEW from, NEW store
  PROVE  Plain(DecodeLength(entry, bits, from, store))
<1>1. entry.length.kind \in LengthKinds
  BY EntryFacts
<1> DEFINE result == DecodeLength(entry, bits, from, store)
           prefix == ReadPrefix(bits, from)
           known == Resolve(entry.length, store)
<1>2. CASE Variable(entry)
  <2>1. result = prefix \/ \E v : result = Ok(v)
    BY <1>2 DEF DecodeLength
  <2> QED BY <2>1, PrefixPlain, PlainOutcomes
<1>3. CASE ~Variable(entry)
  <2>1. Plain(known)
    BY <1>1, <1>3, ResolvePlain DEF Variable
  <2>2. result = known \/ \E v : result = Ok(v)
    BY <1>3 DEF DecodeLength
  <2> HIDE DEF known, result
  <2>3. Plain(result)
    BY <2>1, <2>2, PlainOutcomes
  <2> QED BY <2>3 DEF result
<1> QED BY <1>2, <1>3

LEMMA DecodedPlain ==
  ASSUME NEW entry, Decodable(entry), NEW n, NEW bits, NEW from
  PROVE  Plain(DecodeValue(entry, n, bits, from))
<1>1. entry.action \in Actions \ {"compute"}
  BY EntryFacts
<1>2. Plain(DecodeNotSent(entry, n, from))
  <2> DEFINE t == BytesAsValue(Target(entry), n)
  <2>1. DecodeNotSent(entry, n, from) = t \/ \E v : DecodeNotSent(entry, n, from) = Ok(v)
    BY DEF DecodeNotSent
  <2> QED BY <2>1, ValuePlain, PlainOutcomes
<1>3. Plain(DecodeMapping(entry, bits, from))
  <2> DEFINE r == Read(bits, from, IndexBits(Len(entry.target.values)))
  <2>1. \/ DecodeMapping(entry, bits, from) = r
        \/ DecodeMapping(entry, bits, from) = Err("InvalidResidue")
        \/ \E v : DecodeMapping(entry, bits, from) = Ok(v)
    BY DEF DecodeMapping
  <2> QED BY <2>1, ReadPlain, PlainErrors, PlainOutcomes
<1>4. Plain(DecodeLsb(entry, n, bits, from))
  <2> DEFINE t == BytesAsValue(Target(entry), n)
             r == Read(bits, from, n - entry.matching.n)
  <2>1. \/ DecodeLsb(entry, n, bits, from) = r
        \/ DecodeLsb(entry, n, bits, from) = t
        \/ DecodeLsb(entry, n, bits, from) = Err("InvalidBitLength")
        \/ \E v : DecodeLsb(entry, n, bits, from) = Ok(v)
    BY DEF DecodeLsb
  <2> QED BY <2>1, ReadPlain, ValuePlain, PlainErrors, PlainOutcomes
<1>5. Plain(DecodeIid(entry, n, from))
  <2> DEFINE v == BytesAsValue(Provider[entry.field], n)
  <2>1. \/ DecodeIid(entry, n, from) = v
        \/ DecodeIid(entry, n, from) = Err("InvalidResidue")
        \/ \E w : DecodeIid(entry, n, from) = Ok(w)
    BY DEF DecodeIid
  <2> QED BY <2>1, ValuePlain, PlainErrors, PlainOutcomes
<1>6. CASE entry.action = "value-sent"
  <2> DEFINE r == Read(bits, from, n)
  <2>1. DecodeValue(entry, n, bits, from) = r \/ \E v : DecodeValue(entry, n, bits, from) = Ok(v)
    BY <1>6 DEF DecodeValue
  <2> QED BY <2>1, ReadPlain, PlainOutcomes
<1>7. CASE entry.action = "not-sent"
  BY <1>2, <1>7 DEF DecodeValue
<1>8. CASE entry.action = "mapping-sent"
  BY <1>3, <1>8 DEF DecodeValue
<1>9. CASE entry.action = "lsb"
  BY <1>4, <1>9 DEF DecodeValue
<1>10. CASE entry.action \in {"device-iid", "app-iid"}
  BY <1>5, <1>10 DEF DecodeValue
<1> QED BY <1>1, <1>6, <1>7, <1>8, <1>9, <1>10 DEF Actions

LEMMA EntryPlain ==
  ASSUME NEW entry, Decodable(entry), NEW bits, NEW from, NEW store
  PROVE  Plain(Decoded(entry, bits, from, store))
<1> DEFINE scope == ReceiverScope(entry, store)
           length == DecodeLength(entry, bits, from, store)
           value == DecodeValue(entry, length.value.n, bits, length.value.pos)
           field == DecodeField(entry, bits, from, store)
           result == Decoded(entry, bits, from, store)
<1>1. Plain(scope)
  BY ScopeType, PlainErrors, PlainOutcomes
<1>2. Plain(length) /\ Plain(value)
  BY LengthPlain, DecodedPlain
<1>3. field = length \/ field = Err("InvalidBitLength") \/ field = value
  BY DEF DecodeField
<1>4. Plain(field)
  <2> HIDE DEF field, length, value
  <2> QED BY <1>2, <1>3, PlainErrors
<1>5. \/ result = scope \/ result = Err("InvalidResidue") \/ result = field
      \/ \E v : result = Ok(v)
  <2> HIDE DEF field
  <2> QED BY DEF Decoded, field
<1> HIDE DEF scope, field, result
<1>6. Plain(result)
  BY <1>1, <1>4, <1>5, PlainErrors, PlainOutcomes
<1> QED BY <1>6 DEF result

LEMMA RebuiltPlain ==
  ASSUME NEW dir, NEW store, NEW suffix
  PROVE  /\ Plain(Reconstruct(dir, store))
         /\ Plain(ReconstructWithSuffix(dir, store, suffix))
         /\ Plain(RestAsPacket(suffix))
<1>1. \/ Reconstruct(dir, store) = Err("InvalidResidue")
      \/ Reconstruct(dir, store) = Err("Packet")
      \/ \E v : Reconstruct(dir, store) = Ok(v)
  BY DEF Reconstruct
<1>2. \/ ReconstructWithSuffix(dir, store, suffix) = Err("InvalidResidue")
      \/ ReconstructWithSuffix(dir, store, suffix) = Err("Packet")
      \/ \E v : ReconstructWithSuffix(dir, store, suffix) = Ok(v)
  BY DEF ReconstructWithSuffix
<1>3. \/ RestAsPacket(suffix) = Err("InvalidResidue")
      \/ RestAsPacket(suffix) = Err("Packet")
      \/ RestAsPacket(suffix) = Ok(suffix)
  BY DEF RestAsPacket
<1> QED BY <1>1, <1>2, <1>3, PlainErrors, PlainOutcomes

-----------------------------------------------------------------------------
(* The inductive invariant.                                                *)

(* The fields of an attempt are those of the whole datagram: T goes from   *)
(* entry to entry of rule i, as if there were no padding, up to entry k.   *)
Point(p, f) == [pos |-> p, fields |-> f]

Step(entry, s, t) ==
  LET outcome == Decoded(entry, datagram, s.pos, s.fields)
  IN \/ Skipped(entry) /\ t = s
     \/ /\ ~Skipped(entry) /\ outcome.ok
        /\ t = Point(outcome.value.pos, Append(s.fields, outcome.value.field))

Leads(i, k, T) ==
  /\ T[1] = Point(rules[i].id.len, <<>>)
  /\ \A m \in 1..(k - 1) : Step(rules[i].entries[m], T[m], T[m + 1])

(* Where the payload begins: behind the last entry, or the ID.             *)
Goal(i) == IF WrapsPacket(rules[i]) THEN 1 ELSE Len(rules[i].entries) + 1

WholeBytes(bits, p) == p \in Nat /\ p <= bits /\ (bits - p) % 8 = 0

(* The fields of rule i end a number of bytes before bits.                 *)
Whole(i, bits) ==
  \E T : Leads(i, Goal(i), T) /\ WholeBytes(bits, T[Goal(i)].pos)

Given ==
  /\ rules \in RuleSets
  /\ datagram \in Datagrams
  /\ padding \in Nat /\ padding <= LastPadding + 1

Attempt ==
  /\ stage \in {"select", "fields", "answered"}
  /\ stage # "fields" => selected = 0 /\ next = 1 /\ fields = <<>>
  /\ stage = "fields" =>
       /\ padding <= LastPadding
       /\ selected \in RulesFor(Wire) /\ ~WrapsPacket(rules[selected])
       /\ next \in 1..(Len(rules[selected].entries) + 1)
       /\ Reaches(Wire, pos)
       /\ fields \in Seq(StoredFields)
       /\ \E T : Leads(selected, next, T) /\ T[next] = Point(pos, fields)

(* An attempt that succeeded took fewer bits for padding than the current  *)
(* one, and left whole bytes behind the fields.                            *)
Success(s) ==
  /\ s.rule \in RulesFor(datagram)
  /\ s.bits \in Nat /\ s.bits <= Len(datagram) /\ Len(datagram) < s.bits + padding
  /\ Whole(s.rule, s.bits)

OneSuccess == successes = <<>> \/ \E s : successes = <<s>> /\ Success(s)

Unambiguous ==
  /\ firstError \in AttemptErrors \cup {NoError}
  /\ answer # Err("AmbiguousPadding")

Inv == Given /\ Attempt /\ OneSuccess /\ Unambiguous

(* What the current attempt reads is the start of the datagram.            *)
LEMMA WireFacts ==
  ASSUME Given, padding <= LastPadding
  PROVE  /\ datagram \in Bits /\ Len(datagram) \in Nat
         /\ Wire \in Bits
         /\ Len(Wire) = Len(datagram) - padding /\ padding <= 7
         /\ Extends(datagram, Wire)
         /\ RulesFor(Wire) \subseteq RulesFor(datagram)
<1>1. datagram \in Bits /\ Len(datagram) \in Nat
  BY DatagramsAssumption DEF Given, Bits
<1> DEFINE n == Len(datagram) - padding
<1>2. n \in Nat /\ n <= Len(datagram) /\ padding <= 7
  BY <1>1 DEF Given, LastPadding
<1>3. Wire = SubSeq(datagram, 1, n)
  BY DEF Wire
<1> HIDE DEF n
<1>4. Wire \in Bits /\ Len(Wire) = n /\ \A i \in 1..n : Wire[i] = datagram[i]
  BY <1>1, <1>2, <1>3, PrefixType
<1>5. IsPrefix(Wire, datagram)
  BY <1>1, <1>2, <1>4, PrefixBits
<1>6. ASSUME NEW i \in RulesFor(Wire) PROVE i \in RulesFor(datagram)
  <2> DEFINE id == IdBits(rules[i])
  <2>1. i \in 1..Len(rules) /\ IsPrefix(id, Wire)
    BY <1>6 DEF RulesFor
  <2>2. id \in Bits
    <3>1. IsId(rules[i].id)
      BY <2>1, LoadedRule, RuleSetsAssumption DEF Given, Loaded
    <3>2. rules[i].id.value \in Nat /\ rules[i].id.len \in Nat
      BY <3>1 DEF IsId
    <3> QED BY <3>2, BitsOfType DEF IdBits
  <2> HIDE DEF id
  <2>3. Len(id) <= n /\ \A k \in 1..Len(id) : id[k] = Wire[k]
    BY <1>4, <2>1, <2>2, PrefixBits
  <2>4. Len(id) \in Nat /\ Len(id) <= Len(datagram)
    BY <1>1, <1>2, <2>2, <2>3 DEF Bits
  <2>5. \A k \in 1..Len(id) : id[k] = datagram[k]
    BY <1>2, <1>4, <2>3, <2>4
  <2>6. IsPrefix(id, datagram)
    BY <1>1, <2>2, <2>4, <2>5, PrefixBits
  <2> QED BY <2>1, <2>6 DEF RulesFor, id
<1> QED BY <1>1, <1>2, <1>4, <1>5, <1>6 DEF n, Extends

LEMMA OneRuleHere ==
  ASSUME Given
  PROVE  /\ Loaded(rules)
         /\ \A i, j \in RulesFor(datagram) : i = j
<1>1. Loaded(rules) /\ datagram \in Bits
  BY RuleSetsAssumption, DatagramsAssumption DEF Given, Loaded
<1>2. ASSUME NEW i \in RulesFor(datagram), NEW j \in RulesFor(datagram) PROVE i = j
  BY <1>1, <1>2, OneRule DEF RulesFor
<1> QED BY <1>1, <1>2

(* There is one way through the entries of a rule.                         *)
LEMMA OneWay ==
  ASSUME NEW i, NEW k \in Nat \ {0}, NEW T, Leads(i, k, T), NEW U, Leads(i, k, U)
  PROVE  T[k] = U[k]
<1> DEFINE S == {m \in Nat : m + 1 <= k => T[m + 1] = U[m + 1]}
<1>1. 0 \in S
  <2>1. T[1] = U[1]
    BY DEF Leads
  <2> QED BY <2>1
<1>2. ASSUME NEW m \in Nat, m \in S PROVE m + 1 \in S
  <2> SUFFICES ASSUME (m + 1) + 1 <= k PROVE T[(m + 1) + 1] = U[(m + 1) + 1]
    OBVIOUS
  <2> DEFINE n == m + 1
  <2>1. n \in 1..(k - 1) /\ n <= k
    OBVIOUS
  <2>2. T[n] = U[n]
    BY <1>2, <2>1
  <2> HIDE DEF n
  <2>3. /\ Step(rules[i].entries[n], T[n], T[n + 1])
        /\ Step(rules[i].entries[n], U[n], U[n + 1])
    BY <2>1 DEF Leads
  <2>4. T[n + 1] = U[n + 1]
    BY <2>2, <2>3 DEF Step
  <2> QED BY <2>4 DEF n
<1> HIDE DEF S
<1>3. k - 1 \in S
  BY <1>1, <1>2, SetInduction
<1> QED BY <1>3 DEF S

(* As long as the rule set, the direction and the datagram stay, so do the *)
(* rules it can select and the ways through them.                          *)
LEMMA SameWays ==
  ASSUME UNCHANGED <<context, datagram>>
  PROVE  /\ rules' = rules /\ direction' = direction /\ datagram' = datagram
         /\ LastPadding' = LastPadding
         /\ \A w : RulesFor(w)' = RulesFor(w)
         /\ \A i, bits : Whole(i, bits)' <=> Whole(i, bits)
         /\ \A i, k, T : Leads(i, k, T)' <=> Leads(i, k, T)
<1>1. rules' = rules /\ direction' = direction /\ datagram' = datagram
  BY DEF context
<1>2. LastPadding' = LastPadding
  BY <1>1 DEF LastPadding
<1>3. \A w : RulesFor(w)' = RulesFor(w)
  BY <1>1 DEF RulesFor
<1>5. \A entry, s, t : Step(entry, s, t)' <=> Step(entry, s, t)
  BY <1>1 DEF Step, Skipped
<1>6. \A i, k, T : Leads(i, k, T)' <=> Leads(i, k, T)
  BY <1>1, <1>5 DEF Leads
<1>7. \A i, bits : Whole(i, bits)' <=> Whole(i, bits)
  BY <1>1, <1>6 DEF Whole, Goal, WrapsPacket
<1> QED BY <1>1, <1>2, <1>3, <1>6, <1>7

(* A success stays one while the padding grows.                            *)
LEMMA SuccessStays ==
  ASSUME Given, UNCHANGED <<context, datagram>>,
         padding' = padding \/ padding' = padding + 1, NEW s, Success(s)
  PROVE  Success(s)'
<1> USE SameWays
<1>1. s.rule \in RulesFor(datagram)'
  BY DEF Success
<1>2. s.bits \in Nat /\ s.bits <= Len(datagram') /\ Len(datagram') < s.bits + padding'
  <2>1. Len(datagram) \in Nat /\ padding \in Nat
    BY DatagramsAssumption DEF Given, Bits
  <2>2. s.bits \in Nat /\ s.bits <= Len(datagram) /\ Len(datagram) < s.bits + padding
    BY DEF Success
  <2>3. Len(datagram') = Len(datagram)
    OBVIOUS
  <2> DEFINE n == Len(datagram)
             b == s.bits
  <2> HIDE DEF n, b
  <2>4. b \in Nat /\ n \in Nat /\ padding \in Nat /\ b <= n /\ n < b + padding
    BY <2>1, <2>2 DEF n, b
  <2>5. n < b + padding'
    BY <2>4
  <2> QED BY <2>2, <2>3, <2>5 DEF n, b
<1>3. Whole(s.rule, s.bits)'
  BY DEF Success
<1> QED BY <1>1, <1>2, <1>3 DEF Success

(* The next attempt begins.                                                *)
LEMMA AttemptEnds ==
  ASSUME Inv, UNCHANGED <<context, datagram, answer>>, padding <= LastPadding, NextAttempt
  PROVE  Given' /\ Attempt' /\ (answer # Err("AmbiguousPadding"))'
<1>1. Given'
  <2>1. padding \in Nat
    BY DEF Inv, Given
  <2>2. LastPadding \in Nat
    <3>1. Len(datagram) \in Nat
      BY DatagramsAssumption DEF Inv, Given, Bits
    <3> QED BY <3>1 DEF LastPadding
  <2>3. padding' \in Nat /\ padding' <= LastPadding' + 1
    BY <2>1, <2>2, SameWays DEF NextAttempt
  <2> QED BY <2>3, SameWays DEF Inv, Given
<1>2. Attempt'
  BY DEF NextAttempt, Attempt
<1>3. (answer # Err("AmbiguousPadding"))'
  BY DEF Inv, Unambiguous
<1> QED BY <1>1, <1>2, <1>3

LEMMA FailureKeeps ==
  ASSUME Inv, UNCHANGED <<context, datagram, answer>>, padding <= LastPadding,
         NEW e \in AttemptErrors, AttemptFails(e)
  PROVE  Inv'
<1>1. NextAttempt /\ successes' = successes
  BY DEF AttemptFails
<1>2. Given' /\ Attempt' /\ (answer # Err("AmbiguousPadding"))'
  BY <1>1, AttemptEnds
<1>3. firstError' \in AttemptErrors \cup {NoError}
  BY DEF AttemptFails, Inv, Unambiguous
<1>4. ASSUME NEW s, Success(s) PROVE Success(s)'
  BY <1>1, <1>4, SuccessStays DEF Inv, NextAttempt
<1>5. OneSuccess'
  BY <1>1, <1>4 DEF Inv, OneSuccess
<1> QED BY <1>2, <1>3, <1>5 DEF Inv, Unambiguous

(* An attempt that succeeds is the first one to.                           *)
LEMMA FirstSuccess ==
  ASSUME Inv, padding <= LastPadding, NEW i \in RulesFor(Wire), Whole(i, Len(Wire))
  PROVE  successes = <<>>
<1>0. PICK T : Leads(i, Goal(i), T) /\ WholeBytes(Len(Wire), T[Goal(i)].pos)
  BY DEF Whole
<1> SUFFICES ASSUME NEW s, Success(s) PROVE FALSE
  BY DEF Inv, OneSuccess
<1>1. /\ Len(datagram) \in Nat /\ Len(Wire) = Len(datagram) - padding /\ padding <= 7
      /\ RulesFor(Wire) \subseteq RulesFor(datagram)
  BY WireFacts DEF Inv
<1>2. s.rule = i
  BY <1>1, OneRuleHere DEF Inv, Success
<1>3. PICK U : Leads(i, Goal(i), U) /\ WholeBytes(s.bits, U[Goal(i)].pos)
  BY <1>2 DEF Success, Whole
<1>4. Goal(i) \in Nat \ {0}
  <2>1. i \in 1..Len(rules)
    BY DEF RulesFor
  <2>2. rules[i].entries \in Seq(FieldEntries)
    BY <2>1, LoadedRule, OneRuleHere DEF Inv
  <2>3. Len(rules[i].entries) \in Nat
    BY <2>2
  <2> QED BY <2>3 DEF Goal
<1>5. T[Goal(i)] = U[Goal(i)]
  BY <1>0, <1>3, <1>4, OneWay
<1> DEFINE p == T[Goal(i)].pos
           a == s.bits
           b == Len(Wire)
           n == Len(datagram)
<1>6. WholeBytes(a, p) /\ WholeBytes(b, p)
  BY <1>0, <1>3, <1>5
<1>7. a \in Nat /\ a <= n /\ n < a + padding /\ padding \in Nat
  BY DEF Success, Inv, Given
<1>8. n \in Nat /\ b = n - padding /\ padding <= 7
  BY <1>1
<1> HIDE DEF p, a, b, n
<1>9. /\ p \in Nat /\ p <= a /\ p <= b
      /\ (a - p) % 8 = 0 /\ (b - p) % 8 = 0
  BY <1>6 DEF WholeBytes
<1>10. a - b \in 1..7
  BY <1>7, <1>8
<1> DEFINE x == a - p
           y == b - p
<1>11. x \in Nat /\ y \in Nat /\ x - y \in 1..7 /\ x % 8 = 0 /\ y % 8 = 0
  BY <1>7, <1>8, <1>9, <1>10
<1> HIDE DEF x, y
<1> QED BY <1>11

LEMMA SuccessKeeps ==
  ASSUME Inv, UNCHANGED <<context, datagram, answer>>, padding <= LastPadding,
         NEW i \in RulesFor(Wire), Whole(i, Len(Wire)),
         NEW packet, AttemptSucceeds(i, packet)
  PROVE  Inv'
<1>0. PICK s : s = [bits |-> Len(Wire), rule |-> i, packet |-> packet]
  OBVIOUS
<1>1. successes = <<>>
  BY FirstSuccess
<1>2. NextAttempt /\ successes' = Append(successes, s) /\ firstError' = firstError
  BY <1>0 DEF AttemptSucceeds
<1>3. successes' = <<s>>
  BY <1>1, <1>2
<1>4. Given' /\ Attempt' /\ (answer # Err("AmbiguousPadding"))'
  BY <1>2, AttemptEnds
<1>5. /\ Len(datagram) \in Nat /\ Len(Wire) = Len(datagram) - padding /\ padding \in Nat
      /\ Len(Wire) \in Nat
      /\ RulesFor(Wire) \subseteq RulesFor(datagram)
  BY WireFacts DEF Inv, Given, Bits
<1>6. s.bits = Len(Wire) /\ s.rule = i
  BY <1>0
<1>7. s.bits \in Nat /\ s.bits <= Len(datagram') /\ Len(datagram') < s.bits + padding'
  BY <1>2, <1>5, <1>6, SameWays DEF NextAttempt
<1>8. s.rule \in RulesFor(datagram)'
  BY <1>5, <1>6, SameWays
<1>9. Whole(s.rule, s.bits)'
  <2>1. Whole(s.rule, s.bits)
    BY <1>6
  <2> QED BY <2>1, SameWays
<1>10. Success(s)'
  BY <1>7, <1>8, <1>9 DEF Success
<1>11. OneSuccess'
  BY <1>3, <1>10 DEF OneSuccess
<1>12. firstError' \in AttemptErrors \cup {NoError}
  BY <1>2 DEF Inv, Unambiguous
<1> QED BY <1>4, <1>11, <1>12 DEF Inv, Unambiguous

LEMMA SkipKeeps == Inv /\ SkipAttempt => Inv'
<1> SUFFICES ASSUME Inv, SkipAttempt PROVE Inv'
  OBVIOUS
<1>1. /\ padding <= LastPadding /\ NextAttempt
      /\ UNCHANGED <<context, datagram, successes, firstError, answer>>
  BY DEF SkipAttempt
<1>2. Given' /\ Attempt' /\ (answer # Err("AmbiguousPadding"))'
  BY <1>1, AttemptEnds
<1>3. ASSUME NEW s, Success(s) PROVE Success(s)'
  BY <1>1, <1>3, SuccessStays DEF Inv, NextAttempt
<1>4. OneSuccess'
  BY <1>1, <1>3 DEF Inv, OneSuccess
<1> QED BY <1>1, <1>2, <1>4 DEF Inv, Unambiguous

(* Where the ID of a rule the wire starts with ends.                       *)
LEMMA BehindId ==
  ASSUME Inv, padding <= LastPadding, NEW i \in RulesFor(Wire)
  PROVE  i \in 1..Len(rules) /\ Reaches(Wire, rules[i].id.len)
<1>1. i \in 1..Len(rules) /\ IsPrefix(IdBits(rules[i]), Wire)
  BY DEF RulesFor
<1>2. rules[i].id.value \in Nat /\ rules[i].id.len \in Nat
  <2>1. IsId(rules[i].id)
    BY <1>1, LoadedRule, OneRuleHere DEF Inv
  <2> QED BY <2>1 DEF IsId
<1>3. IdBits(rules[i]) \in Bits /\ Len(IdBits(rules[i])) = rules[i].id.len
  BY <1>2, BitsOfType DEF IdBits
<1>4. Wire \in Bits
  BY WireFacts DEF Inv
<1>5. rules[i].id.len <= Len(Wire)
  BY <1>1, <1>3, <1>4, PrefixBits
<1> QED BY <1>1, <1>2, <1>5 DEF Reaches

LEMMA SelectKeeps == Inv /\ Select => Inv'
<1> SUFFICES ASSUME Inv, Select PROVE Inv'
  OBVIOUS
<1> DEFINE i == SelectRule(Wire)
           rest == From(Wire, rules[i].id.len)
<1>1. /\ padding <= LastPadding /\ stage = "select"
      /\ UNCHANGED <<context, datagram, answer>>
  BY DEF Select
<1>2. CASE RulesFor(Wire) = {} /\ AttemptFails("NoMatchingRule")
  BY <1>1, <1>2, FailureKeeps DEF AttemptErrors
<1>3. ASSUME RulesFor(Wire) # {} PROVE i \in RulesFor(Wire)
  <2>1. RulesFor(Wire) \subseteq Nat
    BY DEF RulesFor
  <2> QED BY <1>3, <2>1, FirstPosition DEF SelectRule
<1>4. CASE RulesFor(Wire) # {} /\ AttemptFails("UnsupportedRuleNature")
  BY <1>1, <1>4, FailureKeeps DEF AttemptErrors
<1>5. CASE RulesFor(Wire) # {} /\ WrapsPacket(rules[i]) /\ AttemptYields(i, RestAsPacket(rest))
  <2> DEFINE outcome == RestAsPacket(rest)
  <2>1. CASE ~outcome.ok /\ AttemptFails(outcome.error)
    <3>1. outcome.error \in AttemptErrors
      BY <2>1, RebuiltPlain DEF Plain, AttemptErrors
    <3> HIDE DEF outcome
    <3> QED BY <1>1, <2>1, <3>1, FailureKeeps
  <2>2. CASE outcome.ok /\ AttemptSucceeds(i, outcome.value)
    <3> DEFINE n == rules[i].id.len
               T == [m \in 1..1 |-> Point(n, <<>>)]
    <3>1. i \in RulesFor(Wire) /\ Reaches(Wire, n) /\ Wire \in Bits
      BY <1>1, <1>3, <1>5, BehindId, WireFacts DEF Inv
    <3>2. Len(rest) % 8 = 0
      BY <2>2, Outcomes DEF RestAsPacket
    <3>3. Len(rest) = Len(Wire) - n /\ n \in Nat /\ n <= Len(Wire)
      BY <3>1, FromType DEF Reaches
    <3>4. WholeBytes(Len(Wire), n)
      BY <3>2, <3>3 DEF WholeBytes
    <3>5. Goal(i) = 1
      BY <1>5 DEF Goal
    <3>6. Leads(i, 1, T) /\ T[1].pos = n
      BY DEF Leads, Point
    <3>7. Whole(i, Len(Wire))
      <4> HIDE DEF T, i, n
      <4> QED BY <3>4, <3>5, <3>6 DEF Whole
    <3> HIDE DEF outcome, i
    <3> QED BY <1>1, <2>2, <3>1, <3>7, SuccessKeeps
  <2> QED BY <1>5, <2>1, <2>2 DEF AttemptYields
<1>6. CASE /\ RulesFor(Wire) # {} /\ ~WrapsPacket(rules[i])
           /\ selected' = i /\ pos' = rules[i].id.len /\ stage' = "fields"
           /\ UNCHANGED <<padding, next, fields, successes, firstError>>
  <2>0. PICK j : j = i
    OBVIOUS
  <2>1. j \in RulesFor(Wire)
    BY <1>3, <1>6, <2>0
  <2>2. j \in 1..Len(rules) /\ Reaches(Wire, rules[j].id.len)
    BY <1>1, <2>1, BehindId
  <2>3. /\ selected' = j /\ pos' = rules[j].id.len /\ ~WrapsPacket(rules[j])
        /\ stage' = "fields"
        /\ UNCHANGED <<padding, next, fields, successes, firstError>>
    BY <1>6, <2>0
  <2> HIDE DEF i
  <2>4. next = 1 /\ fields = <<>>
    BY <1>1 DEF Inv, Attempt
  <2>5. Wire' = Wire /\ rules' = rules /\ LastPadding' = LastPadding
        /\ RulesFor(Wire)' = RulesFor(Wire)
    BY <1>1, <2>3, SameWays DEF Wire, RulesFor
  <2>6. next' \in 1..(Len(rules[j].entries) + 1)
    <3>1. Len(rules[j].entries) \in Nat
      <4>1. rules[j].entries \in Seq(FieldEntries)
        BY <2>2, LoadedRule, OneRuleHere DEF Inv
      <4> QED BY <4>1
    <3> QED BY <2>3, <2>4, <3>1
  <2>7. fields' \in Seq(StoredFields)
    BY <2>3, <2>4
  <2>8. PICK T : T = [m \in 1..1 |-> Point(rules[j].id.len, <<>>)]
    OBVIOUS
  <2>9. Leads(j, 1, T) /\ T[1] = Point(pos', fields')
    BY <2>3, <2>4, <2>8 DEF Leads
  <2>10. Leads(j, 1, T)'
    BY <1>1, <2>9, SameWays
  <2>11. \E U : Leads(selected, next, U)' /\ U[next'] = Point(pos', fields')
    BY <2>3, <2>4, <2>9, <2>10
  <2>12. Attempt'
    BY <1>1, <2>1, <2>2, <2>3, <2>5, <2>6, <2>7, <2>11 DEF Attempt
  <2>13. Given' /\ OneSuccess' /\ Unambiguous'
    BY <1>1, <2>3, <2>5, SameWays, SuccessStays DEF Inv, Given, OneSuccess, Unambiguous
  <2> QED BY <2>12, <2>13 DEF Inv
<1> HIDE DEF i, rest
<1> QED BY <1>2, <1>4, <1>5, <1>6 DEF Select, i, rest

(* The rule of an attempt that decodes fields.                             *)
LEMMA SelectedRule ==
  ASSUME Inv, stage = "fields"
  PROVE  /\ selected \in RulesFor(Wire) /\ selected \in 1..Len(rules)
         /\ Len(rules[selected].entries) \in Nat
         /\ \A k \in 1..Len(rules[selected].entries) :
              ~Skipped(rules[selected].entries[k]) => Decodable(rules[selected].entries[k])
<1>1. selected \in RulesFor(Wire) /\ selected \in 1..Len(rules)
  BY DEF Inv, Attempt, RulesFor
<1>2. /\ rules[selected].entries \in Seq(FieldEntries)
      /\ \A k \in 1..Len(rules[selected].entries) :
           /\ rules[selected].entries[k] \in FieldEntries
           /\ ValidEntry(rules[selected].entries[k])
  BY <1>1, LoadedRule, OneRuleHere DEF Inv
<1>3. Len(rules[selected].entries) \in Nat
  BY <1>2
<1> QED BY <1>1, <1>2, <1>3 DEF Skipped, Decodable

(* A step of the attempt is a step through the whole datagram.             *)
LEMMA WayContinues ==
  ASSUME NEW i, NEW k \in Nat \ {0}, NEW T, Leads(i, k, T), NEW t,
         Step(rules[i].entries[k], T[k], t)
  PROVE  \E U : Leads(i, k + 1, U) /\ U[k + 1] = t
<1> DEFINE U == [m \in 1..(k + 1) |-> IF m <= k THEN T[m] ELSE t]
<1>1. U[k + 1] = t /\ \A m \in 1..k : U[m] = T[m]
  OBVIOUS
<1> HIDE DEF U
<1>2. U[1] = T[1]
  BY <1>1
<1>3. ASSUME NEW m \in 1..((k + 1) - 1) PROVE Step(rules[i].entries[m], U[m], U[m + 1])
  <2>1. CASE m = k
    BY <1>1, <2>1
  <2>2. CASE m # k
    <3>1. m \in 1..(k - 1) /\ m \in 1..k /\ m + 1 \in 1..k
      BY <2>2
    <3>2. Step(rules[i].entries[m], T[m], T[m + 1])
      BY <3>1 DEF Leads
    <3> QED BY <1>1, <3>1, <3>2
  <2> QED BY <2>1, <2>2
<1>4. Leads(i, k + 1, U)
  BY <1>2, <1>3 DEF Leads
<1> QED BY <1>1, <1>4

LEMMA DecodeKeeps == Inv /\ DecodeEntry => Inv'
<1> SUFFICES ASSUME Inv, DecodeEntry PROVE Inv'
  OBVIOUS
<1> DEFINE n == Len(rules[selected].entries)
           entry == rules[selected].entries[next]
           outcome == Decoded(entry, Wire, pos, fields)
<1>1. /\ stage = "fields" /\ next <= n
      /\ UNCHANGED <<context, datagram, answer>>
  BY DEF DecodeEntry
<1>2. /\ padding <= LastPadding /\ ~WrapsPacket(rules[selected])
      /\ next \in 1..(n + 1) /\ Reaches(Wire, pos) /\ fields \in Seq(StoredFields)
      /\ \E T : Leads(selected, next, T) /\ T[next] = Point(pos, fields)
  BY <1>1 DEF Inv, Attempt
<1>3. selected \in RulesFor(Wire) /\ n \in Nat /\ (~Skipped(entry) => Decodable(entry))
  <2>1. next \in 1..n
    <3>1. n \in Nat
      BY <1>1, SelectedRule
    <3> HIDE DEF n
    <3> QED BY <1>1, <1>2, <3>1
  <2> QED BY <1>1, <2>1, SelectedRule
<1>4. PICK T : Leads(selected, next, T) /\ T[next] = Point(pos, fields)
  BY <1>2
<1>5. /\ Wire \in Bits /\ Extends(datagram, Wire)
  BY <1>2, WireFacts DEF Inv
<1>6. next \in Nat \ {0} /\ next + 1 \in 1..(n + 1)
  <2> HIDE DEF n
  <2> QED BY <1>1, <1>2, <1>3
<1> HIDE DEF n
<1>7. ASSUME NEW p, NEW f, Reaches(Wire, p), f \in Seq(StoredFields),
             Step(entry, Point(pos, fields), Point(p, f)),
             pos' = p, fields' = f, next' = next + 1,
             UNCHANGED <<padding, stage, selected, successes, firstError>>
      PROVE  Inv'
  <2>w. /\ next \in Nat \ {0}
        /\ Step(rules[selected].entries[next], T[next], Point(p, f))
    BY <1>4, <1>6, <1>7
  <2>1. PICK U : Leads(selected, next + 1, U) /\ U[next + 1] = Point(p, f)
    BY <1>4, <2>w, WayContinues
  <2>3. /\ selected' = selected /\ stage' = stage /\ padding' = padding
        /\ successes' = successes /\ firstError' = firstError
        /\ next' = next + 1 /\ pos' = p /\ fields' = f
    BY <1>7
  <2>4. Wire' = Wire /\ rules' = rules /\ LastPadding' = LastPadding
        /\ RulesFor(Wire)' = RulesFor(Wire)
    BY <1>1, <2>3, SameWays DEF Wire, RulesFor
  <2>5. Leads(selected, next, U)' /\ U[next'] = Point(pos', fields')
    <3>1. \A i, k : Leads(i, k, U)' <=> Leads(i, k, U)
      BY <1>1, SameWays
    <3>2. PICK i, k : i = selected /\ k = next + 1
      OBVIOUS
    <3>3. Leads(i, k, U)'
      BY <2>1, <3>1, <3>2
    <3>4. i = selected' /\ k = next'
      BY <2>3, <3>2
    <3> QED BY <2>1, <2>3, <3>3, <3>4
  <2>6. next' \in 1..(Len(rules'[selected'].entries) + 1)
    BY <1>6, <2>3, <2>4 DEF n
  <2>7. Attempt'
    BY <1>1, <1>2, <1>3, <1>7, <2>3, <2>4, <2>5, <2>6 DEF Attempt
  <2>8. ASSUME NEW s, Success(s) PROVE Success(s)'
    BY <1>1, <2>3, <2>8, SuccessStays DEF Inv
  <2>9. Given' /\ OneSuccess' /\ Unambiguous'
    BY <1>1, <2>3, <2>4, <2>8, SameWays DEF Inv, Given, OneSuccess, Unambiguous
  <2> QED BY <2>7, <2>9 DEF Inv
<1>8. CASE /\ Skipped(entry) /\ next' = next + 1
           /\ UNCHANGED <<padding, stage, selected, pos, fields, successes, firstError>>
  <2>1. Step(entry, Point(pos, fields), Point(pos, fields))
    BY <1>8 DEF Step
  <2>2. Inv'
    BY <1>2, <1>7, <1>8, <2>1
  <2> QED BY <2>2
<1>9. CASE /\ ~Skipped(entry) /\ outcome.ok
           /\ fields' = Append(fields, outcome.value.field)
           /\ pos' = outcome.value.pos /\ next' = next + 1
           /\ UNCHANGED <<padding, stage, selected, successes, firstError>>
  <2>1. /\ outcome.value.field \in StoredFields
        /\ Reaches(Wire, outcome.value.pos)
        /\ Decoded(entry, datagram, pos, fields) = outcome
    BY <1>2, <1>3, <1>5, <1>9, EntryTaken
  <2> DEFINE p == outcome.value.pos
             f == Append(fields, outcome.value.field)
  <2>2. f \in Seq(StoredFields)
    BY <1>2, <2>1
  <2>3. Point(pos, fields).pos = pos /\ Point(pos, fields).fields = fields
    BY DEF Point
  <2> HIDE DEF entry, outcome
  <2>4. Step(entry, Point(pos, fields), Point(p, f))
    BY <1>9, <2>1, <2>3 DEF Step
  <2> HIDE DEF p, f
  <2>5. pos' = p /\ fields' = f
    BY <1>9 DEF p, f
  <2>6. Inv'
    BY <1>7, <1>9, <2>1, <2>2, <2>4, <2>5 DEF p
  <2> QED BY <2>6
<1>10. CASE ~Skipped(entry) /\ ~outcome.ok /\ AttemptFails(outcome.error)
  <2>1. outcome.error \in AttemptErrors
    BY <1>3, <1>10, EntryPlain DEF Plain, AttemptErrors
  <2> HIDE DEF outcome
  <2> QED BY <1>1, <1>2, <1>10, <2>1, FailureKeeps
<1> HIDE DEF entry, outcome
<1> QED BY <1>8, <1>9, <1>10 DEF DecodeEntry, entry, outcome

LEMMA FinishKeeps == Inv /\ Finish => Inv'
<1> SUFFICES ASSUME Inv, Finish PROVE Inv'
  OBVIOUS
<1> DEFINE n == Len(rules[selected].entries)
           left == Len(Wire) - pos
           carries == \A f \in PayloadFields : ~Has(fields, f)
           whole == Reconstruct(direction, fields)
           joined == ReconstructWithSuffix(direction, fields, From(Wire, pos))
           outcome == IF left = 0 THEN whole
                      ELSE IF left < 8 \/ ~carries \/ left % 8 # 0
                           THEN Err("InvalidResidue")
                      ELSE joined
<1>1. /\ stage = "fields" /\ next > n
      /\ UNCHANGED <<context, datagram, answer>>
      /\ AttemptYields(selected, outcome)
  BY DEF Finish, Remaining
<1>2. /\ padding <= LastPadding /\ ~WrapsPacket(rules[selected])
      /\ next \in 1..(n + 1) /\ Reaches(Wire, pos)
      /\ \E T : Leads(selected, next, T) /\ T[next] = Point(pos, fields)
  BY <1>1 DEF Inv, Attempt
<1>3. selected \in RulesFor(Wire) /\ n \in Nat
  BY <1>1, SelectedRule
<1>4. Len(Wire) \in Nat
  BY <1>2, WireFacts DEF Inv, Bits
<1>5. next = n + 1
  <2> HIDE DEF n
  <2> QED BY <1>1, <1>2, <1>3
<1>6. next = Goal(selected)
  BY <1>2, <1>5 DEF Goal
<1>7. CASE ~outcome.ok /\ AttemptFails(outcome.error)
  <2>1. Plain(outcome)
    <3>1. Plain(whole) /\ Plain(joined) /\ Plain(Err("InvalidResidue"))
      BY RebuiltPlain, PlainErrors
    <3>2. outcome = whole \/ outcome = Err("InvalidResidue") \/ outcome = joined
      OBVIOUS
    <3> HIDE DEF whole, joined, outcome
    <3> QED BY <3>1, <3>2
  <2>2. outcome.error \in AttemptErrors
    BY <1>7, <2>1 DEF Plain, AttemptErrors
  <2> HIDE DEF outcome
  <2> QED BY <1>1, <1>2, <1>7, <2>2, FailureKeeps
<1>8. CASE outcome.ok /\ AttemptSucceeds(selected, outcome.value)
  <2>1. left = 0 \/ left % 8 = 0
    <3> HIDE DEF left, carries, whole, joined
    <3>1. CASE left # 0 /\ left % 8 # 0
      <4>1. outcome = Err("InvalidResidue")
        BY <3>1
      <4> HIDE DEF outcome
      <4> QED BY <1>8, <4>1, Outcomes
    <3> QED BY <3>1
  <2>2. WholeBytes(Len(Wire), pos)
    <3> DEFINE b == Len(Wire)
    <3>1. pos \in Nat /\ pos <= b /\ b \in Nat /\ (b - pos = 0 \/ (b - pos) % 8 = 0)
      BY <1>2, <1>4, <2>1 DEF Reaches
    <3> HIDE DEF b
    <3>2. (b - pos) % 8 = 0
      BY <3>1
    <3>3. WholeBytes(b, pos)
      BY <3>1, <3>2 DEF WholeBytes
    <3> QED BY <3>3 DEF b
  <2>3. PICK T : Leads(selected, next, T) /\ T[next] = Point(pos, fields)
    BY <1>2
  <2>4. T[Goal(selected)].pos = pos
    BY <1>6, <2>3 DEF Point
  <2>5. Whole(selected, Len(Wire))
    BY <1>6, <2>2, <2>3, <2>4 DEF Whole
  <2> HIDE DEF outcome
  <2> QED BY <1>1, <1>2, <1>3, <1>8, <2>5, SuccessKeeps
<1> HIDE DEF outcome
<1> QED BY <1>1, <1>7, <1>8 DEF AttemptYields

LEMMA AnswerKeeps == Inv /\ Answer => Inv'
<1> SUFFICES ASSUME Inv, Answer PROVE Inv'
  OBVIOUS
<1>1. /\ stage = "select" /\ stage' = "answered"
      /\ UNCHANGED <<context, datagram, padding, selected, next, pos, fields,
                     successes, firstError>>
      /\ answer' = CASE Len(successes) = 0 -> Err(firstError)
                     [] Len(successes) = 1 -> Ok(successes[1])
                     [] OTHER -> Err("AmbiguousPadding")
  BY DEF Answer, attemptVars
<1>2. Len(successes) = 0 \/ Len(successes) = 1
  BY DEF Inv, OneSuccess
<1>3. answer' # Err("AmbiguousPadding")
  <2>1. CASE Len(successes) = 0
    <3>1. answer' = Err(firstError)
      BY <1>1, <2>1
    <3>2. firstError # "AmbiguousPadding"
      BY DEF Inv, Unambiguous, AttemptErrors, StepErrors, NoError
    <3> QED BY <3>1, <3>2 DEF Err
  <2>2. CASE Len(successes) = 1
    <3>1. answer' = Ok(successes[1])
      BY <1>1, <2>2
    <3> QED BY <3>1, Outcomes
  <2> QED BY <1>2, <2>1, <2>2
<1>4. ASSUME NEW s, Success(s) PROVE Success(s)'
  BY <1>1, <1>4, SuccessStays DEF Inv
<1>5. Given' /\ OneSuccess' /\ Unambiguous'
  BY <1>1, <1>3, <1>4, SameWays DEF Inv, Given, OneSuccess, Unambiguous
<1>6. Attempt'
  BY <1>1 DEF Inv, Attempt
<1> QED BY <1>5, <1>6 DEF Inv

LEMMA StutterKeeps == Inv /\ UNCHANGED decompressVars => Inv'
<1> SUFFICES ASSUME Inv, UNCHANGED decompressVars PROVE Inv'
  OBVIOUS
<1>1. /\ UNCHANGED <<context, datagram>>
      /\ UNCHANGED <<padding, stage, selected, next, pos, fields, successes,
                     firstError, answer>>
  BY DEF decompressVars
<1>2. Wire' = Wire /\ RulesFor(Wire)' = RulesFor(Wire)
  BY <1>1, SameWays DEF Wire, RulesFor
<1>3. ASSUME NEW s, Success(s) PROVE Success(s)'
  BY <1>1, <1>3, SuccessStays DEF Inv
<1>4. Given' /\ OneSuccess' /\ Unambiguous'
  BY <1>1, <1>3, SameWays DEF Inv, Given, OneSuccess, Unambiguous
<1>5. ASSUME stage = "fields"
      PROVE  \E T : Leads(selected, next, T)' /\ T[next'] = Point(pos', fields')
  <2>1. PICK T : Leads(selected, next, T) /\ T[next] = Point(pos, fields)
    BY <1>5 DEF Inv, Attempt
  <2>2. PICK i, k : i = selected /\ k = next
    OBVIOUS
  <2>3. Leads(i, k, T)'
    BY <1>1, <2>1, <2>2, SameWays
  <2> QED BY <1>1, <2>1, <2>2, <2>3
<1>6. Attempt'
  BY <1>1, <1>2, <1>5, SameWays DEF Inv, Attempt
<1> QED BY <1>4, <1>6 DEF Inv

(* Every attempt decodes the fields of the whole datagram, and at most one *)
(* has succeeded so far.                                                   *)
THEOREM DecompressInvariant == DecompressSpec => []Inv
<1>1. DecompressInit => Inv
  <2> SUFFICES ASSUME DecompressInit PROVE Inv
    OBVIOUS
  <2>1. PICK d \in Datagrams : Start(d)
    BY DEF DecompressInit
  <2>2. Given
    <3>1. Len(datagram) \in Nat
      BY <2>1, DatagramsAssumption DEF Start, Bits
    <3>2. LastPadding \in Nat
      BY <3>1 DEF LastPadding
    <3> QED BY <2>1, <3>2 DEF Start, DecompressInit, ContextInit, Given
  <2>3. Attempt /\ OneSuccess
    BY <2>1 DEF Start, Attempt, OneSuccess
  <2>4. Unambiguous
    BY <2>1 DEF Start, Unambiguous, NoAnswer, NoError, Err
  <2> QED BY <2>2, <2>3, <2>4 DEF Inv
<1>2. Inv /\ [Decompress]_decompressVars => Inv'
  BY SkipKeeps, SelectKeeps, DecodeKeeps, FinishKeeps, AnswerKeeps, StutterKeeps
  DEF Decompress
<1> QED BY <1>1, <1>2, PTL DEF DecompressSpec

(* No two rule IDs fit one datagram, so the rule an attempt selects, and   *)
(* the rule of whatever it restores, is the only one there is.             *)
THEOREM RulesAreUnique == DecompressSpec => []OneRulePerDatagram
<1>1. Inv => OneRulePerDatagram
  <2> SUFFICES ASSUME Inv PROVE OneRulePerDatagram
    OBVIOUS
  <2>1. \A i, j \in RulesFor(datagram) : i = j
    BY OneRuleHere DEF Inv
  <2>2. ASSUME selected # 0 PROVE RulesFor(datagram) = {selected}
    <3>1. stage = "fields" /\ padding <= LastPadding /\ selected \in RulesFor(Wire)
      BY <2>2 DEF Inv, Attempt
    <3>2. selected \in RulesFor(datagram)
      BY <3>1, WireFacts DEF Inv
    <3> QED BY <2>1, <3>2
  <2>3. ASSUME NEW k \in 1..Len(successes) PROVE RulesFor(datagram) = {successes[k].rule}
    <3>1. PICK s : successes = <<s>> /\ Success(s)
      BY <2>3 DEF Inv, OneSuccess
    <3>2. successes[k] = s
      BY <2>3, <3>1
    <3>3. s.rule \in RulesFor(datagram)
      BY <3>1 DEF Success
    <3> QED BY <2>1, <3>2, <3>3
  <2> QED BY <2>1, <2>2, <2>3 DEF OneRulePerDatagram
<1> QED BY <1>1, DecompressInvariant, PTL

(* However many zeros a datagram ends in, one number of padding bits at    *)
(* most restores a packet, and no packet is lost as ambiguous.             *)
THEOREM PaddingIsUnique == DecompressSpec => []NeverAmbiguous
<1>1. Inv => NeverAmbiguous
  <2> SUFFICES ASSUME Inv PROVE NeverAmbiguous
    OBVIOUS
  <2>1. Len(successes) <= 1
    <3>1. Len(successes) = 0 \/ Len(successes) = 1
      BY DEF Inv, OneSuccess
    <3>2. 0 <= 1 /\ 1 <= 1
      OBVIOUS
    <3> QED BY <3>1, <3>2, Zenon
  <2> QED BY <2>1 DEF NeverAmbiguous, Inv, Unambiguous
<1> QED BY <1>1, DecompressInvariant, PTL

-----------------------------------------------------------------------------
(* Sums of 16-bit words.                                                   *)

(* f[i] is the sum of the first i words of g.                              *)
Sums(g, n, f) ==
  /\ f \in [0..n -> Nat]
  /\ f[0] = 0
  /\ \A i \in 1..n : f[i] = f[i - 1] + g[i]

(* Every sequence of words has its partial sums.                           *)
LEMMA SumsExist ==
  ASSUME NEW N \in Nat, NEW g \in [1..N -> Nat]
  PROVE  \E f : Sums(g, N, f)
<1> DEFINE S == {n \in Nat : n <= N => \E f : Sums(g, n, f)}
<1>1. 0 \in S
  <2> DEFINE f == [i \in 0..0 |-> 0]
  <2>1. Sums(g, 0, f)
    BY DEF Sums
  <2> QED BY <2>1
<1>2. ASSUME NEW n \in Nat, n \in S PROVE n + 1 \in S
  <2> SUFFICES ASSUME n + 1 <= N PROVE \E f : Sums(g, n + 1, f)
    OBVIOUS
  <2>1. PICK f : Sums(g, n, f)
    BY <1>2
  <2>2. g[n + 1] \in Nat
    OBVIOUS
  <2> DEFINE h == [i \in 0..(n + 1) |->
                     IF i = n + 1 THEN f[n] + g[n + 1] ELSE f[i]]
  <2>3. h \in [0..(n + 1) -> Nat]
    BY <2>1, <2>2 DEF Sums
  <2>4. h[0] = 0
    BY <2>1 DEF Sums
  <2>5. ASSUME NEW i \in 1..(n + 1) PROVE h[i] = h[i - 1] + g[i]
    <3>1. CASE i = n + 1
      BY <3>1
    <3>2. CASE i # n + 1
      <4>1. i \in 1..n /\ i - 1 \in 0..n
        BY <3>2
      <4>2. h[i] = f[i] /\ h[i - 1] = f[i - 1]
        BY <4>1
      <4> QED BY <4>1, <4>2, <2>1 DEF Sums
    <3> QED BY <3>1, <3>2
  <2>6. Sums(g, n + 1, h)
    <3> HIDE DEF h
    <3> QED BY <2>3, <2>4, <2>5 DEF Sums
  <2> QED BY <2>6
<1> HIDE DEF S
<1>3. Nat \subseteq S
  BY <1>1, <1>2, SetInduction
<1> QED BY <1>3 DEF S

(* Sums of words that differ in one place, of which one has zero there.    *)
LEMMA SumsDiffer ==
  ASSUME NEW n \in Nat, NEW g, NEW h, \A i \in 1..n : g[i] \in Nat /\ h[i] \in Nat,
         NEW f, Sums(g, n, f), NEW e, Sums(h, n, e),
         NEW k \in 1..n, g[k] = 0, \A i \in 1..n : i # k => g[i] = h[i]
  PROVE  e[n] = f[n] + h[k]
<1> DEFINE S == {i \in Nat : i <= n => e[i] = f[i] + (IF i < k THEN 0 ELSE h[k])}
<1>1. 0 \in S
  BY DEF Sums
<1>2. ASSUME NEW i \in Nat, i \in S PROVE i + 1 \in S
  <2> SUFFICES ASSUME i + 1 <= n
               PROVE  e[i + 1] = f[i + 1] + (IF i + 1 < k THEN 0 ELSE h[k])
    OBVIOUS
  <2>1. i + 1 \in 1..n /\ (i + 1) - 1 = i /\ i \in 0..n
    OBVIOUS
  <2>2. e[i] = f[i] + (IF i < k THEN 0 ELSE h[k])
    BY <1>2
  <2>3. e[i + 1] = e[i] + h[i + 1] /\ f[i + 1] = f[i] + g[i + 1]
    BY <2>1 DEF Sums
  <2>4. e[i] \in Nat /\ f[i] \in Nat /\ h[i + 1] \in Nat /\ g[i + 1] \in Nat /\ h[k] \in Nat
    BY <2>1 DEF Sums
  <2>5. CASE i + 1 = k
    <3>1. i < k /\ ~(i + 1 < k) /\ g[i + 1] = 0 /\ h[i + 1] = h[k]
      BY <2>5
    <3>2. e[i] = f[i] /\ f[i + 1] = f[i]
      BY <2>2, <2>3, <2>4, <3>1
    <3>3. e[i + 1] = f[i] + h[k]
      BY <2>3, <3>1, <3>2
    <3> QED BY <3>1, <3>2, <3>3
  <2>6. CASE i + 1 # k
    <3>1. g[i + 1] = h[i + 1]
      BY <2>1, <2>6
    <3>2. (i < k) <=> (i + 1 < k)
      BY <2>6
    <3>3. CASE i < k
      BY <2>2, <2>3, <2>4, <3>1, <3>2, <3>3
    <3>4. CASE ~(i < k)
      BY <2>2, <2>3, <2>4, <3>1, <3>2, <3>4
    <3> QED BY <3>3, <3>4
  <2> QED BY <2>5, <2>6
<1> HIDE DEF S
<1>3. Nat \subseteq S
  BY <1>1, <1>2, SetInduction
<1>4. ~(n < k) /\ n <= n
  OBVIOUS
<1> QED BY <1>3, <1>4 DEF S

(* j has the first m words of g, and behind them n words of h.             *)
Joins(j, g, m, h, n) ==
  /\ \A i \in 1..m : j[i] = g[i]
  /\ \A i \in 1..n : h[i] \in Nat /\ j[m + i] = h[i]

(* The sum of words is that of the first m and that of the others.         *)
LEMMA SumsJoin ==
  ASSUME NEW m \in Nat, NEW n \in Nat,
         NEW g, NEW f, Sums(g, m, f),
         NEW h, NEW e, Sums(h, n, e),
         NEW l, l = m + n, NEW j, NEW d, Sums(j, l, d), Joins(j, g, m, h, n)
  PROVE  d[l] = f[m] + e[n]
<1>0. /\ \A i \in 1..m : j[i] = g[i]
      /\ \A i \in 1..n : h[i] \in Nat /\ j[m + i] = h[i]
  BY DEF Joins
<1> DEFINE S == {i \in Nat : i <= m => d[i] = f[i]}
<1>1. 0 \in S
  BY DEF Sums
<1>2. ASSUME NEW i \in Nat, i \in S PROVE i + 1 \in S
  <2> SUFFICES ASSUME i + 1 <= m PROVE d[i + 1] = f[i + 1]
    OBVIOUS
  <2>1. i + 1 \in 1..m /\ i + 1 \in 1..(m + n) /\ (i + 1) - 1 = i /\ i <= m
    OBVIOUS
  <2>2. d[i + 1] = d[i] + j[i + 1] /\ f[i + 1] = f[i] + g[i + 1]
    BY <2>1 DEF Sums
  <2> QED BY <1>0, <1>2, <2>1, <2>2
<1>3. m \in S
  <2> HIDE DEF S
  <2> QED BY <1>1, <1>2, SetInduction
<1>4. d[m] = f[m]
  BY <1>3
<1> DEFINE T == {i \in Nat : i <= n => d[m + i] = f[m] + e[i]}
<1>5. f[m] \in Nat
  BY DEF Sums
<1>6. 0 \in T
  <2>1. m + 0 = m /\ e[0] = 0
    BY DEF Sums
  <2> QED BY <1>4, <1>5, <2>1
<1>7. ASSUME NEW i \in Nat, i \in T PROVE i + 1 \in T
  <2> SUFFICES ASSUME i + 1 <= n PROVE d[m + (i + 1)] = f[m] + e[i + 1]
    OBVIOUS
  <2>1. /\ i + 1 \in 1..n /\ m + (i + 1) \in 1..(m + n) /\ (i + 1) - 1 = i /\ i <= n
        /\ (m + (i + 1)) - 1 = m + i /\ i \in 0..n
    OBVIOUS
  <2>2. d[m + (i + 1)] = d[m + i] + j[m + (i + 1)] /\ e[i + 1] = e[i] + h[i + 1]
    BY <2>1 DEF Sums
  <2>3. j[m + (i + 1)] = h[i + 1]
    BY <1>0, <2>1
  <2>4. d[m + i] = f[m] + e[i]
    BY <1>7, <2>1
  <2>5. e[i] \in Nat /\ h[i + 1] \in Nat
    BY <1>0, <2>1 DEF Sums
  <2>6. d[m + (i + 1)] = (f[m] + e[i]) + h[i + 1]
    BY <2>2, <2>3, <2>4
  <2> QED BY <1>5, <2>2, <2>5, <2>6
<1>8. n \in T
  <2> HIDE DEF T
  <2> QED BY <1>6, <1>7, SetInduction
<1> QED BY <1>8

(* A sum of words that are at most b.                                      *)
LEMMA SumsBound ==
  ASSUME NEW b \in Nat, NEW n \in Nat, NEW g \in [1..n -> Nat], NEW f, Sums(g, n, f),
         \A i \in 1..n : g[i] <= b
  PROVE  f[n] \in Nat /\ f[n] <= b * n
<1> DEFINE S == {i \in Nat : i <= n => f[i] <= b * i}
<1>1. 0 \in S
  BY DEF Sums
<1>2. ASSUME NEW i \in Nat, i \in S PROVE i + 1 \in S
  <2> SUFFICES ASSUME i + 1 <= n PROVE f[i + 1] <= b * (i + 1)
    OBVIOUS
  <2>1. i + 1 \in 1..n /\ (i + 1) - 1 = i /\ i \in 0..n
    OBVIOUS
  <2>2. f[i + 1] = f[i] + g[i + 1] /\ f[i] \in Nat
    BY <2>1 DEF Sums
  <2>3. g[i + 1] \in Nat /\ g[i + 1] <= b
    BY <2>1
  <2>4. f[i] <= b * i
    BY <1>2
  <2>5. b * (i + 1) = b * i + b /\ b * i \in Nat
    OBVIOUS
  <2> QED BY <2>2, <2>3, <2>4, <2>5
<1> HIDE DEF S
<1>3. Nat \subseteq S
  BY <1>1, <1>2, SetInduction
<1>4. f[n] \in Nat
  BY DEF Sums
<1> QED BY <1>3, <1>4 DEF S

-----------------------------------------------------------------------------
(* The words of a bit string.                                              *)
WordCount(s) == (Len(s) + 15) \div 16
Evened(s) == s \o Zeros(16 * WordCount(s) - Len(s))
Words(s) == [i \in 1..WordCount(s) |-> Number(Slice(Evened(s), 16 * (i - 1), 16))]

(* What n bits can say.                                                    *)
LEMMA NumberBelow ==
  ASSUME NEW s \in Bits
  PROVE  Number(s) \in Nat /\ Number(s) < 2^Len(s)
<1>1. Len(s) \in Nat
  BY DEF Bits
<1>2. PICK f : Recurs(f, s, Len(s)) /\ Number(s) = f[Len(s)]
  BY NumberByDigits
<1> DEFINE S == {i \in Nat : i <= Len(s) => f[i] < 2^i}
<1>3. 0 \in S
  <2>1. f[0] = 0 /\ 2^0 = 1
    BY <1>2 DEF Recurs
  <2> QED BY <2>1
<1>4. ASSUME NEW i \in Nat, i \in S PROVE i + 1 \in S
  <2> SUFFICES ASSUME i + 1 <= Len(s) PROVE f[i + 1] < 2^(i + 1)
    OBVIOUS
  <2>1. i + 1 \in 1..Len(s) /\ (i + 1) - 1 = i /\ i \in 0..Len(s) /\ i <= Len(s)
    BY <1>1
  <2>2. f[i + 1] = 2 * f[i] + s[i + 1] /\ f[i] \in Nat
    BY <1>2, <2>1 DEF Recurs
  <2>3. s[i + 1] \in {0, 1}
    <3>1. s \in Seq(Bit)
      BY DEF Bits
    <3>2. s[i + 1] \in Bit
      BY <2>1, <3>1
    <3> QED BY <3>2 DEF Bit
  <2>4. f[i] < 2^i
    BY <1>4, <2>1
  <2> DEFINE p == 2^i
             q == 2^(i + 1)
  <2>5. q = 2 * p /\ p \in Nat /\ q \in Nat
    BY PowerNext
  <2>6. f[i] < p
    BY <2>4
  <2> HIDE DEF p, q
  <2>7. f[i + 1] < q
    BY <2>2, <2>3, <2>5, <2>6
  <2> QED BY <2>7 DEF q
<1> HIDE DEF S
<1>5. Nat \subseteq S
  BY <1>3, <1>4, SetInduction
<1>6. Len(s) \in S
  BY <1>1, <1>5
<1>7. f[Len(s)] < 2^Len(s)
  BY <1>1, <1>6 DEF S
<1> QED BY <1>2, <1>7, NumberType

(* The bits made up to whole words with zeros.                             *)
LEMMA EvenedType ==
  ASSUME NEW s \in Bits
  PROVE  /\ WordCount(s) \in Nat
         /\ Len(s) <= 16 * WordCount(s) /\ 16 * WordCount(s) <= Len(s) + 15
         /\ Evened(s) \in Bits /\ Len(Evened(s)) = 16 * WordCount(s)
         /\ \A i \in 1..Len(s) : Evened(s)[i] = s[i]
         /\ \A i \in (Len(s) + 1)..(16 * WordCount(s)) : Evened(s)[i] = 0
<1> DEFINE l == Len(s)
           c == WordCount(s)
           n == 16 * c - l
<1>1. l \in Nat
  BY DEF Bits
<1>2. c \in Nat /\ l <= 16 * c /\ 16 * c <= l + 15
  <2> HIDE DEF l
  <2>1. c = (l + 15) \div 16
    BY DEF WordCount, l
  <2> HIDE DEF c
  <2> QED BY <1>1, <2>1
<1>3. Evened(s) = s \o Zeros(n)
  BY DEF Evened
<1> HIDE DEF c
<1>4. n \in Nat /\ l + n = 16 * c
  <2> HIDE DEF l
  <2> QED BY <1>1, <1>2
<1> HIDE DEF n
<1>5. Zeros(n) \in Bits /\ Len(Zeros(n)) = n /\ \A i \in 1..n : Zeros(n)[i] = 0
  BY <1>4, ZerosType
<1>6. /\ s \o Zeros(n) \in Bits
      /\ Len(s \o Zeros(n)) = l + n
      /\ \A i \in 1..l : (s \o Zeros(n))[i] = s[i]
      /\ \A i \in 1..n : (s \o Zeros(n))[l + i] = Zeros(n)[i]
  <2> DEFINE z == Zeros(n)
  <2> HIDE DEF z
  <2>1. z \in Bits /\ Len(z) = n
    BY <1>5 DEF z
  <2>2. /\ s \o z \in Bits
        /\ Len(s \o z) = Len(s) + Len(z)
        /\ \A i \in 1..Len(s) : (s \o z)[i] = s[i]
        /\ \A i \in 1..Len(z) : (s \o z)[Len(s) + i] = z[i]
    BY <2>1, ConcatBits
  <2> QED BY <2>1, <2>2 DEF z
<1>7. ASSUME NEW i \in (l + 1)..(16 * c) PROVE Evened(s)[i] = 0
  <2>1. i - l \in 1..n /\ l + (i - l) = i
    <3> HIDE DEF l
    <3> QED BY <1>1, <1>2, <1>4
  <2> QED BY <1>3, <1>5, <1>6, <2>1
<1> HIDE DEF l
<1>8. /\ c \in Nat /\ l <= 16 * c /\ 16 * c <= l + 15
      /\ Evened(s) \in Bits /\ Len(Evened(s)) = 16 * c
      /\ \A i \in 1..l : Evened(s)[i] = s[i]
      /\ \A i \in (l + 1)..(16 * c) : Evened(s)[i] = 0
  BY <1>2, <1>3, <1>4, <1>6, <1>7
<1> QED BY <1>8 DEF l, c

(* A word is a number below 2^16.                                          *)
LEMMA WordType ==
  ASSUME NEW s \in Bits, NEW i \in 1..WordCount(s)
  PROVE  LET w == Slice(Evened(s), 16 * (i - 1), 16)
         IN /\ w \in Bits /\ Len(w) = 16
            /\ \A j \in 1..16 : w[j] = Evened(s)[16 * (i - 1) + j]
            /\ Words(s)[i] = Number(w) /\ Words(s)[i] \in Nat /\ Words(s)[i] < 2^16
<1> DEFINE w == Slice(Evened(s), 16 * (i - 1), 16)
           c == WordCount(s)
           m == 16 * (i - 1)
<1>1. c \in Nat /\ Evened(s) \in Bits /\ Len(Evened(s)) = 16 * c
  BY EvenedType
<1>2. i \in 1..c
  OBVIOUS
<1> HIDE DEF c
<1>3. m \in Nat /\ m + 16 <= 16 * c
  BY <1>1, <1>2
<1>4. w \in Bits /\ Len(w) = 16 /\ \A j \in 1..16 : w[j] = Evened(s)[m + j]
  <2> DEFINE e == Evened(s)
  <2>1. e \in Bits /\ m \in Nat /\ m + 16 <= Len(e) /\ 16 \in Nat /\ w = Slice(e, m, 16)
    BY <1>1, <1>3
  <2> HIDE DEF e, m, w
  <2>2. w \in Bits /\ Len(w) = 16 /\ \A j \in 1..16 : w[j] = e[m + j]
    BY <2>1, PartType
  <2> QED BY <2>2 DEF e
<1>5. Words(s)[i] = Number(w)
  BY DEF Words
<1> HIDE DEF w
<1>6. Number(w) \in Nat /\ Number(w) < 2^16
  <2>1. Number(w) \in Nat /\ Number(w) < 2^Len(w)
    BY <1>4, NumberBelow
  <2> QED BY <1>4, <2>1
<1>7. Words(s)[i] \in Nat /\ Words(s)[i] < 2^16
  BY <1>5, <1>6
<1> QED BY <1>4, <1>5, <1>7 DEF w

(* A word whose bits are in both strings.                                  *)
LEMMA SameWord ==
  ASSUME NEW s \in Bits, NEW t \in Bits,
         NEW i \in 1..WordCount(s), NEW k \in 1..WordCount(t),
         \A j \in 1..16 : Evened(s)[16 * (i - 1) + j] = Evened(t)[16 * (k - 1) + j]
  PROVE  Words(s)[i] = Words(t)[k]
<1> DEFINE v == Slice(Evened(s), 16 * (i - 1), 16)
           w == Slice(Evened(t), 16 * (k - 1), 16)
<1>1. /\ v \in Bits /\ Len(v) = 16
      /\ \A j \in 1..16 : v[j] = Evened(s)[16 * (i - 1) + j]
      /\ Words(s)[i] = Number(v)
  BY WordType
<1>2. /\ w \in Bits /\ Len(w) = 16
      /\ \A j \in 1..16 : w[j] = Evened(t)[16 * (k - 1) + j]
      /\ Words(t)[k] = Number(w)
  BY WordType
<1> HIDE DEF v, w
<1>3. \A j \in 1..Len(v) : v[j] = w[j]
  BY <1>1, <1>2
<1>4. v = w
  <2>1. v \in Bits /\ w \in Bits /\ Len(v) = Len(w)
    BY <1>1, <1>2
  <2> QED BY <1>3, <2>1, SameBits
<1> QED BY <1>1, <1>2, <1>4

(* WordSum is what its recurrence says.                                    *)
LEMMA WordSumSolved ==
  ASSUME NEW s \in Bits
  PROVE  /\ Words(s) \in [1..WordCount(s) -> Nat]
         /\ \E f : Sums(Words(s), WordCount(s), f) /\ WordSum(s) = f[WordCount(s)]
<1> DEFINE c == WordCount(s)
           w == Words(s)
           word(i) == Number(Slice(Evened(s), 16 * (i - 1), 16))
<1>1. c \in Nat
  BY EvenedType
<1>2. w = [i \in 1..c |-> word(i)] /\ \A i \in 1..c : word(i) \in Nat
  <2>1. w = [i \in 1..c |-> word(i)]
    BY DEF Words
  <2>2. \A i \in 1..c : w[i] \in Nat
    BY WordType
  <2> HIDE DEF c, w, word
  <2> QED BY <2>1, <2>2
<1> DEFINE Def(n) == n = [i \in 0..c |-> IF i = 0 THEN 0 ELSE n[i - 1] + word(i)]
           h == CHOOSE n : Def(n)
<1>3. WordSum(s) = h[c]
  BY DEF WordSum, WordCount, Evened
<1> HIDE DEF c, w, word
<1>4. w \in [1..c -> Nat] /\ \A i \in 1..c : w[i] = word(i)
  BY <1>2
<1>5. PICK f : Sums(w, c, f)
  BY <1>1, <1>4, SumsExist
<1>6. Def(f)
  <2>1. f = [i \in 0..c |-> f[i]]
    BY <1>5 DEF Sums
  <2>2. \A i \in 0..c : f[i] = IF i = 0 THEN 0 ELSE f[i - 1] + word(i)
    BY <1>1, <1>4, <1>5 DEF Sums
  <2> QED BY <2>1, <2>2
<1>7. Def(h)
  BY <1>6
<1>8. /\ h = [i \in 0..c |-> h[i]] /\ h[0] = 0
      /\ \A i \in 1..c : h[i] = h[i - 1] + w[i]
  <2>1. h = [i \in 0..c |-> IF i = 0 THEN 0 ELSE h[i - 1] + word(i)]
    BY <1>7
  <2> HIDE DEF h
  <2>2. \A i \in 0..c : h[i] = IF i = 0 THEN 0 ELSE h[i - 1] + word(i)
    BY <2>1
  <2>3. h = [i \in 0..c |-> h[i]]
    BY <2>1
  <2>4. h[0] = 0
    BY <1>1, <2>2
  <2>5. ASSUME NEW i \in 1..c PROVE h[i] = h[i - 1] + w[i]
    <3>1. i \in 0..c /\ i # 0
      BY <1>1
    <3>2. h[i] = h[i - 1] + word(i)
      BY <2>2, <3>1
    <3> QED BY <1>4, <3>2
  <2> QED BY <2>3, <2>4, <2>5
<1> HIDE DEF h, Def
<1>9. h[c] = f[c]
  <2> DEFINE S == {i \in Nat : i <= c => h[i] = f[i]}
  <2>1. 0 \in S
    BY <1>5, <1>8 DEF Sums
  <2>2. ASSUME NEW i \in Nat, i \in S PROVE i + 1 \in S
    <3> SUFFICES ASSUME i + 1 <= c PROVE h[i + 1] = f[i + 1]
      OBVIOUS
    <3>1. i + 1 \in 1..c /\ (i + 1) - 1 = i /\ i <= c
      BY <1>1
    <3>2. h[i] = f[i]
      BY <2>2, <3>1
    <3>3. h[i + 1] = h[i] + w[i + 1] /\ f[i + 1] = f[i] + w[i + 1]
      BY <1>5, <1>8, <3>1 DEF Sums
    <3> QED BY <3>2, <3>3
  <2> HIDE DEF S
  <2>3. Nat \subseteq S
    BY <2>1, <2>2, SetInduction
  <2> QED BY <1>1, <2>3 DEF S
<1>10. WordSum(s) = f[c]
  BY <1>3, <1>9
<1> QED BY <1>4, <1>5, <1>10 DEF c, w

(* The sum of a string, from how many words it has.                        *)
LEMMA WordSumBound ==
  ASSUME NEW s \in Bits
  PROVE  WordSum(s) \in Nat /\ WordSum(s) <= AllOnes * WordCount(s)
<1> DEFINE c == WordCount(s)
           w == Words(s)
           b == AllOnes
<1>1. c \in Nat
  BY EvenedType
<1>2. w \in [1..c -> Nat] /\ \A i \in 1..c : w[i] < 2^16
  BY WordSumSolved, WordType
<1>3. PICK f : Sums(w, c, f) /\ WordSum(s) = f[c]
  BY WordSumSolved
<1>4. b \in Nat /\ \A i \in 1..c : w[i] <= b
  <2> HIDE DEF c, w
  <2>1. 2^16 \in Nat /\ 2^16 > 16
    BY PowerPositive
  <2> DEFINE p == 2^16
  <2> HIDE DEF p
  <2>2. b = p - 1
    BY DEF b, AllOnes, p
  <2> HIDE DEF b
  <2>3. p \in Nat /\ p > 16 /\ \A i \in 1..c : w[i] < p /\ w[i] \in Nat
    BY <1>2, <2>1 DEF p
  <2> QED BY <2>2, <2>3
<1> HIDE DEF c, w, b
<1>5. f[c] \in Nat /\ f[c] <= b * c
  BY <1>1, <1>2, <1>3, <1>4, SumsBound
<1> QED BY <1>3, <1>5 DEF c, b

(* Sixteen zeros are the word 0.                                           *)
LEMMA ZeroWord ==
  ASSUME NEW s \in Bits, \A i \in 1..Len(s) : s[i] = 0
  PROVE  Number(s) = 0
<1>1. Len(s) \in Nat
  BY DEF Bits
<1>2. PICK f : Recurs(f, s, Len(s)) /\ Number(s) = f[Len(s)]
  BY NumberByDigits
<1> DEFINE S == {i \in Nat : i <= Len(s) => f[i] = 0}
<1>3. 0 \in S
  BY <1>2 DEF Recurs
<1>4. ASSUME NEW i \in Nat, i \in S PROVE i + 1 \in S
  <2> SUFFICES ASSUME i + 1 <= Len(s) PROVE f[i + 1] = 0
    OBVIOUS
  <2>1. i + 1 \in 1..Len(s) /\ (i + 1) - 1 = i /\ i <= Len(s)
    BY <1>1
  <2>2. f[i + 1] = 2 * f[i] + s[i + 1] /\ s[i + 1] = 0 /\ f[i] = 0
    BY <1>2, <1>4, <2>1 DEF Recurs
  <2> QED BY <2>2
<1> HIDE DEF S
<1>5. Nat \subseteq S
  BY <1>3, <1>4, SetInduction
<1>6. Len(s) \in S
  BY <1>1, <1>5
<1> QED BY <1>1, <1>2, <1>6 DEF S

LEMMA MoreWords ==
  ASSUME NEW m \in Nat, NEW l \in Nat
  PROVE  /\ (16 * m + 15) \div 16 = m
         /\ ((16 * m + l) + 15) \div 16 = m + ((l + 15) \div 16)
OBVIOUS

LEMMA SumsOfWords ==
  ASSUME NEW s \in Bits, NEW t \in Bits, NEW u \in Bits,
         WordCount(u) = WordCount(s) + WordCount(t),
         \A i \in 1..WordCount(s) : Words(u)[i] = Words(s)[i],
         \A i \in 1..WordCount(t) : Words(u)[WordCount(s) + i] = Words(t)[i]
  PROVE  WordSum(u) = WordSum(s) + WordSum(t)
<1> DEFINE m == WordCount(s)
           n == WordCount(t)
           g == Words(s)
           h == Words(t)
           j == Words(u)
           l == WordCount(u)
<1>1. m \in Nat /\ n \in Nat
  BY EvenedType
<1>2. g \in [1..m -> Nat] /\ \E f : Sums(g, m, f) /\ WordSum(s) = f[m]
  BY WordSumSolved
<1>3. h \in [1..n -> Nat] /\ \E f : Sums(h, n, f) /\ WordSum(t) = f[n]
  BY WordSumSolved
<1>4. l = m + n /\ \E f : Sums(j, l, f) /\ WordSum(u) = f[l]
  BY WordSumSolved
<1>5. (\A i \in 1..m : j[i] = g[i]) /\ \A i \in 1..n : j[m + i] = h[i]
  OBVIOUS
<1> HIDE DEF m, n, l, g, h, j
<1>6. PICK f : Sums(g, m, f) /\ WordSum(s) = f[m]
  BY <1>2
<1>7. PICK e : Sums(h, n, e) /\ WordSum(t) = e[n]
  BY <1>3
<1>8. PICK d : Sums(j, l, d) /\ WordSum(u) = d[l]
  BY <1>4
<1>9. d[l] = f[m] + e[n]
  <2>1. Joins(j, g, m, h, n)
    BY <1>3, <1>5 DEF Joins
  <2> QED BY <1>1, <1>4, <1>6, <1>7, <1>8, <2>1, SumsJoin
<1> QED BY <1>6, <1>7, <1>8, <1>9

LEMMA SumsOfOthers ==
  ASSUME NEW s \in Bits, NEW t \in Bits, WordCount(t) = WordCount(s),
         NEW l \in 1..WordCount(s), Words(s)[l] = 0,
         \A i \in 1..WordCount(s) : i # l => Words(s)[i] = Words(t)[i]
  PROVE  WordSum(t) = WordSum(s) + Words(t)[l]
<1> DEFINE n == WordCount(s)
           g == Words(s)
           h == Words(t)
<1>1. n \in Nat
  BY EvenedType
<1>2. g \in [1..n -> Nat] /\ \E f : Sums(g, n, f) /\ WordSum(s) = f[n]
  BY WordSumSolved
<1>3. h \in [1..n -> Nat] /\ \E f : Sums(h, n, f) /\ WordSum(t) = f[n]
  <2>1. /\ h \in [1..WordCount(t) -> Nat]
        /\ \E f : Sums(h, WordCount(t), f) /\ WordSum(t) = f[WordCount(t)]
    BY WordSumSolved
  <2> QED BY <2>1
<1>4. l \in 1..n /\ g[l] = 0 /\ \A i \in 1..n : i # l => g[i] = h[i]
  OBVIOUS
<1> HIDE DEF n, g, h
<1>5. PICK f : Sums(g, n, f) /\ WordSum(s) = f[n]
  BY <1>2
<1>6. PICK e : Sums(h, n, e) /\ WordSum(t) = e[n]
  BY <1>3
<1>7. e[n] = f[n] + h[l]
  <2>1. \A i \in 1..n : g[i] \in Nat /\ h[i] \in Nat
    BY <1>2, <1>3
  <2> QED BY <1>1, <1>4, <1>5, <1>6, <2>1, SumsDiffer
<1> QED BY <1>5, <1>6, <1>7 DEF h

(* Behind a whole number of words, the words of t follow.                  *)
LEMMA WordSumJoin ==
  ASSUME NEW s \in Bits, NEW t \in Bits, NEW m \in Nat, Len(s) = 16 * m
  PROVE  WordSum(s \o t) = WordSum(s) + WordSum(t)
<1> DEFINE u == s \o t
           n == WordCount(t)
<1>1. /\ u \in Bits /\ Len(u) = 16 * m + Len(t) /\ Len(t) \in Nat
      /\ \A i \in 1..(16 * m) : u[i] = s[i]
      /\ \A i \in 1..Len(t) : u[16 * m + i] = t[i]
  <2>1. Len(t) \in Nat
    BY DEF Bits
  <2>2. /\ u \in Bits /\ Len(u) = Len(s) + Len(t)
        /\ \A i \in 1..Len(s) : u[i] = s[i]
        /\ \A i \in 1..Len(t) : u[Len(s) + i] = t[i]
    BY ConcatBits
  <2> HIDE DEF u
  <2> QED BY <2>1, <2>2
<1> HIDE DEF u
<1>2. /\ WordCount(s) \in Nat /\ n \in Nat
      /\ WordCount(u) \in Nat
      /\ WordCount(s) = (16 * m + 15) \div 16
      /\ WordCount(u) = ((16 * m + Len(t)) + 15) \div 16
      /\ n = (Len(t) + 15) \div 16
  BY <1>1, EvenedType DEF WordCount
<1>3. WordCount(s) = m /\ WordCount(u) = m + n
  <2> DEFINE l == Len(t)
  <2>1. l \in Nat /\ n = (l + 15) \div 16 /\ WordCount(u) = ((16 * m + l) + 15) \div 16
    BY <1>1, <1>2
  <2> HIDE DEF n, l
  <2>2. (16 * m + 15) \div 16 = m /\ ((16 * m + l) + 15) \div 16 = m + ((l + 15) \div 16)
    BY <2>1, MoreWords
  <2> QED BY <1>2, <2>1, <2>2
<1>4. /\ \A i \in 1..(16 * m) : Evened(s)[i] = s[i]
      /\ \A i \in 1..Len(t) : Evened(t)[i] = t[i]
      /\ \A i \in (Len(t) + 1)..(16 * n) : Evened(t)[i] = 0
  BY EvenedType
<1>5. /\ \A i \in 1..(16 * m + Len(t)) : Evened(u)[i] = u[i]
      /\ \A i \in (16 * m + Len(t) + 1)..(16 * (m + n)) : Evened(u)[i] = 0
  BY <1>1, <1>3, EvenedType
<1> HIDE DEF n
<1>6. ASSUME NEW i \in 1..m PROVE Words(u)[i] = Words(s)[i]
  <2>1. i \in 1..WordCount(u) /\ i \in 1..WordCount(s)
    BY <1>2, <1>3
  <2>2. ASSUME NEW j \in 1..16
        PROVE  Evened(u)[16 * (i - 1) + j] = Evened(s)[16 * (i - 1) + j]
    <3>1. /\ 16 * (i - 1) + j \in 1..(16 * m)
          /\ 16 * (i - 1) + j \in 1..(16 * m + Len(t))
      BY <1>1
    <3> QED BY <1>1, <1>4, <1>5, <3>1
  <2> QED BY <1>1, <2>1, <2>2, SameWord
<1>7. ASSUME NEW i \in 1..n PROVE Words(u)[m + i] = Words(t)[i]
  <2>1. m + i \in 1..WordCount(u) /\ i \in 1..WordCount(t)
    BY <1>2, <1>3 DEF n
  <2>2. ASSUME NEW j \in 1..16
        PROVE  Evened(u)[16 * ((m + i) - 1) + j] = Evened(t)[16 * (i - 1) + j]
    <3> DEFINE k == 16 * (i - 1) + j
    <3>1. 16 * ((m + i) - 1) + j = 16 * m + k /\ k \in 1..(16 * n)
      BY <1>2
    <3> HIDE DEF k
    <3>2. CASE k <= Len(t)
      <4>1. k \in 1..Len(t) /\ 16 * m + k \in 1..(16 * m + Len(t))
        BY <1>1, <1>2, <3>1, <3>2
      <4>2. Evened(u)[16 * m + k] = t[k] /\ Evened(t)[k] = t[k]
        BY <1>1, <1>4, <1>5, <4>1
      <4> QED BY <3>1, <4>2 DEF k
    <3>3. CASE ~(k <= Len(t))
      <4>1. /\ k \in (Len(t) + 1)..(16 * n)
            /\ 16 * m + k \in (16 * m + Len(t) + 1)..(16 * (m + n))
        BY <1>1, <1>2, <3>1, <3>3
      <4>2. Evened(u)[16 * m + k] = 0 /\ Evened(t)[k] = 0
        BY <1>4, <1>5, <4>1
      <4> QED BY <3>1, <4>2 DEF k
    <3> QED BY <3>2, <3>3
  <2>3. Words(u)[m + i] = Words(t)[i]
    <3> DEFINE l == m + i
    <3>1. l \in 1..WordCount(u) /\ \A j \in 1..16 :
            Evened(u)[16 * (l - 1) + j] = Evened(t)[16 * (i - 1) + j]
      BY <2>1, <2>2
    <3> HIDE DEF l
    <3>2. Words(u)[l] = Words(t)[i]
      BY <1>1, <2>1, <3>1, SameWord
    <3> QED BY <3>2 DEF l
  <2> QED BY <2>3
<1>8. /\ WordCount(u) = WordCount(s) + WordCount(t)
      /\ \A i \in 1..WordCount(s) : Words(u)[i] = Words(s)[i]
      /\ \A i \in 1..WordCount(t) : Words(u)[WordCount(s) + i] = Words(t)[i]
  BY <1>3, <1>6, <1>7 DEF n
<1>9. WordSum(u) = WordSum(s) + WordSum(t)
  BY <1>1, <1>8, SumsOfWords
<1> QED BY <1>9 DEF u

(* Filling in a word that was zero adds that word.                         *)
LEMMA WordSumFilled ==
  ASSUME NEW s \in Bits, NEW t \in Bits, Len(s) = Len(t),
         NEW k \in Nat, 16 * k + 16 <= Len(s),
         \A i \in 1..16 : s[16 * k + i] = 0,
         \A i \in 1..Len(s) : i <= 16 * k \/ i > 16 * k + 16 => s[i] = t[i]
  PROVE  WordSum(t) = WordSum(s) + Number(Slice(t, 16 * k, 16))
<1> DEFINE n == WordCount(s)
<1>1. /\ Len(s) \in Nat /\ n \in Nat /\ WordCount(t) = n
      /\ Len(s) <= 16 * n
  <2>1. Len(s) \in Nat
    BY DEF Bits
  <2> QED BY <2>1, EvenedType DEF WordCount
<1>2. /\ \A i \in 1..Len(s) : Evened(s)[i] = s[i] /\ Evened(t)[i] = t[i]
      /\ \A i \in (Len(s) + 1)..(16 * n) : Evened(s)[i] = 0 /\ Evened(t)[i] = 0
      /\ Evened(s) \in Bits /\ Len(Evened(s)) = 16 * n
      /\ Evened(t) \in Bits /\ Len(Evened(t)) = 16 * n
  BY <1>1, EvenedType
<1> HIDE DEF n
<1>3. k + 1 \in 1..n /\ (k + 1) - 1 = k /\ 16 * k \in Nat
  BY <1>1
<1>4. ASSUME NEW i \in 1..n, i # k + 1 PROVE Words(s)[i] = Words(t)[i]
  <2>1. i \in 1..WordCount(s) /\ i \in 1..WordCount(t)
    BY <1>1 DEF n
  <2>2. ASSUME NEW j \in 1..16
        PROVE  Evened(s)[16 * (i - 1) + j] = Evened(t)[16 * (i - 1) + j]
    <3> DEFINE x == 16 * (i - 1) + j
    <3>1. x \in 1..(16 * n) /\ (x <= 16 * k \/ x > 16 * k + 16)
      BY <1>1, <1>4
    <3> HIDE DEF x
    <3>2. CASE x <= Len(s)
      <4>1. x \in 1..Len(s)
        BY <1>1, <3>1, <3>2
      <4>2. s[x] = t[x]
        BY <3>1, <4>1
      <4>3. Evened(s)[x] = Evened(t)[x]
        BY <1>2, <4>1, <4>2
      <4> QED BY <4>3 DEF x
    <3>3. CASE ~(x <= Len(s))
      <4>1. x \in (Len(s) + 1)..(16 * n)
        BY <1>1, <3>1, <3>3
      <4>2. Evened(s)[x] = Evened(t)[x]
        BY <1>2, <4>1
      <4> QED BY <4>2 DEF x
    <3> QED BY <3>2, <3>3
  <2> QED BY <2>1, <2>2, SameWord
<1>5. ASSUME NEW i \in 1..16 PROVE 16 * k + i \in 1..Len(s)
  BY <1>1
<1>6. Words(s)[k + 1] = 0
  <2> DEFINE w == Slice(Evened(s), 16 * ((k + 1) - 1), 16)
  <2>1. k + 1 \in 1..WordCount(s)
    BY <1>3 DEF n
  <2>2. /\ w \in Bits /\ Len(w) = 16
        /\ \A j \in 1..16 : w[j] = Evened(s)[16 * ((k + 1) - 1) + j]
        /\ Words(s)[k + 1] = Number(w)
    <3> DEFINE l == k + 1
    <3> HIDE DEF l
    <3>1. l \in 1..WordCount(s)
      BY <2>1 DEF l
    <3> QED BY <3>1, WordType DEF l
  <2> HIDE DEF w
  <2>3. ASSUME NEW i \in 1..16 PROVE w[i] = 0
    <3> DEFINE x == 16 * k + i
    <3>1. w[i] = Evened(s)[x] /\ x \in 1..Len(s)
      BY <1>3, <1>5, <2>2
    <3>2. s[x] = 0
      OBVIOUS
    <3> HIDE DEF x
    <3>3. Evened(s)[x] = s[x]
      BY <1>2, <3>1
    <3> QED BY <3>1, <3>2, <3>3
  <2>4. \A i \in 1..Len(w) : w[i] = 0
    BY <2>2, <2>3
  <2> QED BY <2>2, <2>4, ZeroWord
<1>7. Words(t)[k + 1] = Number(Slice(t, 16 * k, 16))
  <2> DEFINE w == Slice(Evened(t), 16 * ((k + 1) - 1), 16)
             v == Slice(t, 16 * k, 16)
  <2>1. k + 1 \in 1..WordCount(t)
    BY <1>1, <1>3
  <2>2. /\ w \in Bits /\ Len(w) = 16
        /\ \A j \in 1..16 : w[j] = Evened(t)[16 * ((k + 1) - 1) + j]
        /\ Words(t)[k + 1] = Number(w)
    <3> DEFINE l == k + 1
    <3> HIDE DEF l
    <3>1. l \in 1..WordCount(t)
      BY <2>1 DEF l
    <3> QED BY <3>1, WordType DEF l
  <2>3. v \in Bits /\ Len(v) = 16 /\ \A j \in 1..16 : v[j] = t[16 * k + j]
    <3> DEFINE m == 16 * k
    <3> HIDE DEF m
    <3>1. m \in Nat /\ m + 16 <= Len(t) /\ 16 \in Nat
      BY DEF m
    <3>2. /\ Slice(t, m, 16) \in Bits /\ Len(Slice(t, m, 16)) = 16
          /\ \A j \in 1..16 : Slice(t, m, 16)[j] = t[m + j]
      BY <3>1, PartType
    <3> QED BY <3>2 DEF m
  <2> HIDE DEF w, v
  <2>4. \A j \in 1..Len(w) : w[j] = v[j]
    <3> SUFFICES ASSUME NEW j \in 1..16 PROVE w[j] = v[j]
      BY <2>2
    <3>1. 16 * k + j \in 1..Len(s)
      BY <1>5
    <3>2. w[j] = Evened(t)[16 * k + j]
      BY <1>3, <2>2
    <3> QED BY <1>2, <2>3, <3>1, <3>2
  <2>5. w = v
    <3>1. w \in Bits /\ v \in Bits /\ Len(w) = Len(v)
      BY <2>2, <2>3
    <3> QED BY <2>4, <3>1, SameBits
  <2> QED BY <2>2, <2>5 DEF v
<1>8. WordSum(t) = WordSum(s) + Words(t)[k + 1]
  <2> DEFINE l == k + 1
  <2>1. /\ WordCount(t) = WordCount(s) /\ l \in 1..WordCount(s) /\ Words(s)[l] = 0
        /\ \A i \in 1..WordCount(s) : i # l => Words(s)[i] = Words(t)[i]
    BY <1>1, <1>3, <1>4, <1>6 DEF n
  <2> HIDE DEF l
  <2>2. WordSum(t) = WordSum(s) + Words(t)[l]
    BY <2>1, SumsOfOthers
  <2> QED BY <2>2 DEF l
<1> QED BY <1>7, <1>8

-----------------------------------------------------------------------------
(* Ones' complement arithmetic.  (2^16 is written 256 * 256 where the      *)
(* prover has to calculate.)                                               *)
LEMMA FoldOnce ==
  ASSUME NEW n \in Nat
  PROVE  \E q, r \in Nat : /\ n = (256 * 256) * q + r /\ r < 256 * 256
                           /\ Fold16(n) = q + r
<1> DEFINE q == n \div (256 * 256)
           r == n % (256 * 256)
<1>1. q \in Nat /\ r \in Nat /\ n = (256 * 256) * q + r /\ r < 256 * 256
  OBVIOUS
<1>2. 2^16 = 256 * 256
  <2>1. 2^(8 + 8) = 2^8 * 2^8
    BY PowerSum
  <2>2. 2^8 = 256
    OBVIOUS
  <2> QED BY <2>1, <2>2
<1>3. Fold16(n) = r + q
  BY <1>2 DEF Fold16
<1> HIDE DEF q, r
<1>4. Fold16(n) = q + r
  BY <1>1, <1>3
<1> QED BY <1>1, <1>4

LEMMA AllOnesIs == AllOnes = 256 * 256 - 1 /\ 2^16 = 256 * 256
<1>1. 2^(8 + 8) = 2^8 * 2^8
  BY PowerSum
<1>2. 2^8 = 256
  OBVIOUS
<1>3. 2^16 = 256 * 256
  BY <1>1, <1>2
<1> QED BY <1>3 DEF AllOnes

(* Twice folded, a sum is less than 2^16, and the multiple of AllOnes away *)
(* from itself.                                                            *)
LEMMA FoldTwice ==
  ASSUME NEW n \in Nat, n < (256 * 256) * (256 * 256 - 1)
  PROVE  \E k \in Nat : /\ n = (256 * 256 - 1) * k + Fold16(Fold16(n))
                        /\ Fold16(Fold16(n)) \in Nat /\ Fold16(Fold16(n)) < 256 * 256
                        /\ n > 0 => Fold16(Fold16(n)) > 0
<1>1. PICK q \in Nat, r \in Nat :
        n = (256 * 256) * q + r /\ r < 256 * 256 /\ Fold16(n) = q + r
  BY FoldOnce
<1>2. PICK m \in Nat : m = Fold16(n)
  BY <1>1
<1>3. PICK x \in Nat, y \in Nat :
        m = (256 * 256) * x + y /\ y < 256 * 256 /\ Fold16(m) = x + y
  BY FoldOnce
<1>4. m = q + r
  BY <1>1, <1>2
<1>5. q < 256 * 256 - 1
  BY <1>1
<1>6. x = 0 \/ (x = 1 /\ y < 256 * 256 - 1)
  BY <1>1, <1>3, <1>4, <1>5
<1>7. x + y \in Nat /\ x + y < 256 * 256
  BY <1>3, <1>6
<1>8. n = (256 * 256 - 1) * (q + x) + (x + y)
  BY <1>1, <1>3, <1>4
<1>9. n > 0 => x + y > 0
  BY <1>1, <1>3, <1>4
<1>10. Fold16(Fold16(n)) = x + y
  BY <1>2, <1>3
<1> DEFINE z == Fold16(Fold16(n))
<1> HIDE DEF z
<1>11. z = x + y /\ q + x \in Nat
  BY <1>10 DEF z
<1>12. n = (256 * 256 - 1) * (q + x) + z /\ z \in Nat /\ z < 256 * 256 /\ (n > 0 => z > 0)
  BY <1>7, <1>8, <1>9, <1>11
<1>13. \E k \in Nat : n = (256 * 256 - 1) * k + z /\ z \in Nat /\ z < 256 * 256 /\ (n > 0 => z > 0)
  BY <1>11, <1>12
<1> QED BY <1>13 DEF z

(* The complement of a sum completes it to all ones.                       *)
LEMMA SumCompleted ==
  ASSUME NEW n \in Nat, n < (256 * 256) * (256 * 256 - 2), NEW c, NEW d,
         c = AllOnes - Fold16(Fold16(n)), d = IF c = 0 THEN AllOnes ELSE c
  PROVE  d \in Nat /\ d < 2^16 /\ Fold16(Fold16(n + d)) = AllOnes
<1>1. n < (256 * 256) * (256 * 256 - 1)
  OBVIOUS
<1> DEFINE z == Fold16(Fold16(n))
<1>2. PICK k \in Nat : /\ n = (256 * 256 - 1) * k + z
                       /\ z \in Nat /\ z < 256 * 256
  BY <1>1, FoldTwice
<1>z. c = AllOnes - z
  OBVIOUS
<1> HIDE DEF z
<1>3. c = 256 * 256 - 1 - z
  BY <1>z, AllOnesIs
<1>4. d \in Nat /\ d > 0 /\ d < 256 * 256
  BY <1>2, <1>3, AllOnesIs
<1>5. \E l \in Nat : n + d = (256 * 256 - 1) * l
  <2>1. CASE c = 0
    <3>1. n + d = (256 * 256 - 1) * (k + 2)
      BY <1>2, <1>3, <2>1, AllOnesIs
    <3>2. k + 2 \in Nat
      OBVIOUS
    <3> QED BY <3>1, <3>2
  <2>2. CASE c # 0
    <3>1. n + d = (256 * 256 - 1) * (k + 1)
      BY <1>2, <1>3, <2>2
    <3>2. k + 1 \in Nat
      OBVIOUS
    <3> QED BY <3>1, <3>2
  <2> QED BY <2>1, <2>2
<1>6. PICK l \in Nat : n + d = (256 * 256 - 1) * l
  BY <1>5
<1>7. PICK m \in Nat : m = n + d
  BY <1>4
<1>8. m < (256 * 256) * (256 * 256 - 1) /\ m > 0
  BY <1>4, <1>7
<1> DEFINE y == Fold16(Fold16(m))
<1>9. PICK j \in Nat : /\ m = (256 * 256 - 1) * j + y
                       /\ y \in Nat /\ y < 256 * 256 /\ y > 0
  <2>1. \E j \in Nat : /\ m = (256 * 256 - 1) * j + y
                       /\ y \in Nat /\ y < 256 * 256 /\ (m > 0 => y > 0)
    BY <1>8, FoldTwice
  <2> HIDE DEF y
  <2> QED BY <1>8, <2>1
<1> HIDE DEF y
<1>10. y = 256 * 256 - 1
  <2>1. (256 * 256 - 1) * l = (256 * 256 - 1) * j + y
    BY <1>6, <1>7, <1>9
  <2> QED BY <1>9, <2>1
<1>11. Fold16(Fold16(m)) = AllOnes
  BY <1>10, AllOnesIs DEF y
<1> QED BY <1>4, <1>7, <1>11, AllOnesIs

(* What Patch leaves alone, and what it puts in.                           *)
LEMMA PatchType ==
  ASSUME NEW s \in Bits, NEW offset \in Nat, NEW b \in Bits, NEW n \in Nat,
         Len(b) = n, offset + n <= Len(s)
  PROVE  /\ Patch(s, offset, b) \in Bits /\ Len(Patch(s, offset, b)) = Len(s)
         /\ \A i \in 1..Len(s) : i <= offset \/ i > offset + n =>
              Patch(s, offset, b)[i] = s[i]
         /\ \A i \in 1..n : Patch(s, offset, b)[offset + i] = b[i]
<1> DEFINE l == Len(s)
           x == SubSeq(s, 1, offset)
           y == From(s, offset + n)
           p == Patch(s, offset, b)
<1>1. l \in Nat /\ offset <= l /\ offset + n <= l /\ offset + n \in Nat
  <2>1. l \in Nat
    BY DEF Bits
  <2> QED BY <2>1
<1>2. x \in Bits /\ Len(x) = offset /\ \A i \in 1..offset : x[i] = s[i]
  BY <1>1, PrefixType
<1>3. /\ y \in Bits /\ Len(y) = l - (offset + n)
      /\ \A i \in 1..(l - (offset + n)) : y[i] = s[(offset + n) + i]
  BY <1>1, FromType
<1>4. p = (x \o b) \o y
  BY DEF Patch
<1> HIDE DEF l, x, y, p
<1> DEFINE z == x \o b
<1>5. /\ z \in Bits /\ Len(z) = offset + n
      /\ \A i \in 1..offset : z[i] = x[i]
      /\ \A i \in 1..n : z[offset + i] = b[i]
  BY <1>2, ConcatBits
<1>6. p = z \o y
  BY <1>4
<1> HIDE DEF z
<1>7. /\ p \in Bits /\ Len(p) = Len(z) + Len(y)
      /\ \A i \in 1..Len(z) : p[i] = z[i]
      /\ \A i \in 1..Len(y) : p[Len(z) + i] = y[i]
  <2>1. z \in Bits /\ y \in Bits
    BY <1>3, <1>5
  <2> QED BY <1>6, <2>1, ConcatBits
<1>8. Len(p) = l
  BY <1>1, <1>3, <1>5, <1>7
<1>9. ASSUME NEW i \in 1..l, i <= offset \/ i > offset + n PROVE p[i] = s[i]
  <2>1. CASE i <= offset
    <3>1. i \in 1..offset /\ i \in 1..(offset + n)
      BY <1>1, <2>1
    <3>2. p[i] = z[i]
      BY <1>5, <1>7, <3>1
    <3>3. z[i] = x[i] /\ x[i] = s[i]
      BY <1>2, <1>5, <3>1
    <3> QED BY <3>2, <3>3
  <2>2. CASE i > offset + n
    <3> DEFINE k == i - (offset + n)
    <3>1. k \in 1..(l - (offset + n)) /\ (offset + n) + k = i
      BY <1>1, <2>2
    <3> HIDE DEF k
    <3>2. p[(offset + n) + k] = y[k]
      BY <1>3, <1>5, <1>7, <3>1
    <3>3. y[k] = s[(offset + n) + k]
      BY <1>3, <3>1
    <3> QED BY <3>1, <3>2, <3>3
  <2> QED BY <1>9, <2>1, <2>2
<1>10. ASSUME NEW i \in 1..n PROVE p[offset + i] = b[i]
  <2>1. offset + i \in 1..(offset + n)
    OBVIOUS
  <2>2. p[offset + i] = z[offset + i]
    BY <1>5, <1>7, <2>1
  <2> QED BY <1>5, <2>2
<1> QED BY <1>7, <1>8, <1>9, <1>10 DEF l, p

(* The checksum that Summed writes completes the sum of the segment.       *)
LEMMA SummedSum ==
  ASSUME NEW source, WordSum(source) \in Nat, WordSum(source) < 8 * (256 * 256),
         NEW destination, WordSum(destination) \in Nat,
         WordSum(destination) < 8 * (256 * 256),
         NEW proto \in Nat, proto < 256,
         NEW upper \in Bits, Len(upper) >= SumOffset(proto) + 16,
         Len(upper) < 8 * (256 * 256)
  PROVE  LET t == Summed(source, destination, proto, upper)
         IN /\ t \in Bits /\ Len(t) = Len(upper)
            /\ Fold16(Fold16(WordSum(source) + WordSum(destination)
                             + Len(t) \div 8 + proto + WordSum(t))) = AllOnes
<1> DEFINE offset == SumOffset(proto)
           blank == Patch(upper, offset, Zeros(16))
           sum == WordSum(source) + WordSum(destination) + Len(blank) \div 8 + proto
                  + WordSum(blank)
           c == AllOnes - Fold16(Fold16(sum))
           d == IF c = 0 THEN AllOnes ELSE c
           bits == BitsOf(d, 16)
           t == Summed(source, destination, proto, upper)
<1>0. PICK n \in Nat : n = 16
  OBVIOUS
<1>1. \E k \in Nat : offset = 16 * k
  <2>1. offset = 16 * 3 \/ offset = 16 * 1
    BY DEF SumOffset
  <2> QED BY <2>1
<1>2. t = Patch(upper, offset, bits)
  BY DEF Summed, TransportChecksum
<1>3. offset + 16 <= Len(upper) /\ offset \in Nat /\ Len(upper) \in Nat
  <2>1. Len(upper) \in Nat
    BY DEF Bits
  <2>2. offset \in Nat
    BY <1>1
  <2> HIDE DEF offset
  <2>3. Len(upper) >= offset + 16
    BY DEF offset
  <2> QED BY <2>1, <2>2, <2>3
<1> HIDE DEF offset
<1>4. /\ Zeros(16) \in Bits /\ Len(Zeros(16)) = 16
      /\ \A i \in 1..16 : Zeros(16)[i] = 0
  BY <1>0, ZerosType
<1>5. /\ blank \in Bits /\ Len(blank) = Len(upper)
      /\ \A i \in 1..Len(upper) : i <= offset \/ i > offset + n => blank[i] = upper[i]
      /\ \A i \in 1..n : blank[offset + i] = 0
  <2> DEFINE z == Zeros(16)
  <2> HIDE DEF z
  <2>1. z \in Bits /\ Len(z) = n /\ \A i \in 1..n : z[i] = 0
    BY <1>0, <1>4 DEF z
  <2>5. offset + n <= Len(upper)
    BY <1>0, <1>3
  <2>2. blank = Patch(upper, offset, z)
    BY DEF z
  <2> HIDE DEF blank
  <2>3. /\ blank \in Bits /\ Len(blank) = Len(upper)
        /\ \A i \in 1..Len(upper) : i <= offset \/ i > offset + n => blank[i] = upper[i]
        /\ \A i \in 1..n : blank[offset + i] = z[i]
    BY <1>3, <2>1, <2>2, <2>5, PatchType
  <2> QED BY <2>1, <2>3
<1> HIDE DEF blank
<1>6. sum \in Nat /\ sum < (256 * 256) * (256 * 256 - 2)
  <2> DEFINE w == WordCount(blank)
             l == Len(upper)
  <2>1. WordSum(blank) \in Nat /\ WordSum(blank) <= AllOnes * w
    BY <1>5, WordSumBound
  <2>2. w \in Nat /\ 16 * w <= l + 15
    BY <1>5, EvenedType
  <2> HIDE DEF w, l
  <2>3. l \in Nat /\ l < 8 * (256 * 256) /\ Len(blank) = l
    BY <1>3, <1>5 DEF l
  <2>4. w <= 128 * 256
    BY <2>2, <2>3
  <2>5. l \div 8 \in Nat /\ l \div 8 < 256 * 256
    BY <2>3
  <2> DEFINE a == AllOnes
             x == l \div 8
             u == WordSum(source)
             v == WordSum(destination)
             z == WordSum(blank)
  <2>6. a = 256 * 256 - 1
    BY AllOnesIs
  <2>7. /\ u \in Nat /\ u < 8 * (256 * 256) /\ v \in Nat /\ v < 8 * (256 * 256)
        /\ z \in Nat /\ z <= a * w /\ x \in Nat /\ x < 256 * 256
        /\ sum = u + v + x + proto + z
    BY <2>1, <2>3, <2>5
  <2> HIDE DEF a, x, u, v, z, sum
  <2>8. a * w <= (256 * 256 - 1) * (128 * 256)
    BY <2>2, <2>4, <2>6
  <2>9. a * w \in Nat
    BY <2>2, <2>6
  <2> QED BY <2>7, <2>8, <2>9
<1> DEFINE rest == WordSum(source) + WordSum(destination) + Len(upper) \div 8 + proto
<1>7. rest \in Nat /\ WordSum(blank) \in Nat /\ sum = rest + WordSum(blank)
  <2>1. WordSum(blank) \in Nat
    BY <1>5, WordSumBound
  <2>2. Len(upper) \div 8 \in Nat
    <3> DEFINE l == Len(upper)
    <3>1. l \in Nat
      BY <1>3
    <3> HIDE DEF l
    <3>2. l \div 8 \in Nat
      BY <3>1
    <3> QED BY <3>2 DEF l
  <2> DEFINE x == Len(upper) \div 8
             u == WordSum(source)
             v == WordSum(destination)
             z == WordSum(blank)
  <2>3. x \in Nat /\ u \in Nat /\ v \in Nat /\ z \in Nat
    BY <2>1, <2>2
  <2>4. rest = u + v + x + proto /\ sum = u + v + x + proto + z
    BY <1>5
  <2> HIDE DEF x, u, v, z, rest, sum
  <2>5. rest \in Nat /\ sum = rest + z
    BY <2>3, <2>4
  <2> QED BY <2>1, <2>5 DEF z
<1> HIDE DEF sum, rest
<1>8. d \in Nat /\ d < 2^16 /\ Fold16(Fold16(sum + d)) = AllOnes
  <2>1. c = AllOnes - Fold16(Fold16(sum)) /\ d = IF c = 0 THEN AllOnes ELSE c
    OBVIOUS
  <2> HIDE DEF c, d
  <2> QED BY <1>6, <2>1, SumCompleted
<1> HIDE DEF c, d
<1>9. bits \in Bits /\ Len(bits) = 16 /\ Number(bits) = d
  BY <1>0, <1>8, BitsOfType, NumberOfBits
<1> HIDE DEF bits, t
<1>10. /\ t \in Bits /\ Len(t) = Len(upper)
       /\ \A i \in 1..Len(upper) : i <= offset \/ i > offset + n => t[i] = upper[i]
       /\ \A i \in 1..n : t[offset + i] = bits[i]
  <2>1. offset + n <= Len(upper) /\ offset \in Nat /\ bits \in Bits /\ Len(bits) = n
    BY <1>0, <1>3, <1>9
  <2> QED BY <1>2, <2>1, PatchType
<1>11. Slice(t, offset, 16) = bits
  <2> DEFINE p == Slice(t, offset, n)
  <2>1. offset + n <= Len(t) /\ offset \in Nat /\ t \in Bits
    BY <1>0, <1>3, <1>10
  <2>2. p \in Bits /\ Len(p) = n /\ \A i \in 1..n : p[i] = t[offset + i]
    BY <2>1, PartType
  <2> HIDE DEF p
  <2>3. \A i \in 1..Len(p) : p[i] = bits[i]
    BY <1>10, <2>2
  <2>4. bits \in Bits /\ Len(bits) = Len(p)
    BY <1>0, <1>9, <2>2
  <2>5. p = bits
    BY <2>2, <2>3, <2>4, SameBits
  <2> QED BY <1>0, <2>5 DEF p
<1>12. PICK k \in Nat : offset = 16 * k
  BY <1>1
<1>13. WordSum(t) = WordSum(blank) + d
  <2>1. \A i \in 1..16 : blank[16 * k + i] = 0
    BY <1>0, <1>5, <1>12
  <2>2. 16 * k + 16 <= Len(blank) /\ Len(blank) = Len(t)
    BY <1>3, <1>5, <1>10, <1>12
  <2>3. \A i \in 1..Len(blank) : i <= 16 * k \/ i > 16 * k + 16 => blank[i] = t[i]
    BY <1>0, <1>5, <1>10, <1>12
  <2>4. WordSum(t) = WordSum(blank) + Number(Slice(t, 16 * k, 16))
    BY <1>5, <1>10, <2>1, <2>2, <2>3, WordSumFilled
  <2> QED BY <1>9, <1>11, <1>12, <2>4
<1>14. rest + WordSum(t) = sum + d
  BY <1>7, <1>8, <1>13
<1>15. WordSum(source) + WordSum(destination) + Len(t) \div 8 + proto + WordSum(t)
         = rest + WordSum(t)
  BY <1>10 DEF rest
<1> QED BY <1>8, <1>10, <1>14, <1>15 DEF t

-----------------------------------------------------------------------------
(* What Picked and FlattenSeq build.                                       *)

(* Applying N functions on S one after the other, from a on.               *)
Steps(g, N, S) == g \in [1..N -> [S -> S]]
Results(f, g, N, S, a) ==
  f \in [0..N -> S] /\ f[0] = a /\ \A i \in 1..N : f[i] = g[i][f[i - 1]]

LEMMA Iterates ==
  ASSUME NEW S, NEW a \in S, NEW N \in Nat, NEW g, Steps(g, N, S)
  PROVE  \E f : Results(f, g, N, S, a)
<1> DEFINE Solves(f, n) == /\ f \in [0..n -> S] /\ f[0] = a
                           /\ \A i \in 1..n : f[i] = g[i][f[i - 1]]
           T == {n \in Nat : n <= N => \E f : Solves(f, n)}
<1>1. 0 \in T
  <2> DEFINE f == [i \in 0..0 |-> a]
  <2>1. Solves(f, 0)
    OBVIOUS
  <2> HIDE DEF Solves
  <2> QED BY <2>1
<1>2. ASSUME NEW n \in Nat, n \in T PROVE n + 1 \in T
  <2> SUFFICES ASSUME n + 1 <= N PROVE \E f : Solves(f, n + 1)
    OBVIOUS
  <2>1. PICK f : Solves(f, n)
    BY <1>2
  <2>2. n + 1 \in 1..N /\ f[n] \in S
    BY <2>1
  <2>3. g[n + 1][f[n]] \in S
    BY <2>2 DEF Steps
  <2> DEFINE h == [i \in 0..(n + 1) |-> IF i = n + 1 THEN g[n + 1][f[n]] ELSE f[i]]
  <2>4. h \in [0..(n + 1) -> S]
    BY <2>1, <2>3
  <2>5. h[0] = a
    BY <2>1
  <2>6. ASSUME NEW i \in 1..(n + 1) PROVE h[i] = g[i][h[i - 1]]
    <3>1. CASE i = n + 1
      BY <3>1
    <3>2. CASE i # n + 1
      <4>1. i \in 1..n /\ i - 1 \in 0..n
        BY <3>2
      <4>2. h[i] = f[i] /\ h[i - 1] = f[i - 1]
        BY <4>1
      <4> QED BY <4>1, <4>2, <2>1
    <3> QED BY <3>1, <3>2
  <2>7. Solves(h, n + 1)
    <3> HIDE DEF h
    <3> QED BY <2>4, <2>5, <2>6
  <2> HIDE DEF Solves
  <2> QED BY <2>7
<1> HIDE DEF T
<1>3. Nat \subseteq T
  BY <1>1, <1>2, SetInduction
<1>4. \E f : Solves(f, N)
  BY <1>3 DEF T
<1> QED BY <1>4 DEF Results

(* Picked takes items of the sequence, at the places it is told.           *)
LEMMA PickedItems ==
  ASSUME NEW V, NEW s \in Seq(V), NEW places
  PROVE  Picked(s, places) \in Seq({s[i] : i \in {j \in 1..Len(s) : j \in places}})
<1> DEFINE n == Len(s)
           W == {s[i] : i \in {j \in 1..n : j \in places}}
           Q == Seq(W)
           step == [i \in 1..n |-> [x \in Q |-> IF i \in places THEN Append(x, s[i]) ELSE x]]
           Def(p) == p = [i \in 0..n |-> IF i = 0 THEN <<>>
                                         ELSE IF i \in places THEN Append(p[i - 1], s[i])
                                         ELSE p[i - 1]]
           h == CHOOSE p : Def(p)
<1>1. n \in Nat
  OBVIOUS
<1>2. Picked(s, places) = h[n]
  BY DEF Picked
<1>3. ASSUME NEW i \in 1..n, NEW x \in Q, i \in places PROVE Append(x, s[i]) \in Q
  <2>1. s[i] \in W
    BY <1>3
  <2> HIDE DEF W
  <2> QED BY <2>1
<1>4. step \in [1..n -> [Q -> Q]]
  BY <1>3
<1>5. PICK e \in Q : e = <<>>
  <2>1. <<>> \in Q
    OBVIOUS
  <2> HIDE DEF Q
  <2> QED BY <2>1
<1> HIDE DEF n, W, Q
<1>6. \E f : Def(f)
  <2> DEFINE st == step
  <2>1. Steps(st, n, Q)
    BY <1>4 DEF Steps
  <2> HIDE DEF st
  <2>0. PICK f : Results(f, st, n, Q, e)
    BY <1>1, <2>1, Iterates
  <2>2. f \in [0..n -> Q] /\ f[0] = e /\ \A i \in 1..n : f[i] = st[i][f[i - 1]]
    BY <2>0 DEF Results
  <2>3. ASSUME NEW i \in 1..n
        PROVE  f[i] = IF i \in places THEN Append(f[i - 1], s[i]) ELSE f[i - 1]
    <3>1. f[i - 1] \in Q
      BY <1>1, <2>2
    <3>2. f[i] = st[i][f[i - 1]]
      BY <2>2
    <3> QED BY <3>1, <3>2 DEF st
  <2>4. ASSUME NEW i \in 0..n
        PROVE  f[i] = IF i = 0 THEN <<>>
                      ELSE IF i \in places THEN Append(f[i - 1], s[i])
                      ELSE f[i - 1]
    <3>1. CASE i = 0
      BY <1>5, <2>2, <3>1
    <3>2. CASE i # 0
      <4>1. i \in 1..n
        BY <1>1, <3>2
      <4> QED BY <2>3, <3>2, <4>1
    <3> QED BY <3>1, <3>2
  <2>5. f = [i \in 0..n |-> f[i]]
    BY <2>2
  <2>6. Def(f)
    BY <2>4, <2>5
  <2> HIDE DEF Def
  <2> QED BY <2>6
<1>7. Def(h)
  BY <1>6
<1>8. /\ h[0] = <<>>
      /\ \A i \in 1..n : h[i] = IF i \in places THEN Append(h[i - 1], s[i]) ELSE h[i - 1]
  <2> HIDE DEF h
  <2>1. ASSUME NEW i \in 0..n
        PROVE  h[i] = IF i = 0 THEN <<>>
                      ELSE IF i \in places THEN Append(h[i - 1], s[i])
                      ELSE h[i - 1]
    BY <1>7
  <2> HIDE DEF Def
  <2>2. 0 \in 0..n /\ \A i \in 1..n : i \in 0..n /\ i # 0
    BY <1>1
  <2> QED BY <2>1, <2>2
<1> HIDE DEF h, Def, step
<1> DEFINE S == {i \in Nat : i <= n => h[i] \in Q}
<1>9. 0 \in S
  BY <1>5, <1>8
<1>10. ASSUME NEW i \in Nat, i \in S PROVE i + 1 \in S
  <2> SUFFICES ASSUME i + 1 <= n PROVE h[i + 1] \in Q
    OBVIOUS
  <2>1. i + 1 \in 1..n /\ (i + 1) - 1 = i /\ i <= n
    BY <1>1
  <2>2. h[i] \in Q
    BY <1>10, <2>1
  <2>3. h[i + 1] = IF i + 1 \in places THEN Append(h[i], s[i + 1]) ELSE h[i]
    BY <1>8, <2>1
  <2> QED BY <1>3, <2>1, <2>2, <2>3
<1> HIDE DEF S
<1>11. Nat \subseteq S
  BY <1>9, <1>10, SetInduction
<1>12. h[n] \in Q
  BY <1>1, <1>11 DEF S
<1> QED BY <1>2, <1>12 DEF Q, W, n

(* FlattenSeq of bit strings is a bit string.                              *)
LEMMA FlattenedBits ==
  ASSUME NEW s \in Seq(Bits)
  PROVE  FlattenSeq(s) \in Bits
<1> DEFINE n == Len(s)
           step == [i \in 1..n |-> [x \in Bits |-> IF i = 1 THEN s[i] ELSE x \o s[i]]]
           Def(p) == p = [i \in 1..n |-> IF i = 1 THEN s[i] ELSE p[i - 1] \o s[i]]
           h == CHOOSE p : Def(p)
<1>1. n \in Nat /\ \A i \in 1..n : s[i] \in Bits
  OBVIOUS
<1>2. FlattenSeq(s) = IF n = 0 THEN s ELSE h[n]
  BY DEF FlattenSeq
<1>3. n = 0 => s = <<>> /\ <<>> \in Bits
  BY DEF Bits
<1>4. PICK none \in Bits : none = <<>>
  <2>1. <<>> \in Bits
    BY DEF Bits
  <2> QED BY <2>1
<1>5. ASSUME NEW i \in 1..n, NEW x \in Bits PROVE x \o s[i] \in Bits
  <2>1. s[i] \in Bits
    BY <1>1
  <2> QED BY <2>1, ConcatBits
<1>6. step \in [1..n -> [Bits -> Bits]]
  BY <1>1, <1>5
<1> HIDE DEF n
<1>7. \E f : Def(f)
  <2> DEFINE st == step
  <2>1. Steps(st, n, Bits)
    BY <1>6 DEF Steps
  <2> HIDE DEF st
  <2>0. PICK f : Results(f, st, n, Bits, none)
    BY <1>1, <2>1, Iterates
  <2>2. f \in [0..n -> Bits] /\ f[0] = none /\ \A i \in 1..n : f[i] = st[i][f[i - 1]]
    BY <2>0 DEF Results
  <2>3. ASSUME NEW i \in 1..n PROVE f[i] = IF i = 1 THEN s[i] ELSE f[i - 1] \o s[i]
    <3>1. f[i - 1] \in Bits
      BY <1>1, <2>2
    <3>2. f[i] = st[i][f[i - 1]]
      BY <2>2
    <3> QED BY <3>1, <3>2 DEF st
  <2> DEFINE e == [i \in 1..n |-> f[i]]
  <2>4. \A i \in 1..n : e[i] = f[i] /\ (i # 1 => e[i - 1] = f[i - 1])
    BY <1>1
  <2>5. e = [i \in 1..n |-> e[i]]
    OBVIOUS
  <2> HIDE DEF e
  <2>6. \A i \in 1..n : e[i] = IF i = 1 THEN s[i] ELSE e[i - 1] \o s[i]
    BY <2>3, <2>4
  <2>7. Def(e)
    BY <2>5, <2>6
  <2> HIDE DEF Def
  <2> QED BY <2>7
<1>8. Def(h)
  BY <1>7
<1>9. \A i \in 1..n : h[i] = IF i = 1 THEN s[i] ELSE h[i - 1] \o s[i]
  <2> HIDE DEF h
  <2> QED BY <1>8
<1> HIDE DEF h, Def, step
<1> DEFINE S == {i \in Nat : 1 <= i /\ i <= n => h[i] \in Bits}
<1>10. 0 \in S
  OBVIOUS
<1>11. ASSUME NEW i \in Nat, i \in S PROVE i + 1 \in S
  <2> SUFFICES ASSUME i + 1 <= n PROVE h[i + 1] \in Bits
    OBVIOUS
  <2>1. i + 1 \in 1..n /\ (i + 1) - 1 = i /\ i <= n
    BY <1>1
  <2>2. CASE i = 0
    BY <1>1, <1>9, <2>1, <2>2
  <2>3. CASE i # 0
    <3>1. h[i] \in Bits
      BY <1>11, <2>1, <2>3
    <3>2. i + 1 # 1
      BY <2>3
    <3>3. h[i + 1] = h[i] \o s[i + 1]
      BY <1>9, <2>1, <3>2
    <3> QED BY <1>5, <2>1, <3>1, <3>3
  <2> QED BY <2>2, <2>3
<1> HIDE DEF S
<1>12. Nat \subseteq S
  BY <1>10, <1>11, SetInduction
<1>13. n # 0 => h[n] \in Bits
  BY <1>1, <1>12 DEF S
<1> QED BY <1>2, <1>3, <1>13

(* What a field store may keep: the provers do not know that a given name  *)
(* is one of STRING, so the payload an error carries is named here.        *)
KeptFields == [field: STRING \cup {Payload}, number: Nat, index: Nat,
               scope: {"outer", "embedded"}, value: Bits]

LEMMA StoredKept == \A s \in Seq(StoredFields) : s \in Seq(KeptFields)
<1>1. StoredFields \subseteq KeptFields
  BY DEF StoredFields, KeptFields
<1> QED BY <1>1

(* The part of a store in one scope, and its fields.                       *)
LEMMA PartOfStore ==
  ASSUME NEW store \in Seq(KeptFields), NEW scope
  PROVE  /\ In(store, scope) \in Seq(KeptFields)
         /\ \A f : Has(In(store, scope), f) =>
              \E i \in 1..Len(store) : store[i].field = f /\ store[i].scope = scope
<1> DEFINE T == {i \in 1..Len(store) : store[i].scope = scope}
           W == {store[i] : i \in {j \in 1..Len(store) : j \in T}}
           p == In(store, scope)
<1>1. p \in Seq(W)
  <2> HIDE DEF T
  <2>1. Picked(store, T) \in Seq(W)
    BY PickedItems
  <2> QED BY <2>1 DEF In, T
<1>2. W \subseteq KeptFields
  OBVIOUS
<1>3. p \in Seq(KeptFields)
  <2> HIDE DEF W, p
  <2> QED BY <1>1, <1>2
<1>4. ASSUME NEW f, Has(p, f)
      PROVE  \E i \in 1..Len(store) : store[i].field = f /\ store[i].scope = scope
  <2>1. PICK k \in 1..Len(p) : p[k].field = f
    BY <1>4 DEF Has, Positions
  <2>2. p[k] \in W
    <3> HIDE DEF p, W
    <3> QED BY <1>1, <2>1
  <2> QED BY <2>1, <2>2
<1> QED BY <1>3, <1>4

(* The first value of a field that is there.                               *)
LEMMA FirstType ==
  ASSUME NEW store \in Seq(KeptFields), NEW f, Has(store, f)
  PROVE  First(store, f) \in Bits
<1> DEFINE P == Positions(store, f)
           m == Min(P)
<1>1. P \subseteq 1..Len(store) /\ P # {}
  BY DEF Positions, Has
<1>2. P \subseteq Nat
  BY <1>1
<1>3. m \in 1..Len(store)
  <2> HIDE DEF P
  <2> QED BY <1>1, <1>2, FirstPosition
<1> HIDE DEF m
<1>4. store[m] \in KeptFields
  BY <1>3, ElementOfSeq
<1>5. store[m].value \in Bits
  BY <1>4 DEF KeptFields
<1> QED BY <1>5 DEF First, m

-----------------------------------------------------------------------------
(* What the parts of a packet are made of.                                 *)

LEMMA LenNat == \A s \in Bits : Len(s) \in Nat /\ Len(s) \div 8 \in Nat
<1> TAKE s \in Bits
<1>1. Len(s) \in Nat
  BY DEF Bits
<1> DEFINE l == Len(s)
<1> HIDE DEF l
<1>2. l \in Nat
  BY <1>1 DEF l
<1>3. l \div 8 \in Nat
  BY <1>2
<1> QED BY <1>2, <1>3 DEF l

LEMMA NothingBits == <<>> \in Bits
BY DEF Bits

LEMMA Joined == \A a, b \in Bits : a \o b \in Bits /\ Len(a \o b) = Len(a) + Len(b)
BY ConcatBits

LEMMA JoinedTwice == \A a, b, c \in Bits : (a \o b) \o c = a \o (b \o c)
BY DEF Bits

(* A field read as a number has the width it is read with.                 *)
LEMMA UintType ==
  ASSUME NEW store \in Seq(KeptFields), NEW f, Has(store, f), NEW n \in Nat
  PROVE  Wide(Uint(store, f, n), n)
<1> DEFINE v == First(store, f)
           l == Len(v)
<1>1. v \in Bits
  BY FirstType
<1>2. Uint(store, f, n) = IF l >= n THEN From(v, l - n) ELSE Zeros(n - l) \o v
  BY DEF Uint, AsUint
<1> HIDE DEF v
<1>3. l \in Nat
  BY <1>1, LenNat
<1>4. CASE l >= n
  <2>1. l - n \in Nat /\ l - n <= Len(v)
    BY <1>3, <1>4
  <2> DEFINE m == l - n
  <2>2. m \in Nat /\ m <= Len(v)
    BY <2>1
  <2>3. Len(v) - m = n
    BY <1>3
  <2> HIDE DEF m
  <2>4. From(v, m) \in Bits /\ Len(From(v, m)) = n
    BY <1>1, <2>2, <2>3, FromType
  <2> QED BY <1>2, <1>4, <2>4 DEF m, Wide
<1>5. CASE ~(l >= n)
  <2> DEFINE m == n - l
  <2>1. m \in Nat /\ m + Len(v) = n
    BY <1>3, <1>5
  <2> HIDE DEF m
  <2>2. Zeros(m) \in Bits /\ Len(Zeros(m)) = m
    BY <2>1, ZerosType
  <2>3. Zeros(m) \o v \in Bits /\ Len(Zeros(m) \o v) = m + Len(v)
    BY <1>1, <2>2, Joined
  <2> QED BY <1>2, <1>5, <2>1, <2>3 DEF m, Wide
<1> QED BY <1>4, <1>5

LEMMA AsBytesType == \A v \in Bits : AsBytes(v) \in Bits
<1> TAKE v \in Bits
<1> DEFINE m == 8 * Bytes(Len(v)) - Len(v)
<1>1. Len(v) \in Nat /\ 8 * Bytes(Len(v)) \in Nat /\ Len(v) <= 8 * Bytes(Len(v))
  BY LenNat, BytesType
<1>2. m \in Nat
  BY <1>1
<1>3. AsBytes(v) = v \o Zeros(m)
  BY DEF AsBytes
<1> HIDE DEF m
<1> QED BY <1>2, <1>3, ZerosType, Joined

(* The payload of a layer, computed or stored, is a bit string.            *)
LEMMA SharedType ==
  ASSUME NEW store \in Seq(KeptFields), NEW own
  PROVE  SharedPayload(store, own) \in Bits
<1>1. CASE Has(store, own)
  <2>1. SharedPayload(store, own) = AsBytes(First(store, own))
    BY <1>1 DEF SharedPayload
  <2> QED BY <1>1, <2>1, FirstType, AsBytesType
<1>2. CASE ~Has(store, own) /\ Has(store, Payload)
  <2>1. SharedPayload(store, own) = AsBytes(First(store, Payload))
    BY <1>2 DEF SharedPayload
  <2> QED BY <1>2, <2>1, FirstType, AsBytesType
<1>3. CASE ~Has(store, own) /\ ~Has(store, Payload)
  <2>1. SharedPayload(store, own) = <<>>
    BY <1>3 DEF SharedPayload
  <2> QED BY <2>1, NothingBits
<1> QED BY <1>1, <1>2, <1>3

(* A given or computed field of 16 bits.                                   *)
LEMMA Given16Type ==
  ASSUME NEW store \in Seq(KeptFields), NEW f, NEW computed, Wide(computed, 16)
  PROVE  Wide(Given16(store, f, computed), 16)
<1>1. 16 \in Nat
  OBVIOUS
<1>2. Has(store, f) => Wide(Uint(store, f, 16), 16)
  BY <1>1, UintType
<1> QED BY <1>2 DEF Given16

(* Concatenation, of strings of known length.                              *)
LEMMA WideJoin ==
  ASSUME NEW a, NEW b, NEW m \in Nat, NEW n \in Nat, Wide(a, m), Wide(b, n)
  PROVE  Wide(a \o b, m + n)
BY TwoParts

LEMMA WideBits == \A a, n : Wide(a, n) <=> a \in Bits /\ Len(a) = n
BY DEF Wide

(* CoAP options: their extensions, their bits, and all of them.            *)
LEMMA ExtensionType == \A n \in Nat : Extension(n) \in Bits /\ Nibble(n) \in Nat
<1> TAKE n \in Nat
<1>1. Nibble(n) \in Nat
  BY DEF Nibble
<1>2. CASE n <= 12
  <2>1. Extension(n) = <<>>
    BY <1>2 DEF Extension, Nibble
  <2> QED BY <1>1, <2>1, NothingBits
<1>3. CASE n > 12 /\ n <= 268
  <2>1. Nibble(n) = 13
    BY <1>3 DEF Nibble
  <2>2. Extension(n) = BitsOf(n - 13, 8)
    BY <2>1 DEF Extension
  <2>3. n - 13 \in Nat /\ 8 \in Nat
    BY <1>3
  <2> DEFINE k == n - 13
  <2> HIDE DEF k
  <2>4. BitsOf(k, 8) \in Bits
    BY <2>3, BitsOfLen DEF k
  <2> QED BY <1>1, <2>2, <2>4 DEF k
<1>4. CASE n > 268
  <2>1. Nibble(n) = 14
    BY <1>4 DEF Nibble
  <2>2. Extension(n) = BitsOf(n - 269, 16)
    BY <2>1 DEF Extension
  <2>3. n - 269 \in Nat /\ 16 \in Nat
    BY <1>4
  <2> DEFINE k == n - 269
  <2> HIDE DEF k
  <2>4. BitsOf(k, 16) \in Bits
    BY <2>3, BitsOfLen DEF k
  <2> QED BY <1>1, <2>2, <2>4 DEF k
<1> QED BY <1>2, <1>3, <1>4

LEMMA OptionType ==
  ASSUME NEW delta \in Nat, NEW value \in Bits
  PROVE  OptionBits(delta, value) \in Bits
<1> DEFINE size == Len(value) \div 8
           a == BitsOf(Nibble(delta), 4)
           b == BitsOf(Nibble(size), 4)
           c == Extension(delta)
           d == Extension(size)
<1>1. size \in Nat
  BY LenNat
<1>2. OptionBits(delta, value) = a \o b \o c \o d \o value
  BY DEF OptionBits
<1> HIDE DEF size
<1>3. a \in Bits /\ b \in Bits /\ c \in Bits /\ d \in Bits
  <2>1. Nibble(delta) \in Nat /\ Nibble(size) \in Nat /\ 4 \in Nat
    BY <1>1, ExtensionType
  <2> QED BY <1>1, <2>1, ExtensionType, BitsOfLen
<1> HIDE DEF a, b, c, d
<1> QED BY <1>2, <1>3, Joined

LEMMA OptionsType ==
  ASSUME NEW store \in Seq(KeptFields)
  PROVE  LET o == StoredOptions(store)
         IN /\ Len(o) \in Nat
            /\ \A k \in 1..Len(o) : o[k].number \in Nat /\ o[k].value \in Bits
<1> DEFINE W == {store[i] : i \in {j \in 1..Len(store) : j \in Positions(store, Option)}}
           p == Picked(store, Positions(store, Option))
           o == StoredOptions(store)
<1>1. p \in Seq(W)
  BY PickedItems
<1>2. W \subseteq KeptFields
  OBVIOUS
<1>3. o = [k \in 1..Len(p) |-> [number |-> p[k].number, value |-> AsBytes(p[k].value)]]
  BY DEF StoredOptions
<1> HIDE DEF W, p, o
<1>4. Len(p) \in Nat /\ \A k \in 1..Len(p) : p[k] \in KeptFields
  BY <1>1, <1>2
<1>5. Len(o) = Len(p)
  BY <1>3, <1>4
<1>6. ASSUME NEW k \in 1..Len(o) PROVE o[k].number \in Nat /\ o[k].value \in Bits
  <2>1. p[k] \in KeptFields
    BY <1>4, <1>5
  <2>2. p[k].number \in Nat /\ p[k].value \in Bits
    BY <2>1 DEF KeptFields
  <2>3. o[k].number = p[k].number /\ o[k].value = AsBytes(p[k].value)
    BY <1>3, <1>5
  <2> QED BY <2>2, <2>3, AsBytesType
<1> QED BY <1>4, <1>5, <1>6 DEF o

LEMMA OptionsBitsType ==
  ASSUME NEW o, Len(o) \in Nat, OptionsInOrder(o),
         \A k \in 1..Len(o) : o[k].number \in Nat /\ o[k].value \in Bits
  PROVE  OptionsBits(o) \in Bits
<1> DEFINE n == Len(o)
           e(k) == OptionBits(Delta(o, k), o[k].value)
           s == [k \in 1..n |-> e(k)]
<1>1. ASSUME NEW k \in 1..n PROVE e(k) \in Bits
  <2>1. Delta(o, k) >= 0
    BY DEF OptionsInOrder
  <2>2. Delta(o, k) \in Int
    <3>1. CASE k = 1
      BY <3>1 DEF Delta
    <3>2. CASE k # 1
      <4>1. k - 1 \in 1..n
        BY <3>2
      <4> QED BY <3>2, <4>1 DEF Delta
    <3> QED BY <3>1, <3>2
  <2>3. Delta(o, k) \in Nat
    BY <2>1, <2>2
  <2> QED BY <2>3, OptionType
<1>2. OptionsBits(o) = FlattenSeq(s)
  BY DEF OptionsBits
<1> HIDE DEF n, e
<1>3. s \in Seq(Bits)
  <2>1. n \in Nat
    BY DEF n
  <2> QED BY <1>1, <2>1
<1> HIDE DEF s
<1> QED BY <1>2, <1>3, FlattenedBits

(* The CoAP message and the UDP datagram of a store.                       *)
LEMMA CoapType ==
  ASSUME NEW store \in Seq(KeptFields), CoapComplete(store),
         OptionsInOrder(StoredOptions(store))
  PROVE  CoapOf(store) \in Bits
<1> DEFINE o == StoredOptions(store)
           t == IF Has(store, "coap-token") THEN First(store, "coap-token") ELSE <<>>
           p == SharedPayload(store, "coap-payload")
           a == Uint(store, "coap-version", 2)
           b == Uint(store, "coap-type", 2)
           c == Uint(store, "coap-code", 8)
           d == Uint(store, "coap-mid", 16)
           z == BitsOf(Len(t) \div 8, 4)
           q == IF p = <<>> THEN <<>> ELSE PayloadMarker \o p
<1>1. /\ Has(store, "coap-version") /\ Has(store, "coap-type")
      /\ Has(store, "coap-code") /\ Has(store, "coap-mid")
  BY DEF CoapComplete, HasUint
<1>2. a \in Bits /\ b \in Bits /\ c \in Bits /\ d \in Bits
  <2>1. 2 \in Nat /\ 8 \in Nat /\ 16 \in Nat
    OBVIOUS
  <2>2. Wide(a, 2) /\ Wide(b, 2)
    BY <1>1, <2>1, UintType
  <2>3. Wide(c, 8) /\ Wide(d, 16)
    BY <1>1, <2>1, UintType
  <2> HIDE DEF a, b, c, d
  <2> QED BY <2>2, <2>3, WideBits
<1>3. t \in Bits
  BY FirstType, NothingBits
<1>4. p \in Bits
  BY SharedType
<1>5. OptionsBits(o) \in Bits
  BY OptionsType, OptionsBitsType
<1> DEFINE y == OptionsBits(o)
<1>6. CoapOf(store) = (a \o b \o z \o c \o d \o t) \o y \o q
  BY DEF CoapOf, CoapBits, HeadBits
<1> HIDE DEF t, p, a, b, c, d, y, o
<1>7. z \in Bits
  <2>1. Len(t) \div 8 \in Nat /\ 4 \in Nat
    BY <1>3, LenNat
  <2> QED BY <2>1, BitsOfLen
<1>8. q \in Bits
  <2>1. 255 \in Nat /\ 8 \in Nat
    OBVIOUS
  <2>2. PayloadMarker \in Bits
    BY <2>1, BitsOfLen DEF PayloadMarker
  <2> QED BY <1>4, <2>2, NothingBits, Joined
<1>9. y \in Bits
  BY <1>5 DEF y
<1> HIDE DEF z, q
<1> DEFINE h == a \o b \o z \o c \o d \o t
<1>10. h \in Bits
  BY <1>2, <1>3, <1>7, Joined
<1>11. CoapOf(store) = h \o y \o q
  BY <1>6
<1> HIDE DEF h
<1> QED BY <1>8, <1>9, <1>10, <1>11, Joined

LEMMA UdpType ==
  ASSUME NEW store \in Seq(KeptFields), UdpComplete(store), NEW dir
  PROVE  UdpBits(dir, store) \in Bits /\ Len(UdpBits(dir, store)) >= 64
<1> DEFINE p == IF HasCoap(store) THEN CoapOf(store) ELSE SharedPayload(store, "udp-payload")
           device == Uint(store, "udp-dev-port", 16)
           app == Uint(store, "udp-app-port", 16)
           a == IF dir = "up" THEN device \o app ELSE app \o device
           b == Given16(store, "udp-length", BitsOf(8 + Len(p) \div 8, 16))
           c == Given16(store, "udp-checksum", Zeros(16))
<1>0. 16 \in Nat /\ 32 \in Nat
  OBVIOUS
<1>1. UdpBits(dir, store) = a \o b \o c \o p
  BY DEF UdpBits
<1>2. Has(store, "udp-dev-port") /\ Has(store, "udp-app-port")
  BY DEF UdpComplete, HasUint
<1>3. p \in Bits
  <2>1. HasCoap(store) => CoapOf(store) \in Bits
    BY CoapType DEF UdpComplete
  <2>2. SharedPayload(store, "udp-payload") \in Bits
    BY SharedType
  <2> QED BY <2>1, <2>2
<1> HIDE DEF p
<1>4. Wide(device, 16) /\ Wide(app, 16)
  BY <1>0, <1>2, UintType
<1> HIDE DEF device, app
<1>5. Wide(a, 32)
  <2>1. Wide(device \o app, 16 + 16) /\ Wide(app \o device, 16 + 16)
    BY <1>0, <1>4, WideJoin
  <2>2. 16 + 16 = 32
    OBVIOUS
  <2> QED BY <2>1, <2>2
<1>6. Wide(b, 16)
  <2>1. 8 + Len(p) \div 8 \in Nat
    BY <1>3, LenNat
  <2> DEFINE k == 8 + Len(p) \div 8
  <2> HIDE DEF k
  <2>2. Wide(BitsOf(k, 16), 16)
    BY <1>0, <2>1, BitsOfWide DEF k
  <2>3. Wide(Given16(store, "udp-length", BitsOf(k, 16)), 16)
    BY <2>2, Given16Type
  <2> QED BY <2>3 DEF k
<1>7. Wide(c, 16)
  <2>1. Zeros(16) \in Bits /\ Len(Zeros(16)) = 16
    BY <1>0, ZerosType
  <2>2. Wide(Zeros(16), 16)
    BY <2>1, WideBits
  <2> QED BY <2>2, Given16Type
<1> HIDE DEF a, b, c
<1> DEFINE u == UdpBits(dir, store)
<1>8. u = a \o b \o c \o p
  BY <1>1
<1> HIDE DEF u
<1>9. /\ a \in Bits /\ b \in Bits /\ c \in Bits
      /\ Len(a) = 32 /\ Len(b) = 16 /\ Len(c) = 16 /\ Len(p) \in Nat
  BY <1>3, <1>5, <1>6, <1>7, WideBits, LenNat
<1>10. u \in Bits /\ Len(u) = 64 + Len(p)
  <2>1. Wide(a \o b, 32 + 16) /\ 32 + 16 \in Nat
    BY <1>0, <1>5, <1>6, WideJoin
  <2> DEFINE x == a \o b
  <2> HIDE DEF x
  <2>2. Wide(x \o c, (32 + 16) + 16)
    BY <1>0, <1>7, <2>1, WideJoin DEF x
  <2> DEFINE y == x \o c
  <2> HIDE DEF y
  <2>3. y \in Bits /\ Len(y) = 64
    <3>1. y \in Bits /\ Len(y) = (32 + 16) + 16
      BY <2>2, WideBits DEF y
    <3> QED BY <3>1
  <2>4. y \o p \in Bits /\ Len(y \o p) = Len(y) + Len(p)
    BY <1>3, <2>3, Joined
  <2>5. u = y \o p
    BY <1>8 DEF x, y
  <2> QED BY <2>3, <2>4, <2>5
<1>11. u \in Bits /\ Len(u) >= 64
  BY <1>9, <1>10
<1> QED BY <1>11 DEF u

-----------------------------------------------------------------------------
(* Where the parts of a packet stand.                                      *)

(* A slice depends on its bits only.                                       *)
LEMMA SliceSame ==
  ASSUME NEW s \in Bits, NEW t \in Bits, NEW m \in Nat, NEW n \in Nat,
         m + n <= Len(s), m + n <= Len(t), \A i \in 1..n : s[m + i] = t[m + i]
  PROVE  Slice(s, m, n) = Slice(t, m, n)
<1> DEFINE v == Slice(s, m, n)
           w == Slice(t, m, n)
<1>1. /\ v \in Bits /\ Len(v) = n /\ \A i \in 1..n : v[i] = s[m + i]
      /\ w \in Bits /\ Len(w) = n /\ \A i \in 1..n : w[i] = t[m + i]
  BY PartType
<1> HIDE DEF v, w
<1>2. \A i \in 1..Len(v) : v[i] = w[i]
  BY <1>1
<1>3. v = w
  BY <1>1, <1>2, SameBits
<1> QED BY <1>3 DEF v, w

(* Slices of the two parts of a concatenation.                             *)
LEMMA SliceLeft ==
  ASSUME NEW a \in Bits, NEW b \in Bits, NEW m \in Nat, NEW n \in Nat, m + n <= Len(a)
  PROVE  Slice(a \o b, m, n) = Slice(a, m, n)
<1> DEFINE c == a \o b
<1>1. /\ c \in Bits /\ Len(c) = Len(a) + Len(b)
      /\ \A i \in 1..Len(a) : c[i] = a[i]
  BY ConcatBits
<1> HIDE DEF c
<1>2. Len(a) \in Nat /\ Len(b) \in Nat
  BY LenNat
<1>3. m + n <= Len(c)
  BY <1>1, <1>2
<1>4. ASSUME NEW i \in 1..n PROVE c[m + i] = a[m + i]
  <2>1. m + i \in 1..Len(a)
    BY <1>2
  <2> QED BY <1>1, <2>1
<1>5. Slice(c, m, n) = Slice(a, m, n)
  BY <1>1, <1>3, <1>4, SliceSame
<1> QED BY <1>5 DEF c

LEMMA SliceRight ==
  ASSUME NEW a \in Bits, NEW b \in Bits
  PROVE  /\ Slice(a \o b, Len(a), Len(b)) = b
         /\ From(a \o b, Len(a)) = b
<1> DEFINE c == a \o b
           m == Len(a)
           n == Len(b)
           p == Slice(c, m, n)
<1>1. /\ c \in Bits /\ Len(c) = m + n
      /\ \A i \in 1..n : c[m + i] = b[i]
  BY ConcatBits
<1>2. m \in Nat /\ n \in Nat
  BY LenNat
<1>3. From(c, m) = p
  <2>1. Len(c) = m + n
    BY <1>1
  <2> HIDE DEF c, m, n
  <2> QED BY <2>1 DEF From, Slice
<1> HIDE DEF c, m
<1>4. p \in Bits /\ Len(p) = n /\ \A i \in 1..n : p[i] = c[m + i]
  <2>1. m + n <= Len(c)
    BY <1>1, <1>2
  <2> HIDE DEF n
  <2> QED BY <1>1, <1>2, <2>1, PartType
<1> HIDE DEF p
<1>5. \A i \in 1..Len(p) : p[i] = b[i]
  BY <1>1, <1>4
<1>6. p = b
  <2>1. Len(p) = Len(b)
    BY <1>4
  <2> QED BY <1>4, <1>5, <2>1, SameBits
<1> QED BY <1>3, <1>6 DEF p, m, n, c

(* The next header of a store fits in eight bits.                          *)
LEMMA NextBelow ==
  ASSUME NEW store \in Seq(KeptFields), Ipv6Complete(store)
  PROVE  StoredNext(store) \in Nat /\ StoredNext(store) < 2^8
<1> DEFINE v == Uint(store, "ipv6-nextheader", 8)
<1>1. Has(store, "ipv6-nextheader")
  BY DEF Ipv6Complete, HasUint
<1>2. 8 \in Nat
  OBVIOUS
<1>3. Wide(v, 8)
  BY <1>1, <1>2, UintType
<1> HIDE DEF v
<1>4. v \in Bits /\ Len(v) = 8
  BY <1>3, WideBits
<1>5. Number(v) \in Nat /\ Number(v) < 2^Len(v)
  BY <1>4, NumberBelow
<1>6. StoredNext(store) = Number(v)
  BY DEF StoredNext, v
<1> QED BY <1>4, <1>5, <1>6

(* Both addresses have 128 bits.                                           *)
LEMMA AddressType ==
  ASSUME NEW store \in Seq(KeptFields), Ipv6Complete(store), NEW role
  PROVE  Wide(Address(store, role), 128)
<1> DEFINE a == First(store, "ipv6-devprefix")
           b == First(store, "ipv6-deviid")
           c == First(store, "ipv6-appprefix")
           d == First(store, "ipv6-appiid")
<1>1. /\ HasHalf(store, "ipv6-devprefix") /\ HasHalf(store, "ipv6-deviid")
      /\ HasHalf(store, "ipv6-appprefix") /\ HasHalf(store, "ipv6-appiid")
  BY DEF Ipv6Complete
<1>2. Wide(a, 64) /\ Wide(b, 64) /\ Wide(c, 64) /\ Wide(d, 64)
  <2>1. a \in Bits /\ b \in Bits /\ c \in Bits /\ d \in Bits
    BY <1>1, FirstType DEF HasHalf
  <2>2. Len(a) = 64 /\ Len(b) = 64 /\ Len(c) = 64 /\ Len(d) = 64
    BY <1>1 DEF HasHalf
  <2> HIDE DEF a, b, c, d
  <2> QED BY <2>1, <2>2, WideBits
<1>3. Address(store, role) = IF role = "device" THEN a \o b ELSE c \o d
  BY DEF Address
<1> HIDE DEF a, b, c, d
<1>4. 64 \in Nat /\ 64 + 64 = 128
  OBVIOUS
<1>5. Wide(a \o b, 64 + 64) /\ Wide(c \o d, 64 + 64)
  BY <1>2, <1>4, WideJoin
<1> QED BY <1>3, <1>4, <1>5

(* The header that WithIpv6 puts before the upper layer.                   *)
IsHead(h, proto) ==
  /\ Wide(h, 320)
  /\ Slice(h, 0, 4) = BitsOf(6, 4)
  /\ NextHeader(h) = proto

(* A header from its parts.                                                *)
LEMMA HeadOf ==
  ASSUME NEW a, Wide(a, 4), NEW b, Wide(b, 8), NEW c, Wide(c, 20), NEW d, Wide(d, 16),
         NEW e, Wide(e, 8), NEW f, Wide(f, 8), NEW s, Wide(s, 128), NEW t, Wide(t, 128)
  PROVE  LET h == a \o b \o c \o d \o e \o f \o s \o t
         IN /\ Wide(h, 320) /\ Slice(h, 0, 4) = a /\ Slice(h, 48, 8) = e
            /\ Slice(h, 64, 128) = s /\ Slice(h, 192, 128) = t
<1> DEFINE h2 == a \o b
           h3 == h2 \o c
           h4 == h3 \o d
           h5 == h4 \o e
           h6 == h5 \o f
           h7 == h6 \o s
           h8 == h7 \o t
<1>1. /\ 4 \in Nat /\ 8 \in Nat /\ 20 \in Nat /\ 16 \in Nat /\ 128 \in Nat
      /\ 12 \in Nat /\ 32 \in Nat /\ 48 \in Nat /\ 56 \in Nat /\ 64 \in Nat /\ 192 \in Nat
      /\ 4 + 8 = 12 /\ 12 + 20 = 32 /\ 32 + 16 = 48 /\ 48 + 8 = 56 /\ 56 + 8 = 64
      /\ 64 + 128 = 192 /\ 192 + 128 = 320
  OBVIOUS
<1>2. Wide(h2, 12)
  <2>1. Wide(a \o b, 4 + 8)
    BY <1>1, WideJoin
  <2> QED BY <1>1, <2>1
<1> HIDE DEF h2
<1>3. Wide(h3, 32)
  <2>1. Wide(h2 \o c, 12 + 20)
    BY <1>1, <1>2, WideJoin
  <2> QED BY <1>1, <2>1
<1> HIDE DEF h3
<1>4. Wide(h4, 48)
  <2>1. Wide(h3 \o d, 32 + 16)
    BY <1>1, <1>3, WideJoin
  <2> QED BY <1>1, <2>1
<1> HIDE DEF h4
<1>5. Wide(h5, 56)
  <2>1. Wide(h4 \o e, 48 + 8)
    BY <1>1, <1>4, WideJoin
  <2> QED BY <1>1, <2>1
<1> HIDE DEF h5
<1>6. Wide(h6, 64)
  <2>1. Wide(h5 \o f, 56 + 8)
    BY <1>1, <1>5, WideJoin
  <2> QED BY <1>1, <2>1
<1> HIDE DEF h6
<1>7. Wide(h7, 192)
  <2>1. Wide(h6 \o s, 64 + 128)
    BY <1>1, <1>6, WideJoin
  <2> QED BY <1>1, <2>1
<1> HIDE DEF h7
<1>8. Wide(h8, 320)
  <2>1. Wide(h7 \o t, 192 + 128)
    BY <1>1, <1>7, WideJoin
  <2> QED BY <1>1, <2>1
<1>9. Slice(h8, 192, 128) = t
  <2>1. Slice(h7 \o t, Len(h7), Len(t)) = t
    BY <1>7, SliceRight, WideBits
  <2> QED BY <1>7, <2>1, WideBits
<1> HIDE DEF h8
<1>10. /\ a \in Bits /\ b \in Bits /\ c \in Bits /\ d \in Bits /\ e \in Bits /\ f \in Bits
       /\ s \in Bits /\ t \in Bits
       /\ h2 \in Bits /\ h3 \in Bits /\ h4 \in Bits /\ h5 \in Bits /\ h6 \in Bits
       /\ h7 \in Bits
  BY <1>2, <1>3, <1>4, <1>5, <1>6, <1>7, WideBits
<1>11. /\ Len(a) = 4 /\ Len(h2) = 12 /\ Len(h3) = 32 /\ Len(h4) = 48 /\ Len(h5) = 56
       /\ Len(h6) = 64 /\ Len(h7) = 192
  BY <1>2, <1>3, <1>4, <1>5, <1>6, <1>7, WideBits
<1>12. /\ h2 = a \o b /\ h3 = h2 \o c /\ h4 = h3 \o d /\ h5 = h4 \o e /\ h6 = h5 \o f
       /\ h7 = h6 \o s /\ h8 = h7 \o t
  BY DEF h2, h3, h4, h5, h6, h7, h8
<1>13. Slice(h8, 64, 128) = s
  <2>1. Slice(h7, 64, 128) = s
    <3>1. Slice(h6 \o s, Len(h6), Len(s)) = s
      BY <1>10, SliceRight
    <3>2. Len(s) = 128
      BY WideBits
    <3> QED BY <1>11, <1>12, <3>1, <3>2
  <2>2. 64 + 128 <= Len(h7)
    BY <1>11
  <2>3. Slice(h7 \o t, 64, 128) = Slice(h7, 64, 128)
    BY <1>1, <1>10, <2>2, SliceLeft
  <2> QED BY <1>12, <2>1, <2>3
<1>14. Slice(h8, 48, 8) = e
  <2>1. Slice(h5, 48, 8) = e
    <3>1. Slice(h4 \o e, Len(h4), Len(e)) = e
      BY <1>10, SliceRight
    <3>2. Len(e) = 8
      BY WideBits
    <3> QED BY <1>11, <1>12, <3>1, <3>2
  <2>2. 48 + 8 <= Len(h5) /\ 48 + 8 <= Len(h6) /\ 48 + 8 <= Len(h7)
    BY <1>11
  <2>3. Slice(h5 \o f, 48, 8) = Slice(h5, 48, 8)
    BY <1>1, <1>10, <2>2, SliceLeft
  <2>4. Slice(h6 \o s, 48, 8) = Slice(h6, 48, 8)
    BY <1>1, <1>10, <2>2, SliceLeft
  <2>5. Slice(h7 \o t, 48, 8) = Slice(h7, 48, 8)
    BY <1>1, <1>10, <2>2, SliceLeft
  <2> QED BY <1>12, <2>1, <2>3, <2>4, <2>5
<1>15. Slice(h8, 0, 4) = a
  <2>0. 0 \in Nat /\ 0 + 4 = 4 /\ 4 <= Len(a) /\ 4 <= Len(h2) /\ 4 <= Len(h3)
        /\ 4 <= Len(h4) /\ 4 <= Len(h5) /\ 4 <= Len(h6) /\ 4 <= Len(h7)
    BY <1>11
  <2>1. Slice(h7 \o t, 0, 4) = Slice(h7, 0, 4)
    BY <1>1, <1>10, <2>0, SliceLeft
  <2>2. Slice(h6 \o s, 0, 4) = Slice(h6, 0, 4)
    BY <1>1, <1>10, <2>0, SliceLeft
  <2>3. Slice(h5 \o f, 0, 4) = Slice(h5, 0, 4)
    BY <1>1, <1>10, <2>0, SliceLeft
  <2>4. Slice(h4 \o e, 0, 4) = Slice(h4, 0, 4)
    BY <1>1, <1>10, <2>0, SliceLeft
  <2>5. Slice(h3 \o d, 0, 4) = Slice(h3, 0, 4)
    BY <1>1, <1>10, <2>0, SliceLeft
  <2>6. Slice(h2 \o c, 0, 4) = Slice(h2, 0, 4)
    BY <1>1, <1>10, <2>0, SliceLeft
  <2>7. Slice(a \o b, 0, 4) = Slice(a, 0, 4)
    BY <1>1, <1>10, <2>0, SliceLeft
  <2>8. Slice(a, 0, 4) = a
    <3>1. SubSeq(a, 1, 4) = a
      BY <1>10, <1>11 DEF Bits
    <3> QED BY <3>1 DEF Slice
  <2> QED BY <1>12, <2>1, <2>2, <2>3, <2>4, <2>5, <2>6, <2>7, <2>8
<1> QED BY <1>8, <1>9, <1>13, <1>14, <1>15 DEF h2, h3, h4, h5, h6, h7, h8

IsLaidOut(packet, given, h, proto, upper) ==
  /\ IsHead(h, proto)
  /\ packet = h \o (IF Has(given, SumField(proto)) THEN upper
                    ELSE Summed(Slice(h, 64, 128), Slice(h, 192, 128), proto, upper))

(* WithIpv6 lays a packet out as a header and the upper layer behind it.   *)
LEMMA Ipv6Layout ==
  ASSUME NEW store \in Seq(KeptFields), Ipv6Complete(store), NEW dir,
         NEW upper \in Bits
  PROVE  \E h : IsLaidOut(WithIpv6(dir, store, upper), store, h, StoredNext(store), upper)
<1> DEFINE proto == StoredNext(store)
           s == Address(store, IF dir = "up" THEN "device" ELSE "app")
           t == Address(store, IF dir = "up" THEN "app" ELSE "device")
           size == BitsOf(Len(upper) \div 8, 16)
           a == BitsOf(6, 4)
           b == Uint(store, "ipv6-trafficclass", 8)
           c == Uint(store, "ipv6-flowlabel", 20)
           d == Given16(store, "ipv6-payload-length", size)
           e == BitsOf(proto, 8)
           f == Uint(store, "ipv6-hoplimit", 8)
           tail(x, y) == IF Has(store, SumField(proto)) THEN upper
                         ELSE Summed(x, y, proto, upper)
           h == a \o b \o c \o d \o e \o f \o s \o t
<1>1. WithIpv6(dir, store, upper) = h \o tail(s, t)
  BY DEF WithIpv6
<1>2. 4 \in Nat /\ 6 \in Nat /\ 8 \in Nat /\ 16 \in Nat /\ 20 \in Nat
  OBVIOUS
<1>3. proto \in Nat /\ proto < 2^8
  BY NextBelow
<1>4. /\ Has(store, "ipv6-trafficclass") /\ Has(store, "ipv6-flowlabel")
      /\ Has(store, "ipv6-hoplimit")
  BY DEF Ipv6Complete, HasUint
<1>5. Len(upper) \div 8 \in Nat
  BY LenNat
<1> DEFINE n == Len(upper) \div 8
<1> HIDE DEF n, proto
<1>6. Wide(a, 4) /\ Wide(e, 8)
  BY <1>2, <1>3, BitsOfWide
<1>7. Wide(b, 8) /\ Wide(f, 8)
  BY <1>2, <1>4, UintType
<1>8. Wide(c, 20)
  BY <1>2, <1>4, UintType
<1>9. Wide(d, 16)
  <2>1. Wide(BitsOf(n, 16), 16)
    BY <1>2, <1>5, BitsOfWide DEF n
  <2>2. Wide(size, 16)
    BY <2>1 DEF n
  <2> HIDE DEF size
  <2> QED BY <2>2, Given16Type
<1>10. Wide(s, 128) /\ Wide(t, 128)
  BY AddressType
<1>11. Number(e) = proto
  BY <1>2, <1>3, NumberOfBits
<1> HIDE DEF a, b, c, d, e, f, s, t, size
<1>12. /\ Wide(h, 320) /\ Slice(h, 0, 4) = a /\ Slice(h, 48, 8) = e
       /\ Slice(h, 64, 128) = s /\ Slice(h, 192, 128) = t
  BY <1>6, <1>7, <1>8, <1>9, <1>10, HeadOf
<1> HIDE DEF h
<1>13. IsHead(h, proto)
  BY <1>11, <1>12 DEF IsHead, NextHeader, a
<1>14. WithIpv6(dir, store, upper) = h \o tail(Slice(h, 64, 128), Slice(h, 192, 128))
  BY <1>1, <1>12
<1>15. IsLaidOut(WithIpv6(dir, store, upper), store, h, proto, upper)
  BY <1>13, <1>14 DEF IsLaidOut
<1> QED BY <1>15 DEF proto

(* Folding and BitsOf, where a value need not be in range.                 *)
LEMMA FoldNat == \A n \in Nat : Fold16(n) \in Nat
<1> TAKE n \in Nat
<1>1. PICK q, r \in Nat : /\ n = (256 * 256) * q + r /\ r < 256 * 256
                         /\ Fold16(n) = q + r
  BY FoldOnce
<1> QED BY <1>1

LEMMA BitsOfInt ==
  ASSUME NEW v \in Int, NEW n \in Nat
  PROVE  BitsOf(v, n) \in Bits /\ Len(BitsOf(v, n)) = n
<1>1. ASSUME NEW i \in 1..n PROVE (v \div 2^(n - i)) % 2 \in Bit
  <2>1. n - i \in Nat
    OBVIOUS
  <2>2. 2^(n - i) \in Nat /\ 2^(n - i) > n - i
    BY <2>1, PowerPositive
  <2> DEFINE p == 2^(n - i)
  <2>3. p \in Nat /\ p > 0
    <3>1. p > n - i
      BY <2>2
    <3> HIDE DEF p
    <3>2. p \in Nat
      BY <2>2 DEF p
    <3> QED BY <2>1, <3>1, <3>2
  <2> HIDE DEF p
  <2> DEFINE x == v \div p
  <2>4. x \in Int
    BY <2>3
  <2> HIDE DEF x
  <2>5. x % 2 \in Bit
    BY <2>4 DEF Bit
  <2> QED BY <2>5 DEF x, p
<1> DEFINE b(i) == (v \div 2^(n - i)) % 2
<1>2. BitsOf(v, n) = [i \in 1..n |-> b(i)]
  BY DEF BitsOf
<1>3. \A i \in 1..n : b(i) \in Bit
  BY <1>1
<1> HIDE DEF b
<1> QED BY <1>2, <1>3 DEF Bits

(* Summed keeps the length of the upper layer.                             *)
LEMMA SummedType ==
  ASSUME NEW source \in Bits, NEW destination \in Bits, NEW proto \in Nat,
         NEW upper \in Bits, Len(upper) >= SumOffset(proto) + 16
  PROVE  LET t == Summed(source, destination, proto, upper)
         IN t \in Bits /\ Len(t) = Len(upper)
<1> DEFINE offset == SumOffset(proto)
           blank == Patch(upper, offset, Zeros(16))
           sum == WordSum(source) + WordSum(destination) + Len(blank) \div 8 + proto
                  + WordSum(blank)
           c == AllOnes - Fold16(Fold16(sum))
           d == IF c = 0 THEN AllOnes ELSE c
           t == Summed(source, destination, proto, upper)
<1>0. PICK n \in Nat : n = 16
  OBVIOUS
<1>1. offset \in Nat
  BY DEF SumOffset
<1>2. offset + n <= Len(upper)
  <2>1. Len(upper) \in Nat
    BY LenNat
  <2> HIDE DEF offset
  <2>2. Len(upper) >= offset + 16
    BY DEF offset
  <2> QED BY <1>0, <1>1, <2>1, <2>2
<1>3. t = Patch(upper, offset, BitsOf(d, 16))
  BY DEF Summed, TransportChecksum
<1> HIDE DEF offset, t
<1>4. blank \in Bits
  <2>1. Zeros(n) \in Bits /\ Len(Zeros(n)) = n
    BY ZerosType
  <2> DEFINE z == Zeros(n)
  <2> HIDE DEF z
  <2>2. Patch(upper, offset, z) \in Bits
    BY <1>1, <1>2, <2>1, PatchType DEF z
  <2> QED BY <1>0, <2>2 DEF z
<1> HIDE DEF blank
<1>5. sum \in Nat
  <2>1. WordSum(source) \in Nat /\ WordSum(destination) \in Nat /\ WordSum(blank) \in Nat
    BY <1>4, WordSumBound
  <2>2. Len(blank) \div 8 \in Nat
    BY <1>4, LenNat
  <2> DEFINE u == WordSum(source)
             v == WordSum(destination)
             w == WordSum(blank)
             l == Len(blank) \div 8
  <2>3. u \in Nat /\ v \in Nat /\ w \in Nat /\ l \in Nat
    BY <2>1, <2>2
  <2> HIDE DEF u, v, w, l
  <2>4. u + v + l + proto + w \in Nat
    BY <2>3
  <2> QED BY <2>4 DEF u, v, w, l
<1> HIDE DEF sum
<1>6. d \in Int
  <2>1. Fold16(Fold16(sum)) \in Nat
    BY <1>5, FoldNat
  <2>2. AllOnes \in Nat
    BY AllOnesIs
  <2> QED BY <2>1, <2>2
<1> HIDE DEF d
<1>7. BitsOf(d, n) \in Bits /\ Len(BitsOf(d, n)) = n
  BY <1>6, BitsOfInt
<1> DEFINE b == BitsOf(d, n)
<1> HIDE DEF b
<1>8. Patch(upper, offset, b) \in Bits /\ Len(Patch(upper, offset, b)) = Len(upper)
  BY <1>1, <1>2, <1>7, PatchType DEF b
<1>9. t = Patch(upper, offset, b)
  BY <1>0, <1>3 DEF b
<1>10. t \in Bits /\ Len(t) = Len(upper)
  BY <1>8, <1>9
<1> QED BY <1>10 DEF t

LEMMA SliceWide ==
  ASSUME NEW s \in Bits, NEW m \in Nat, NEW n \in Nat, m + n <= Len(s)
  PROVE  Wide(Slice(s, m, n), n)
BY PartType DEF Wide

(* Two slices, one behind the other.                                       *)
LEMMA SliceJoin ==
  ASSUME NEW s \in Bits, NEW m \in Nat, NEW n \in Nat, NEW k \in Nat, m + (n + k) <= Len(s)
  PROVE  Slice(s, m, n + k) = Slice(s, m, n) \o Slice(s, m + n, k)
<1> DEFINE w == Slice(s, m, n + k)
           a == Slice(s, m, n)
           b == Slice(s, m + n, k)
           x == a \o b
<1>1. Len(s) \in Nat
  BY LenNat
<1>2. w \in Bits /\ Len(w) = n + k /\ \A i \in 1..(n + k) : w[i] = s[m + i]
  BY PartType
<1>3. a \in Bits /\ Len(a) = n /\ \A i \in 1..n : a[i] = s[m + i]
  <2>1. m + n <= Len(s)
    BY <1>1
  <2> QED BY <2>1, PartType
<1>4. b \in Bits /\ Len(b) = k /\ \A i \in 1..k : b[i] = s[(m + n) + i]
  <2> DEFINE j == m + n
  <2>1. j \in Nat /\ j + k <= Len(s)
    BY <1>1
  <2> HIDE DEF j
  <2>2. /\ Slice(s, j, k) \in Bits /\ Len(Slice(s, j, k)) = k
        /\ \A i \in 1..k : Slice(s, j, k)[i] = s[j + i]
    BY <2>1, PartType
  <2> QED BY <2>2 DEF j
<1> HIDE DEF a, b, w
<1>5. /\ x \in Bits /\ Len(x) = Len(a) + Len(b)
      /\ \A i \in 1..Len(a) : x[i] = a[i]
      /\ \A i \in 1..Len(b) : x[Len(a) + i] = b[i]
  BY <1>3, <1>4, ConcatBits
<1> HIDE DEF x
<1>6. Len(x) = n + k
  BY <1>3, <1>4, <1>5
<1>7. ASSUME NEW i \in 1..(n + k) PROVE w[i] = x[i]
  <2>1. CASE i <= n
    <3>1. i \in 1..n
      BY <2>1
    <3>2. x[i] = a[i] /\ a[i] = s[m + i]
      BY <1>3, <1>5, <3>1
    <3> QED BY <1>2, <3>2
  <2>2. CASE ~(i <= n)
    <3> DEFINE j == i - n
    <3>1. j \in 1..k /\ n + j = i /\ (m + n) + j = m + i
      BY <2>2
    <3> HIDE DEF j
    <3>2. x[n + j] = b[j] /\ b[j] = s[(m + n) + j]
      BY <1>3, <1>4, <1>5, <3>1
    <3> QED BY <1>2, <3>1, <3>2
  <2> QED BY <2>1, <2>2
<1>8. w = x
  <2>1. \A i \in 1..Len(w) : w[i] = x[i]
    BY <1>2, <1>7
  <2>2. Len(w) = Len(x)
    BY <1>2, <1>6
  <2> QED BY <1>2, <1>5, <2>1, <2>2, SameBits
<1> QED BY <1>8 DEF w, x, a, b

(* The addresses of a header.                                              *)
LEMMA HeadParts ==
  ASSUME NEW h, NEW proto, IsHead(h, proto)
  PROVE  /\ h \in Bits /\ Len(h) = 320
         /\ Wide(Slice(h, 64, 128), 128) /\ Wide(Slice(h, 192, 128), 128)
         /\ Slice(h, 64, 256) = Slice(h, 64, 128) \o Slice(h, 192, 128)
<1>1. h \in Bits /\ Len(h) = 320
  BY WideBits DEF IsHead
<1>2. PICK m \in Nat, n \in Nat : m = 64 /\ n = 128
  OBVIOUS
<1>3. m + (n + n) <= Len(h) /\ m + n \in Nat /\ m + n <= Len(h) /\ (m + n) + n <= Len(h)
  BY <1>1, <1>2
<1>4. Slice(h, m, n + n) = Slice(h, m, n) \o Slice(h, m + n, n)
  BY <1>1, <1>3, SliceJoin
<1>5. Wide(Slice(h, m, n), n)
  BY <1>1, <1>3, SliceWide
<1>6. Wide(Slice(h, m + n, n), n)
  <2> DEFINE k == m + n
  <2>1. k \in Nat /\ k + n <= Len(h)
    BY <1>3
  <2> HIDE DEF k
  <2>2. Wide(Slice(h, k, n), n)
    BY <1>1, <2>1, SliceWide
  <2> QED BY <2>2 DEF k
<1>7. n + n = 256 /\ m + n = 192
  BY <1>2
<1> QED BY <1>1, <1>2, <1>4, <1>5, <1>6, <1>7

(* The packet that a header and an upper layer make.                       *)
LEMMA PacketParts ==
  ASSUME NEW h, NEW proto, IsHead(h, proto), NEW t \in Bits
  PROVE  /\ h \o t \in Bits /\ Len(h \o t) = 320 + Len(t)
         /\ Slice(h \o t, 0, 4) = BitsOf(6, 4)
         /\ NextHeader(h \o t) = proto
         /\ Upper(h \o t) = t
         /\ Slice(h \o t, 64, 256) = Slice(h, 64, 256)
<1>1. h \in Bits /\ Len(h) = 320 /\ Slice(h, 0, 4) = BitsOf(6, 4) /\ NextHeader(h) = proto
  BY WideBits DEF IsHead
<1>2. ASSUME NEW m \in Nat, NEW n \in Nat, m + n <= 320
      PROVE  Slice(h \o t, m, n) = Slice(h, m, n)
  <2>1. h \in Bits /\ m + n <= Len(h)
    BY <1>1, <1>2
  <2> QED BY <2>1, SliceLeft
<1>3. Slice(h \o t, 0, 4) = Slice(h, 0, 4)
  BY <1>2
<1>4. Slice(h \o t, 48, 8) = Slice(h, 48, 8)
  BY <1>2
<1>5. Slice(h \o t, 64, 256) = Slice(h, 64, 256)
  BY <1>2
<1>6. From(h \o t, Len(h)) = t
  BY <1>1, SliceRight
<1>7. h \o t \in Bits /\ Len(h \o t) = Len(h) + Len(t)
  BY <1>1, Joined
<1> QED BY <1>1, <1>3, <1>4, <1>5, <1>6, <1>7 DEF NextHeader, Upper

(* The sum of an address.                                                  *)
LEMMA AddressSum ==
  ASSUME NEW v, Wide(v, 128)
  PROVE  WordSum(v) \in Nat /\ WordSum(v) < 8 * (256 * 256)
<1>1. v \in Bits /\ Len(v) = 128
  BY WideBits
<1> DEFINE c == WordCount(v)
           a == AllOnes
           z == WordSum(v)
<1>2. z \in Nat /\ z <= a * c
  BY <1>1, WordSumBound
<1>3. c \in Nat /\ 16 * c <= Len(v) + 15
  BY <1>1, EvenedType
<1>4. a = 256 * 256 - 1
  BY AllOnesIs
<1> HIDE DEF c, a, z
<1>5. c \in 0..8
  BY <1>1, <1>3
<1>6. a * c <= (256 * 256 - 1) * 8
  BY <1>4, <1>5
<1>7. a * c \in Nat
  BY <1>4, <1>5
<1>8. z < 8 * (256 * 256)
  BY <1>2, <1>4, <1>6, <1>7
<1> QED BY <1>2, <1>8 DEF z

(* Addresses are whole words, so their sums add up.                        *)
LEMMA AddressSums ==
  ASSUME NEW s, NEW d, Wide(s, 128), Wide(d, 128)
  PROVE  WordSum(s \o d) = WordSum(s) + WordSum(d)
<1>1. PICK m \in Nat : m = 8
  OBVIOUS
<1>2. s \in Bits /\ d \in Bits /\ Len(s) = 128
  BY WideBits
<1>3. Len(s) = 16 * m
  BY <1>1, <1>2
<1> QED BY <1>2, <1>3, WordSumJoin

(* What IPv6 can say about a length bounds it.                             *)
LEMMA UpperBound ==
  ASSUME NEW packet \in Bits, NEW l \in Nat, Len(packet) = 320 + l,
         Slice(packet, 0, 4) = BitsOf(6, 4), ValidLengths(packet)
  PROVE  l < 8 * (256 * 256)
<1> DEFINE f == Slice(packet, 32, 16)
<1>1. ReadableIpv6(packet)
  BY DEF ReadableIpv6
<1>2. 320 + 8 * Number(f) = Len(packet)
  BY <1>1 DEF ValidLengths, ParsesIpv6
<1>3. f \in Bits /\ Len(f) = 16
  <2>1. PICK m \in Nat, n \in Nat : m = 32 /\ n = 16
    OBVIOUS
  <2>2. m + n <= Len(packet)
    BY <2>1
  <2>3. Wide(Slice(packet, m, n), n)
    BY <2>2, SliceWide
  <2> QED BY <2>1, <2>3, WideBits
<1> HIDE DEF f
<1>4. Number(f) \in Nat /\ Number(f) < 2^Len(f)
  BY <1>3, NumberBelow
<1>5. Number(f) < 256 * 256
  BY <1>3, <1>4, AllOnesIs
<1> DEFINE k == Number(f)
<1>6. k \in Nat /\ k < 256 * 256 /\ 320 + 8 * k = 320 + l
  BY <1>2, <1>4, <1>5
<1> HIDE DEF k
<1> QED BY <1>6

(* The checksum verifies over what a header and Summed make.               *)
LEMMA SegmentVerifies ==
  ASSUME NEW h, NEW proto \in Nat, proto < 256, IsHead(h, proto), NEW upper \in Bits,
         Len(upper) >= SumOffset(proto) + 16, NEW t,
         t = Summed(Slice(h, 64, 128), Slice(h, 192, 128), proto, upper),
         ValidLengths(h \o t)
  PROVE  NextHeader(h \o t) = proto /\ SegmentSum(h \o t) = AllOnes
<1> DEFINE s == Slice(h, 64, 128)
           d == Slice(h, 192, 128)
           packet == h \o t
<1>1. Wide(s, 128) /\ Wide(d, 128) /\ Slice(h, 64, 256) = s \o d
  BY HeadParts
<1>2. t = Summed(s, d, proto, upper)
  OBVIOUS
<1> HIDE DEF s, d
<1>3. t \in Bits /\ Len(t) = Len(upper)
  <2>1. s \in Bits /\ d \in Bits
    BY <1>1, WideBits
  <2> QED BY <1>2, <2>1, SummedType
<1>4. /\ packet \in Bits /\ Len(packet) = 320 + Len(t)
      /\ Slice(packet, 0, 4) = BitsOf(6, 4) /\ NextHeader(packet) = proto
      /\ Upper(packet) = t /\ Slice(packet, 64, 256) = s \o d
  <2>1. /\ h \o t \in Bits /\ Len(h \o t) = 320 + Len(t)
        /\ Slice(h \o t, 0, 4) = BitsOf(6, 4) /\ NextHeader(h \o t) = proto
        /\ Upper(h \o t) = t /\ Slice(h \o t, 64, 256) = Slice(h, 64, 256)
    BY <1>3, PacketParts
  <2> QED BY <1>1, <2>1
<1>5. ValidLengths(packet)
  OBVIOUS
<1> HIDE DEF packet
<1>6. Len(upper) < 8 * (256 * 256)
  <2>1. Len(upper) \in Nat /\ Len(packet) = 320 + Len(upper)
    BY <1>3, <1>4, LenNat
  <2> QED BY <1>4, <1>5, <2>1, UpperBound
<1>7. Fold16(Fold16(WordSum(s) + WordSum(d) + Len(t) \div 8 + proto + WordSum(t))) = AllOnes
  <2>1. /\ WordSum(s) \in Nat /\ WordSum(s) < 8 * (256 * 256)
        /\ WordSum(d) \in Nat /\ WordSum(d) < 8 * (256 * 256)
    BY <1>1, AddressSum
  <2> QED BY <1>2, <1>6, <2>1, SummedSum
<1>8. SegmentSum(packet)
        = Fold16(Fold16(WordSum(s \o d) + Len(t) \div 8 + proto + WordSum(t)))
  BY <1>4, Zenon DEF SegmentSum
<1>9. WordSum(s \o d) = WordSum(s) + WordSum(d)
  BY <1>1, AddressSums
<1> QED BY <1>4, <1>7, <1>8, <1>9 DEF packet

(* What Reconstruct and ReconstructWithSuffix put behind the header.       *)
LEMMA IcmpStartType ==
  ASSUME NEW store \in Seq(KeptFields), IcmpComplete(store)
  PROVE  Wide(IcmpStart(store), 32)
<1> DEFINE a == Uint(store, "icmpv6-type", 8)
           b == Uint(store, "icmpv6-code", 8)
           c == Given16(store, "icmpv6-checksum", Zeros(16))
<1>1. 8 \in Nat /\ 16 \in Nat /\ 8 + 8 = 16 /\ 16 + 16 = 32
  OBVIOUS
<1>2. Has(store, "icmpv6-type") /\ Has(store, "icmpv6-code")
  BY DEF IcmpComplete, HasUint
<1>3. Wide(a, 8) /\ Wide(b, 8)
  BY <1>1, <1>2, UintType
<1>4. Wide(c, 16)
  <2>1. Zeros(16) \in Bits /\ Len(Zeros(16)) = 16
    BY <1>1, ZerosType
  <2>2. Wide(Zeros(16), 16)
    BY <2>1, WideBits
  <2> QED BY <2>2, Given16Type
<1>5. IcmpStart(store) = (a \o b) \o c
  BY DEF IcmpStart
<1> HIDE DEF a, b, c
<1>6. Wide(a \o b, 8 + 8)
  BY <1>1, <1>3, WideJoin
<1> DEFINE x == a \o b
<1> HIDE DEF x
<1>7. Wide(x, 16)
  BY <1>1, <1>6 DEF x
<1>8. Wide(x \o c, 16 + 16)
  BY <1>1, <1>4, <1>7, WideJoin
<1> QED BY <1>1, <1>5, <1>8 DEF x

(* What stands behind a string of n bits.                                  *)
LEMMA Behind ==
  ASSUME NEW a, NEW n \in Nat, Wide(a, n), NEW b \in Bits
  PROVE  a \o b \in Bits /\ Len(a \o b) >= n
<1>1. a \in Bits /\ Len(a) = n
  BY WideBits
<1>2. a \o b \in Bits /\ Len(a \o b) = Len(a) + Len(b)
  BY <1>1, Joined
<1>3. Len(b) \in Nat
  BY LenNat
<1> QED BY <1>1, <1>2, <1>3

(* The ICMPv6 message of a store, and the error that carries a packet.     *)
LEMMA MessageType32 ==
  ASSUME NEW store \in Seq(KeptFields), IcmpComplete(store), MessageComplete(store)
  PROVE  MessageBits(store) \in Bits /\ Len(MessageBits(store)) >= 32
<1> DEFINE a == IcmpStart(store)
           c == Uint(store, "icmpv6-identifier", 16)
           d == Uint(store, "icmpv6-sequence", 16)
           b == IF HasEcho(store) THEN c \o d ELSE <<>>
           p == SharedPayload(store, "icmpv6-payload")
<1>0. 32 \in Nat
  OBVIOUS
<1>1. MessageBits(store) = (a \o b) \o p
  BY DEF MessageBits
<1>2. Wide(a, 32)
  BY IcmpStartType
<1>3. p \in Bits
  BY SharedType
<1>4. b \in Bits
  <2>1. CASE HasEcho(store)
    <3>1. Has(store, "icmpv6-identifier") /\ Has(store, "icmpv6-sequence")
      BY <2>1 DEF MessageComplete, HasUint
    <3>2. 16 \in Nat
      OBVIOUS
    <3>3. Wide(c, 16) /\ Wide(d, 16)
      BY <3>1, <3>2, UintType
    <3> HIDE DEF c, d
    <3>4. c \in Bits /\ d \in Bits
      BY <3>3, WideBits
    <3>5. c \o d \in Bits
      BY <3>4, Joined
    <3> QED BY <2>1, <3>5
  <2>2. CASE ~HasEcho(store)
    BY <2>2, NothingBits
  <2> QED BY <2>1, <2>2
<1> HIDE DEF a, b, p
<1> DEFINE x == b \o p
<1>5. x \in Bits
  BY <1>3, <1>4, Joined
<1>6. (a \o b) \o p = a \o x
  <2>1. a \in Bits
    BY <1>2, WideBits
  <2> QED BY <1>3, <1>4, <2>1 DEF Bits
<1> HIDE DEF x
<1>7. a \o x \in Bits /\ Len(a \o x) >= 32
  BY <1>0, <1>2, <1>5, Behind
<1> QED BY <1>1, <1>6, <1>7

(* Numbers of the two upper layers.                                        *)
LEMMA Offsets ==
  /\ UDP \in Nat /\ UDP < 256 /\ SumOffset(UDP) + 16 = 64
  /\ ICMPv6 \in Nat /\ ICMPv6 < 256 /\ SumOffset(ICMPv6) + 16 = 32
BY DEF UDP, ICMPv6, SumOffset

(* A header and an upper layer make a bit string.                          *)
LEMMA WithIpv6Type ==
  ASSUME NEW store \in Seq(KeptFields), Ipv6Complete(store), NEW dir,
         NEW upper \in Bits, Len(upper) >= SumOffset(StoredNext(store)) + 16
  PROVE  WithIpv6(dir, store, upper) \in Bits
<1> DEFINE proto == StoredNext(store)
<1>0. PICK h : IsLaidOut(WithIpv6(dir, store, upper), store, h, StoredNext(store), upper)
  BY Ipv6Layout
<1>1. /\ IsHead(h, proto)
      /\ WithIpv6(dir, store, upper)
           = h \o (IF Has(store, SumField(proto)) THEN upper
                   ELSE Summed(Slice(h, 64, 128), Slice(h, 192, 128), proto, upper))
  BY <1>0 DEF IsLaidOut
<1>2. proto \in Nat
  BY NextBelow
<1> HIDE DEF proto
<1> DEFINE s == Slice(h, 64, 128)
           d == Slice(h, 192, 128)
           t == Summed(s, d, proto, upper)
<1>3. h \in Bits /\ s \in Bits /\ d \in Bits
  BY <1>1, HeadParts, WideBits
<1> HIDE DEF s, d
<1>4. t \in Bits
  <2>1. Len(upper) >= SumOffset(proto) + 16
    BY DEF proto
  <2> QED BY <1>2, <1>3, <2>1, SummedType
<1> HIDE DEF t
<1>5. h \o upper \in Bits /\ h \o t \in Bits
  BY <1>3, <1>4, Joined
<1>6. WithIpv6(dir, store, upper) = h \o (IF Has(store, SumField(proto)) THEN upper ELSE t)
  BY <1>1 DEF t, s, d
<1> QED BY <1>5, <1>6

LEMMA InnerType ==
  ASSUME NEW store \in Seq(KeptFields), InnerComplete(store), NEW dir
  PROVE  Inner(dir, store) \in Bits
<1>1. Ipv6Complete(store)
  BY DEF InnerComplete
<1> DEFINE u == UdpBits(dir, store)
           m == MessageBits(store)
           proto == StoredNext(store)
           n == SumOffset(proto) + 16
<1>2. Inner(dir, store) = WithIpv6(dir, store, IF proto = UDP THEN u ELSE m)
  BY DEF Inner
<1>3. CASE proto = UDP /\ UdpComplete(store)
  <2>1. u \in Bits /\ Len(u) >= 64
    BY <1>3, UdpType
  <2> HIDE DEF u, proto
  <2>2. Len(u) >= n
    BY <1>3, <2>1, Offsets
  <2>3. WithIpv6(dir, store, u) \in Bits
    BY <1>1, <2>1, <2>2, WithIpv6Type DEF proto
  <2> QED BY <1>2, <1>3, <2>3
<1>4. CASE proto = ICMPv6 /\ IcmpComplete(store) /\ MessageComplete(store)
  <2>1. m \in Bits /\ Len(m) >= 32
    BY <1>4, MessageType32
  <2>2. proto # UDP
    BY <1>4 DEF UDP, ICMPv6
  <2> HIDE DEF m, proto
  <2>3. Len(m) >= n
    BY <1>4, <2>1, Offsets
  <2>4. WithIpv6(dir, store, m) \in Bits
    BY <1>1, <2>1, <2>3, WithIpv6Type DEF proto
  <2> QED BY <1>2, <2>2, <2>4
<1> QED BY <1>3, <1>4 DEF InnerComplete

LEMMA ErrorType ==
  ASSUME NEW outer \in Seq(KeptFields), NEW inner \in Seq(KeptFields), NEW dir,
         IcmpComplete(outer), ErrorComplete(dir, outer, inner)
  PROVE  ErrorBits(dir, outer, inner) \in Bits /\ Len(ErrorBits(dir, outer, inner)) >= 32
<1> DEFINE a == IcmpStart(outer)
           w == TypeWord(StoredType(outer))
           b == First(outer, w)
           p == IF Has(inner, "ipv6-version") THEN Inner(Opposite(dir), inner)
                ELSE AsBytes(First(outer, Payload))
<1>0. 32 \in Nat
  OBVIOUS
<1>1. ErrorBits(dir, outer, inner) = (a \o b) \o p
  BY DEF ErrorBits
<1>2. Wide(a, 32)
  BY IcmpStartType
<1>3. b \in Bits
  <2>1. Has(outer, w)
    BY DEF ErrorComplete
  <2> HIDE DEF w
  <2> QED BY <2>1, FirstType
<1>4. p \in Bits
  <2>1. Has(inner, "ipv6-version") => Inner(Opposite(dir), inner) \in Bits
    BY InnerType DEF ErrorComplete
  <2>2. ~Has(inner, "ipv6-version") => AsBytes(First(outer, Payload)) \in Bits
    BY FirstType, AsBytesType DEF ErrorComplete
  <2> QED BY <2>1, <2>2
<1> HIDE DEF a, b, p
<1> DEFINE x == b \o p
<1>5. x \in Bits
  BY <1>3, <1>4, Joined
<1>6. (a \o b) \o p = a \o x
  <2>1. a \in Bits
    BY <1>2, WideBits
  <2> QED BY <1>3, <1>4, <2>1 DEF Bits
<1> HIDE DEF x
<1>7. a \o x \in Bits /\ Len(a \o x) >= 32
  BY <1>0, <1>2, <1>5, Behind
<1> QED BY <1>1, <1>6, <1>7

(* What Assemble makes of a complete store: a header, and an upper layer   *)
(* that has room for its checksum, and has the right one if none is given. *)
IsAssembled(packet, given, h, proto, upper) ==
  /\ proto \in {UDP, ICMPv6}
  /\ upper \in Bits /\ Len(upper) >= SumOffset(proto) + 16
  /\ IsLaidOut(packet, given, h, proto, upper)

LEMMA Assembled ==
  ASSUME NEW store \in Seq(KeptFields), NEW dir, Complete(dir, store)
  PROVE  \E h, proto, upper :
           IsAssembled(Assemble(dir, store), In(store, "outer"), h, proto, upper)
<1> DEFINE outer == In(store, "outer")
           inner == In(store, "embedded")
           proto == StoredNext(outer)
           u == UdpBits(dir, outer)
           m == MessageBits(outer)
           e == ErrorBits(dir, outer, inner)
           upper == CASE proto = UDP -> u
                      [] proto = ICMPv6 ->
                           IF StoredType(outer) \in ErrorTypes THEN e ELSE m
<1>1. outer \in Seq(KeptFields) /\ inner \in Seq(KeptFields)
  BY PartOfStore
<1>2. Ipv6Complete(outer)
  BY DEF Complete
<1>3. \/ proto = UDP /\ UdpComplete(outer)
      \/ /\ proto = ICMPv6 /\ IcmpComplete(outer)
         /\ IF StoredType(outer) \in ErrorTypes THEN ErrorComplete(dir, outer, inner)
            ELSE MessageComplete(outer)
  BY DEF Complete
<1>4. Assemble(dir, store) = WithIpv6(dir, outer, upper)
  BY DEF Assemble
<1> HIDE DEF outer, inner
<1>5. proto \in {UDP, ICMPv6} /\ upper \in Bits /\ Len(upper) >= SumOffset(proto) + 16
  <2>1. CASE proto = UDP /\ UdpComplete(outer)
    <3>1. u \in Bits /\ Len(u) >= 64
      BY <1>1, <2>1, UdpType
    <3> HIDE DEF u, m, e
    <3>2. upper = u
      BY <2>1 DEF UDP, ICMPv6
    <3> HIDE DEF proto, upper
    <3> QED BY <2>1, <3>1, <3>2, Offsets
  <2>2. CASE /\ proto = ICMPv6 /\ IcmpComplete(outer)
             /\ IF StoredType(outer) \in ErrorTypes THEN ErrorComplete(dir, outer, inner)
                ELSE MessageComplete(outer)
    <3>1. proto # UDP
      BY <2>2 DEF UDP, ICMPv6
    <3>2. upper = IF StoredType(outer) \in ErrorTypes THEN e ELSE m
      BY <2>2, <3>1
    <3>3. CASE StoredType(outer) \in ErrorTypes
      <4>1. e \in Bits /\ Len(e) >= 32
        BY <1>1, <2>2, <3>3, ErrorType
      <4>2. upper = e
        BY <3>2, <3>3
      <4> HIDE DEF e, proto, upper
      <4> QED BY <2>2, <4>1, <4>2, Offsets
    <3>4. CASE ~(StoredType(outer) \in ErrorTypes)
      <4>1. m \in Bits /\ Len(m) >= 32
        BY <1>1, <2>2, <3>4, MessageType32
      <4>2. upper = m
        BY <3>2, <3>4
      <4> HIDE DEF m, proto, upper
      <4> QED BY <2>2, <4>1, <4>2, Offsets
    <3> QED BY <3>3, <3>4
  <2> HIDE DEF proto, upper
  <2> QED BY <1>3, <2>1, <2>2
<1> HIDE DEF upper
<1>6. PICK h : IsLaidOut(WithIpv6(dir, outer, upper), outer, h, proto, upper)
  <2> HIDE DEF proto
  <2>1. \A x \in Bits : \E h :
          IsLaidOut(WithIpv6(dir, outer, x), outer, h, StoredNext(outer), x)
    BY <1>1, <1>2, Ipv6Layout
  <2> QED BY <1>5, <2>1 DEF proto
<1> HIDE DEF proto
<1>7. IsAssembled(Assemble(dir, store), outer, h, proto, upper)
  BY <1>4, <1>5, <1>6 DEF IsAssembled
<1> QED BY <1>7 DEF outer

(* Two bit strings of the same length that agree but in n bits behind m.   *)
AgreeBut(s, t, m, n) ==
  /\ s \in Bits /\ t \in Bits /\ Len(s) = Len(t)
  /\ \A i \in 1..Len(s) : i <= m \/ i > m + n => s[i] = t[i]

(* Patch, or leaving alone what is given, changes nothing else.            *)
LEMMA AgreePatch ==
  ASSUME NEW s \in Bits, NEW m \in Nat, NEW n \in Nat, m + n <= Len(s),
         NEW b, Wide(b, n), NEW given
  PROVE  AgreeBut(IF given THEN s ELSE Patch(s, m, b), s, m, n)
<1> DEFINE x == Patch(s, m, b)
<1>1. b \in Bits /\ Len(b) = n
  BY WideBits
<1>2. /\ x \in Bits /\ Len(x) = Len(s)
      /\ \A i \in 1..Len(s) : i <= m \/ i > m + n => x[i] = s[i]
  BY <1>1, PatchType
<1> HIDE DEF x
<1>3. AgreeBut(x, s, m, n)
  BY <1>2 DEF AgreeBut
<1>4. AgreeBut(s, s, m, n)
  BY DEF AgreeBut
<1>5. CASE given
  BY <1>4, <1>5
<1>6. CASE ~given
  BY <1>3, <1>6 DEF x
<1> QED BY <1>5, <1>6

(* A slice that is clear of those n bits.                                  *)
LEMMA AgreeSlice ==
  ASSUME NEW s, NEW t, NEW m \in Nat, NEW n \in Nat, AgreeBut(s, t, m, n),
         NEW k \in Nat, NEW l \in Nat, k + l <= Len(s), k + l <= m \/ k >= m + n
  PROVE  Slice(s, k, l) = Slice(t, k, l)
<1>1. s \in Bits /\ t \in Bits /\ Len(s) = Len(t)
  BY DEF AgreeBut
<1>2. Len(s) \in Nat
  BY <1>1, LenNat
<1>3. ASSUME NEW i \in 1..l PROVE s[k + i] = t[k + i]
  <2>1. k + i \in 1..Len(s) /\ (k + i <= m \/ k + i > m + n)
    BY <1>2
  <2> DEFINE j == k + i
  <2> HIDE DEF j
  <2>2. s[j] = t[j]
    BY <2>1 DEF AgreeBut, j
  <2> QED BY <2>2 DEF j
<1>4. k + l <= Len(t)
  BY <1>1
<1> QED BY <1>1, <1>3, <1>4, SliceSame

(* The first part of a bit string.                                         *)
LEMMA FirstPart ==
  ASSUME NEW s \in Bits, NEW n \in Nat, n <= Len(s)
  PROVE  /\ Wide(SubSeq(s, 1, n), n)
         /\ \A k, l \in Nat : k + l <= n => Slice(SubSeq(s, 1, n), k, l) = Slice(s, k, l)
<1> DEFINE x == SubSeq(s, 1, n)
<1>1. Len(s) \in Nat
  BY LenNat
<1>2. x \in Bits /\ Len(x) = n /\ \A i \in 1..n : x[i] = s[i]
  BY <1>1 DEF Bits
<1> HIDE DEF x
<1>3. Wide(x, n)
  BY <1>2, WideBits
<1>4. ASSUME NEW k \in Nat, NEW l \in Nat, k + l <= n
      PROVE  Slice(x, k, l) = Slice(s, k, l)
  <2>1. k + l <= Len(s) /\ k + l <= Len(x)
    BY <1>1, <1>2, <1>4
  <2>2. ASSUME NEW i \in 1..l PROVE x[k + i] = s[k + i]
    <3>1. k + i \in 1..n
      BY <1>4
    <3> QED BY <1>2, <3>1
  <2> QED BY <1>2, <2>1, <2>2, SliceSame
<1> QED BY <1>3, <1>4 DEF x

LEMMA LastPart ==
  ASSUME NEW s \in Bits, NEW n \in Nat, n <= Len(s)
  PROVE  From(s, n) \in Bits /\ Len(From(s, n)) = Len(s) - n
<1>1. Len(s) \in Nat
  BY LenNat
<1> QED BY <1>1 DEF Bits, From

AmendedParts(store, joined, proto) ==
  LET outer == In(store, "outer")
      size == BitsOf((Len(joined) - 320) \div 8, 16)
      sized == IF Has(outer, "ipv6-payload-length") THEN joined ELSE Patch(joined, 32, size)
      more == IF Has(outer, "udp-length") THEN sized ELSE Patch(sized, 352, size)
      upper == From(IF proto = UDP THEN more ELSE sized, 320)
  IN Amended(store, joined)
       = SubSeq(sized, 1, 320)
         \o (IF Has(outer, SumField(proto)) THEN upper
             ELSE Summed(Slice(sized, 64, 128), Slice(sized, 192, 128), proto, upper))

(* Amended, for a packet whose next header is known.                       *)
LEMMA AmendedIs ==
  ASSUME NEW store, NEW joined, NEW proto, NextHeader(joined) = proto
  PROVE  AmendedParts(store, joined, proto)
BY DEF AmendedParts, Amended, Upper

(* What the lengths that Amended sets leave alone.                         *)
LEMMA Amending ==
  ASSUME NEW store, NEW h, NEW proto \in {UDP, ICMPv6}, IsHead(h, proto),
         NEW u \in Bits, Len(u) >= SumOffset(proto) + 16
  PROVE  \E g, upper : IsAssembled(Amended(store, h \o u), In(store, "outer"), g, proto, upper)
<1> DEFINE joined == h \o u
           outer == In(store, "outer")
           size == BitsOf((Len(joined) - 320) \div 8, 16)
           a == Has(outer, "ipv6-payload-length")
           b == Has(outer, "udp-length")
           sized == IF a THEN joined ELSE Patch(joined, 32, size)
           more == IF b THEN sized ELSE Patch(sized, 352, size)
           w == IF proto = UDP THEN more ELSE sized
           upper == From(w, 320)
           g == SubSeq(sized, 1, 320)
           t == Summed(Slice(sized, 64, 128), Slice(sized, 192, 128), proto, upper)
           sum == Has(outer, SumField(proto))
<1>1. /\ joined \in Bits /\ Len(joined) = 320 + Len(u)
      /\ Slice(joined, 0, 4) = BitsOf(6, 4) /\ NextHeader(joined) = proto
  BY PacketParts
<1>2. Amended(store, joined) = g \o (IF sum THEN upper ELSE t)
  <2>1. NextHeader(joined) = proto
    BY <1>1
  <2>2. AmendedParts(store, joined, proto)
    <3> HIDE DEF joined
    <3> QED BY <2>1, AmendedIs
  <2> QED BY <2>2, Zenon DEF AmendedParts
<1>3. Len(u) \in Nat /\ Len(u) >= 32 /\ (proto = UDP => Len(u) >= 64)
  BY LenNat, Offsets
<1>4. PICK n32 \in Nat, n16 \in Nat, n352 \in Nat, n320 \in Nat :
        n32 = 32 /\ n16 = 16 /\ n352 = 352 /\ n320 = 320
  OBVIOUS
<1>5. Wide(size, 16)
  <2> DEFINE v == (Len(joined) - 320) \div 8
  <2>1. v \in Int
    BY <1>1, <1>3
  <2> HIDE DEF v
  <2>2. BitsOf(v, n16) \in Bits /\ Len(BitsOf(v, n16)) = n16
    BY <2>1, BitsOfInt
  <2> QED BY <1>4, <2>2, WideBits DEF v
<1> HIDE DEF joined, size, outer, a, b, sum
<1>6. AgreeBut(sized, joined, 32, 16)
  <2>1. joined \in Bits /\ n32 + n16 <= Len(joined) /\ Wide(size, n16)
    BY <1>1, <1>3, <1>4, <1>5
  <2>2. AgreeBut(IF a THEN joined ELSE Patch(joined, n32, size), joined, n32, n16)
    BY <2>1, AgreePatch
  <2> QED BY <1>4, <2>2
<1> HIDE DEF sized
<1>7. sized \in Bits /\ Len(sized) = 320 + Len(u)
  BY <1>1, <1>6 DEF AgreeBut
<1>8. proto = UDP => AgreeBut(more, sized, 352, 16)
  <2> SUFFICES ASSUME proto = UDP PROVE AgreeBut(more, sized, 352, 16)
    OBVIOUS
  <2>1. sized \in Bits /\ n352 + n16 <= Len(sized) /\ Wide(size, n16)
    BY <1>3, <1>4, <1>5, <1>7
  <2>2. AgreeBut(IF b THEN sized ELSE Patch(sized, n352, size), sized, n352, n16)
    BY <2>1, AgreePatch
  <2> QED BY <1>4, <2>2
<1> HIDE DEF more
<1>9. w \in Bits /\ Len(w) = 320 + Len(u)
  BY <1>7, <1>8 DEF AgreeBut
<1> HIDE DEF w
<1>10. upper \in Bits /\ Len(upper) = Len(u)
  <2>1. n320 <= Len(w)
    BY <1>3, <1>4, <1>9
  <2>2. From(w, n320) \in Bits /\ Len(From(w, n320)) = Len(w) - n320
    BY <1>9, <2>1, LastPart
  <2> QED BY <1>3, <1>4, <1>9, <2>2
<1>11. /\ Wide(g, 320)
       /\ \A k, l \in Nat : k + l <= 320 => Slice(g, k, l) = Slice(sized, k, l)
  <2>1. n320 <= Len(sized)
    BY <1>3, <1>4, <1>7
  <2>2. /\ Wide(SubSeq(sized, 1, n320), n320)
        /\ \A k, l \in Nat : k + l <= n320 =>
             Slice(SubSeq(sized, 1, n320), k, l) = Slice(sized, k, l)
    BY <1>7, <2>1, FirstPart
  <2> QED BY <1>4, <2>2
<1> HIDE DEF upper, g
<1>12. \A k, l \in Nat : k + l <= 320 /\ (k + l <= 32 \/ k >= 48) =>
         Slice(sized, k, l) = Slice(joined, k, l)
  <2> TAKE k, l \in Nat
  <2> HAVE k + l <= 320 /\ (k + l <= 32 \/ k >= 48)
  <2>1. AgreeBut(sized, joined, n32, n16)
    BY <1>4, <1>6
  <2>2. k + l <= Len(sized) /\ (k + l <= n32 \/ k >= n32 + n16)
    BY <1>3, <1>4, <1>7
  <2> QED BY <2>1, <2>2, AgreeSlice
<1>13. Slice(g, 0, 4) = BitsOf(6, 4)
  <2>1. Slice(g, 0, 4) = Slice(sized, 0, 4)
    BY <1>11
  <2>2. Slice(sized, 0, 4) = Slice(joined, 0, 4)
    BY <1>12
  <2> QED BY <1>1, <2>1, <2>2
<1>14. NextHeader(g) = proto
  <2>1. Slice(g, 48, 8) = Slice(sized, 48, 8)
    BY <1>11
  <2>2. Slice(sized, 48, 8) = Slice(joined, 48, 8)
    BY <1>12
  <2> QED BY <1>1, <2>1, <2>2 DEF NextHeader
<1>15. Slice(g, 64, 128) = Slice(sized, 64, 128) /\ Slice(g, 192, 128) = Slice(sized, 192, 128)
  BY <1>11
<1>16. IsHead(g, proto)
  BY <1>11, <1>13, <1>14 DEF IsHead
<1>17. IsLaidOut(Amended(store, joined), outer, g, proto, upper)
  BY <1>2, <1>15, <1>16 DEF IsLaidOut, sum
<1>18. Len(upper) >= SumOffset(proto) + 16
  BY <1>10
<1>19. IsAssembled(Amended(store, joined), outer, g, proto, upper)
  BY <1>10, <1>17, <1>18 DEF IsAssembled
<1> QED BY <1>19 DEF outer, joined

(* The packet of an assembled store with something behind it.              *)
HasBehind(packet, suffix, h, proto, u) ==
  /\ u \in Bits /\ Len(u) >= SumOffset(proto) + 16
  /\ packet \o suffix = h \o u

LEMMA WithBehind ==
  ASSUME NEW packet, NEW given, NEW h, NEW proto, NEW upper,
         IsAssembled(packet, given, h, proto, upper), NEW suffix \in Bits
  PROVE  \E u : HasBehind(packet, suffix, h, proto, u)
<1> DEFINE s == Slice(h, 64, 128)
           d == Slice(h, 192, 128)
           x == Summed(s, d, proto, upper)
           t == IF Has(given, SumField(proto)) THEN upper ELSE x
           u == t \o suffix
<1>1. /\ proto \in {UDP, ICMPv6} /\ upper \in Bits /\ Len(upper) >= SumOffset(proto) + 16
      /\ IsHead(h, proto) /\ packet = h \o t
  BY DEF IsAssembled, IsLaidOut
<1>2. proto \in Nat
  BY <1>1, Offsets
<1>3. h \in Bits /\ s \in Bits /\ d \in Bits
  BY <1>1, HeadParts, WideBits
<1> HIDE DEF s, d
<1>4. x \in Bits /\ Len(x) = Len(upper)
  BY <1>1, <1>2, <1>3, SummedType
<1> HIDE DEF x
<1>5. t \in Bits /\ Len(t) = Len(upper)
  BY <1>1, <1>4
<1> HIDE DEF t
<1>6. u \in Bits /\ Len(u) = Len(t) + Len(suffix)
  BY <1>5, Joined
<1>7. Len(u) >= SumOffset(proto) + 16
  <2>1. Len(suffix) \in Nat /\ Len(t) \in Nat /\ SumOffset(proto) + 16 \in Nat
    BY <1>1, <1>5, LenNat, Offsets
  <2> QED BY <1>1, <1>5, <1>6, <2>1
<1>8. packet \o suffix = h \o u
  <2>1. (h \o t) \o suffix = h \o (t \o suffix)
    <3>1. h \in Bits /\ t \in Bits /\ suffix \in Bits
      BY <1>3, <1>5
    <3> QED BY <3>1, JoinedTwice, SMTT(20)
  <2> QED BY <1>1, <2>1
<1> QED BY <1>6, <1>7, <1>8 DEF HasBehind

(* An assembled packet that is handed over has the checksum it needs.      *)
LEMMA SumOfAssembled ==
  ASSUME NEW packet, NEW given, NEW h, NEW proto, NEW upper,
         IsAssembled(packet, given, h, proto, upper), ValidLengths(packet),
         ~Has(given, SumField(NextHeader(packet)))
  PROVE  SegmentSum(packet) = AllOnes
<1> DEFINE s == Slice(h, 64, 128)
           d == Slice(h, 192, 128)
           t == Summed(s, d, proto, upper)
<1>1. /\ proto \in {UDP, ICMPv6} /\ upper \in Bits /\ Len(upper) >= SumOffset(proto) + 16
      /\ IsHead(h, proto)
  BY DEF IsAssembled, IsLaidOut
<1>2. packet = h \o (IF Has(given, SumField(proto)) THEN upper ELSE t)
  BY DEF IsAssembled, IsLaidOut
<1>3. proto \in Nat /\ proto < 256
  BY <1>1, Offsets
<1>4. s \in Bits /\ d \in Bits
  BY <1>1, HeadParts, WideBits
<1>5. t = Summed(Slice(h, 64, 128), Slice(h, 192, 128), proto, upper)
  OBVIOUS
<1> HIDE DEF s, d
<1>6. t \in Bits
  BY <1>1, <1>3, <1>4, SummedType
<1> HIDE DEF t
<1>7. CASE Has(given, SumField(proto))
  <2>1. packet = h \o upper
    BY <1>2, <1>7
  <2>2. NextHeader(h \o upper) = proto
    BY <1>1, PacketParts
  <2> QED BY <1>7, <2>1, <2>2
<1>8. CASE ~Has(given, SumField(proto))
  <2>1. packet = h \o t
    BY <1>2, <1>8
  <2>2. ValidLengths(h \o t)
    BY <2>1
  <2>3. SegmentSum(h \o t) = AllOnes
    BY <1>1, <1>3, <1>5, <2>2, SegmentVerifies
  <2> QED BY <2>1, <2>3
<1> QED BY <1>7, <1>8

(* The outcome of a reconstruction: unless the outer fields of the store   *)
(* give the checksum, it verifies.                                         *)
HasSum(outcome, store) ==
  outcome.ok /\ ~Has(In(store, "outer"), SumField(NextHeader(outcome.value))) =>
    SegmentSum(outcome.value) = AllOnes

LEMMA OutcomeKinds ==
  /\ \A v : Ok(v).ok /\ Ok(v).value = v
  /\ \A e : ~Err(e).ok
BY DEF Ok, Err

(* Both ways of reconstruction do that.                                    *)
LEMMA RebuiltSum ==
  ASSUME NEW store \in Seq(KeptFields), NEW dir
  PROVE  HasSum(Reconstruct(dir, store), store)
<1> DEFINE packet == Assemble(dir, store)
           given == In(store, "outer")
<1>1. CASE Complete(dir, store) /\ ValidLengths(packet)
  <2>1. Reconstruct(dir, store) = Ok(packet)
    BY <1>1 DEF Reconstruct
  <2>2. PICK h, proto, upper : IsAssembled(packet, given, h, proto, upper)
    BY <1>1, Assembled
  <2> HIDE DEF packet, given
  <2>3. ~Has(given, SumField(NextHeader(packet))) => SegmentSum(packet) = AllOnes
    BY <1>1, <2>2, SumOfAssembled
  <2> QED BY <2>1, <2>3, OutcomeKinds DEF HasSum, given
<1>2. CASE ~(Complete(dir, store) /\ ValidLengths(packet))
  <2>1. \E e : Reconstruct(dir, store) = Err(e)
    BY <1>2 DEF Reconstruct
  <2> QED BY <2>1, OutcomeKinds DEF HasSum
<1> QED BY <1>1, <1>2

LEMMA ResumedSum ==
  ASSUME NEW store \in Seq(KeptFields), NEW dir, NEW suffix \in Bits
  PROVE  HasSum(ReconstructWithSuffix(dir, store, suffix), store)
<1> DEFINE carried == [field |-> Payload, number |-> 0, index |-> 0,
                       scope |-> "outer", value |-> suffix]
           injects == HeaderOnlyError(store)
           full == IF injects THEN Append(store, carried) ELSE store
           rest == IF injects THEN <<>> ELSE suffix
           body == Assemble(dir, full)
           packet == Amended(store, body \o rest)
           result == ReconstructWithSuffix(dir, store, suffix)
<1>1. full \in Seq(KeptFields)
  <2>1. carried \in KeptFields
    BY DEF KeptFields
  <2> HIDE DEF carried, injects
  <2>2. Append(store, carried) \in Seq(KeptFields)
    BY <2>1
  <2> QED BY <2>2
<1>2. rest \in Bits
  BY NothingBits
<1>3. \/ result = Ok(packet) /\ Complete(dir, full) /\ Parses(store, packet)
      \/ \E e : result = Err(e)
  <2> HIDE DEF packet, full
  <2> QED BY Zenon DEF ReconstructWithSuffix, packet, full
<1> HIDE DEF full, rest, result
<1>4. CASE result = Ok(packet) /\ Complete(dir, full) /\ Parses(store, packet)
  <2>1. PICK h, proto, upper : IsAssembled(body, In(full, "outer"), h, proto, upper)
    BY <1>1, <1>4, Assembled
  <2> HIDE DEF body
  <2>2. PICK u : HasBehind(body, rest, h, proto, u)
    BY <1>2, <2>1, WithBehind
  <2>3. IsHead(h, proto) /\ proto \in {UDP, ICMPv6}
    BY <2>1 DEF IsAssembled, IsLaidOut
  <2>4. PICK g, more : IsAssembled(Amended(store, h \o u), In(store, "outer"), g, proto, more)
    BY <2>2, <2>3, Amending DEF HasBehind
  <2>5. IsAssembled(packet, In(store, "outer"), g, proto, more)
    BY <2>2, <2>4 DEF HasBehind
  <2>6. ValidLengths(packet)
    BY <1>4 DEF Parses
  <2> HIDE DEF packet
  <2> DEFINE given == In(store, "outer")
  <2> HIDE DEF given
  <2>7. IsAssembled(packet, given, g, proto, more)
    BY <2>5 DEF given
  <2>8. ~Has(given, SumField(NextHeader(packet))) => SegmentSum(packet) = AllOnes
    BY <2>6, <2>7, SumOfAssembled
  <2>9. HasSum(Ok(packet), store)
    BY <2>8, OutcomeKinds DEF HasSum, given
  <2> QED BY <1>4, <2>9 DEF result
<1>5. CASE \E e : result = Err(e)
  BY <1>5, OutcomeKinds DEF HasSum, result
<1> HIDE DEF packet
<1> QED BY <1>3, <1>4, <1>5

-----------------------------------------------------------------------------
(* What an attempt has decoded comes from entries of its rule that it did  *)
(* not pass over.                                                          *)
Gives(i, k, f) ==
  LET entry == rules[i].entries[k]
  IN ~Skipped(entry) /\ entry.field = f.field /\ ReceiverPosition(entry, f.scope)

Give(i, n, store) ==
  \A l \in 1..Len(store) : \E k \in 1..(n - 1) : Gives(i, k, store[l])

Origins == Give(selected, next, fields)

(* ComputedChecksumVerifies, for what one rule restores.                   *)
Verifies(i, packet) ==
  LeavesChecksum(rules[i], NextHeader(packet)) => SegmentSum(packet) = AllOnes

SumInv == Inv /\ Origins /\ ComputedChecksumVerifies

(* Rules and direction do not change.                                      *)
LEMMA SameEntries ==
  ASSUME UNCHANGED context
  PROVE  /\ \A i, packet : Verifies(i, packet)' <=> Verifies(i, packet)
         /\ \A i, n, store : Give(i, n, store)' <=> Give(i, n, store)
<1>1. rules' = rules /\ direction' = direction
  BY DEF context
<1>2. \A entry : Skipped(entry)' <=> Skipped(entry)
  BY <1>1 DEF Skipped
<1>3. \A i, k, f : Gives(i, k, f)' <=> Gives(i, k, f)
  BY <1>1, <1>2 DEF Gives
<1>4. \A rule, upper : LeavesChecksum(rule, upper)' <=> LeavesChecksum(rule, upper)
  BY <1>1 DEF LeavesChecksum
<1>5. \A i, packet : Verifies(i, packet)' <=> Verifies(i, packet)
  BY <1>1, <1>4 DEF Verifies
<1>6. \A i, n, store : Give(i, n, store)' <=> Give(i, n, store)
  BY <1>3 DEF Give
<1> QED BY <1>5, <1>6

(* As long as nothing more succeeds.                                       *)
LEMMA SumsKept ==
  ASSUME ComputedChecksumVerifies, UNCHANGED context, successes' = successes
  PROVE  ComputedChecksumVerifies'
<1>1. \A k \in 1..Len(successes) : Verifies(successes[k].rule, successes[k].packet)
  BY DEF ComputedChecksumVerifies, Verifies
<1>2. \A k \in 1..Len(successes') : Verifies(successes[k].rule, successes[k].packet)'
  <2> TAKE k \in 1..Len(successes')
  <2>1. PICK i, packet : i = successes[k].rule /\ packet = successes[k].packet
    OBVIOUS
  <2>2. Verifies(i, packet)'
    BY <1>1, <2>1, SameEntries
  <2>3. i = successes'[k].rule /\ packet = successes'[k].packet
    BY <2>1
  <2> QED BY <2>2, <2>3
<1> QED BY <1>2 DEF ComputedChecksumVerifies, Verifies

LEMMA OriginsKept ==
  ASSUME Origins, UNCHANGED context, UNCHANGED <<selected, next, fields>>
  PROVE  Origins'
<1>1. PICK i, n, store : i = selected /\ n = next /\ store = fields
  OBVIOUS
<1>2. Give(i, n, store)'
  BY <1>1, SameEntries DEF Origins
<1>3. i = selected' /\ n = next' /\ store = fields'
  BY <1>1
<1> QED BY <1>2, <1>3 DEF Origins

(* An attempt that ends.                                                   *)
LEMMA NoFields ==
  ASSUME NextAttempt
  PROVE  Origins'
BY DEF NextAttempt, Origins, Give

(* An attempt ends with an outcome that verifies, or none.                 *)
LEMMA YieldVerifies ==
  ASSUME Inv, Inv', ComputedChecksumVerifies, UNCHANGED context, NEW i, NEW outcome,
         outcome.ok => Verifies(i, outcome.value), AttemptYields(i, outcome)
  PROVE  Origins' /\ ComputedChecksumVerifies'
<1>1. CASE AttemptFails(outcome.error)
  BY <1>1, NoFields, SumsKept DEF AttemptFails
<1>2. CASE outcome.ok /\ AttemptSucceeds(i, outcome.value)
  <2>1. Origins'
    BY <1>2, NoFields DEF AttemptSucceeds
  <2>2. PICK s : s = [bits |-> Len(Wire), rule |-> i, packet |-> outcome.value]
    OBVIOUS
  <2>3. successes' = Append(successes, s)
    BY <1>2, <2>2 DEF AttemptSucceeds
  <2>4. successes' = <<s>>
    <3>1. CASE successes = <<>>
      BY <2>3, <3>1
    <3>2. ASSUME NEW t, successes = <<t>> PROVE FALSE
      <4>1. Len(successes') = 2
        BY <2>3, <3>2
      <4>2. Len(successes') <= 1
        <5>1. successes' = <<>> \/ \E u : successes' = <<u>>
          BY DEF Inv, OneSuccess
        <5>2. Len(<<>>) <= 1 /\ \A u : Len(<<u>>) <= 1
          OBVIOUS
        <5> QED BY <5>1, <5>2, Zenon
      <4> QED BY <4>1, <4>2
    <3> QED BY <3>1, <3>2 DEF Inv, OneSuccess
  <2>5. ASSUME NEW k \in 1..Len(successes')
        PROVE  Verifies(successes[k].rule, successes[k].packet)'
    <3>1. k = 1 /\ successes'[k] = s
      BY <2>4
    <3>2. PICK j, packet : j = s.rule /\ packet = s.packet
      OBVIOUS
    <3>3. Verifies(j, packet)'
      BY <1>2, <2>2, <3>2, SameEntries
    <3>4. j = successes'[k].rule /\ packet = successes'[k].packet
      BY <3>1, <3>2
    <3> QED BY <3>3, <3>4
  <2> QED BY <2>1, <2>5 DEF ComputedChecksumVerifies, Verifies
<1> QED BY <1>1, <1>2 DEF AttemptYields

(* A rule that leaves the checksum to the receiver has not given it.       *)
LEMMA GivesNone ==
  ASSUME Inv, Origins, stage = "fields", NEW proto, LeavesChecksum(rules[selected], proto)
  PROVE  ~Has(In(fields, "outer"), SumField(proto))
<1> SUFFICES ASSUME Has(In(fields, "outer"), SumField(proto)) PROVE FALSE
  OBVIOUS
<1>1. fields \in Seq(KeptFields) /\ next \in 1..(Len(rules[selected].entries) + 1)
  BY StoredKept DEF Inv, Attempt
<1>2. PICK l \in 1..Len(fields) : fields[l].field = SumField(proto) /\ fields[l].scope = "outer"
  BY <1>1, PartOfStore
<1>3. PICK k \in 1..(next - 1) : Gives(selected, k, fields[l])
  BY DEF Origins, Give
<1>4. k \in 1..Len(rules[selected].entries)
  <2>1. Len(rules[selected].entries) \in Nat
    BY SelectedRule
  <2> QED BY <1>1, <2>1
<1> DEFINE entry == rules[selected].entries[k]
<1>5. /\ ~Skipped(entry) /\ entry.field = SumField(proto)
      /\ ReceiverPosition(entry, "outer")
  BY <1>2, <1>3 DEF Gives
<1>6. entry.position < 2
  BY <1>5 DEF ReceiverPosition, SumField, Option
<1>7. entry.action = "compute" \/ ~Accepts(entry, direction)
  BY <1>4, <1>5, <1>6 DEF LeavesChecksum
<1> QED BY <1>5, <1>7 DEF Skipped

(* One lemma per action.                                                   *)
LEMMA SelectVerifies == SumInv /\ Inv' /\ Select => SumInv'
<1> SUFFICES ASSUME SumInv, Inv', Select PROVE Origins' /\ ComputedChecksumVerifies'
  BY DEF SumInv
<1> DEFINE i == SelectRule(Wire)
           rest == From(Wire, rules[i].id.len)
<1>1. stage = "select" /\ UNCHANGED context /\ Inv /\ ComputedChecksumVerifies
  BY DEF Select, SumInv
<1>2. ASSUME NEW e, AttemptFails(e) PROVE Origins' /\ ComputedChecksumVerifies'
  BY <1>1, <1>2, NoFields, SumsKept DEF AttemptFails
<1>3. CASE WrapsPacket(rules[i]) /\ AttemptYields(i, RestAsPacket(rest))
  <2> DEFINE outcome == RestAsPacket(rest)
  <2>1. Verifies(i, outcome.value)
    BY <1>3 DEF Verifies, LeavesChecksum
  <2> HIDE DEF outcome, i
  <2>2. AttemptYields(i, outcome)
    BY <1>3 DEF outcome
  <2> QED BY <1>1, <2>1, <2>2, YieldVerifies
<1>4. CASE UNCHANGED <<padding, next, fields, successes, firstError>>
  <2>1. fields = <<>>
    BY <1>1 DEF Inv, Attempt
  <2> QED BY <1>1, <1>4, <2>1, SumsKept DEF Origins, Give
<1> HIDE DEF i, rest
<1> QED BY <1>2, <1>3, <1>4 DEF Select, i, rest

LEMMA DecodeVerifies == SumInv /\ Inv' /\ DecodeEntry => SumInv'
<1> SUFFICES ASSUME SumInv, Inv', DecodeEntry PROVE Origins' /\ ComputedChecksumVerifies'
  BY DEF SumInv
<1> DEFINE entry == rules[selected].entries[next]
           outcome == Decoded(entry, Wire, pos, fields)
<1>1. /\ stage = "fields" /\ UNCHANGED context
      /\ Inv /\ Origins /\ ComputedChecksumVerifies
  BY DEF DecodeEntry, SumInv
<1>2. fields \in Seq(StoredFields) /\ next \in Nat \ {0}
  BY <1>1 DEF Inv, Attempt
<1>3. ASSUME AttemptFails(outcome.error) PROVE Origins' /\ ComputedChecksumVerifies'
  BY <1>1, <1>3, NoFields, SumsKept DEF AttemptFails
<1>4. ASSUME NEW n, NEW store, Give(selected, n, store),
             next' = n, fields' = store, selected' = selected
      PROVE  Origins'
  <2>1. PICK i : i = selected
    OBVIOUS
  <2>2. Give(i, n, store)'
    BY <1>1, <1>4, <2>1, SameEntries
  <2>3. i = selected' /\ n = next' /\ store = fields'
    BY <1>4, <2>1
  <2> QED BY <2>2, <2>3 DEF Origins
<1>5. ASSUME NEW l \in 1..Len(fields)
      PROVE  \E k \in 1..((next + 1) - 1) : Gives(selected, k, fields[l])
  <2>1. PICK k \in 1..(next - 1) : Gives(selected, k, fields[l])
    BY <1>1 DEF Origins, Give
  <2>2. k \in 1..((next + 1) - 1)
    BY <1>2
  <2> QED BY <2>1, <2>2
<1>6. CASE next' = next + 1 /\ UNCHANGED <<selected, fields, successes>>
  <2>1. Give(selected, next + 1, fields)
    BY <1>5 DEF Give
  <2> QED BY <1>1, <1>4, <1>6, <2>1, SumsKept
<1>7. CASE /\ ~Skipped(entry) /\ outcome.ok
           /\ fields' = Append(fields, outcome.value.field)
           /\ next' = next + 1 /\ UNCHANGED <<selected, successes>>
  <2> DEFINE f == outcome.value.field
             store == Append(fields, f)
  <2>1. entry.field = f.field /\ ReceiverPosition(entry, f.scope)
    <3> DEFINE scope == ReceiverScope(entry, fields)
               decoded == DecodeField(entry, Wire, pos, fields)
               field == [field |-> entry.field, number |-> entry.number,
                         index |-> entry.index, scope |-> scope.value,
                         value |-> decoded.value.value]
    <3>1. scope.ok
      <4>1. ~scope.ok => outcome = scope
        BY DEF Decoded
      <4> HIDE DEF outcome, scope
      <4> QED BY <1>7, <4>1
    <3>2. /\ ReceiverPosition(entry, scope.value)
          /\ outcome = Ok([pos |-> decoded.value.pos, field |-> field])
      <4> HIDE DEF entry
      <4> QED BY <1>7, <3>1, OutcomeKinds DEF Decoded
    <3>3. f = field
      <4> DEFINE v == [pos |-> decoded.value.pos, field |-> field]
      <4>1. outcome.value = v
        BY <3>2, OutcomeKinds
      <4>2. v.field = field
        OBVIOUS
      <4> HIDE DEF v, outcome, field
      <4> QED BY <4>1, <4>2
    <3>4. field.field = entry.field /\ field.scope = scope.value
      OBVIOUS
    <3> HIDE DEF f, field, scope, entry
    <3> QED BY <3>2, <3>3, <3>4
  <2>2. Gives(selected, next, f)
    BY <1>7, <2>1 DEF Gives
  <2>3. ASSUME NEW l \in 1..Len(store)
        PROVE  \E k \in 1..((next + 1) - 1) : Gives(selected, k, store[l])
    <3> HIDE DEF f
    <3>1. CASE l \in 1..Len(fields)
      <4>1. store[l] = fields[l]
        BY <1>2, <3>1
      <4> QED BY <1>5, <3>1, <4>1
    <3>2. CASE l = Len(fields) + 1
      <4>1. store[l] = f
        BY <1>2, <3>2
      <4>2. next \in 1..((next + 1) - 1)
        BY <1>2
      <4> QED BY <2>2, <4>1, <4>2
    <3> QED BY <1>2, <3>1, <3>2
  <2> HIDE DEF f, store
  <2>4. Give(selected, next + 1, store)
    BY <2>3 DEF Give
  <2>5. fields' = store
    BY <1>7 DEF f, store
  <2>6. Origins'
    BY <1>4, <1>7, <2>4, <2>5
  <2> QED BY <1>1, <1>7, <2>6, SumsKept
<1> HIDE DEF entry, outcome
<1> QED BY <1>3, <1>6, <1>7 DEF DecodeEntry, entry, outcome

LEMMA FinishVerifies == SumInv /\ Inv' /\ Finish => SumInv'
<1> SUFFICES ASSUME SumInv, Inv', Finish PROVE Origins' /\ ComputedChecksumVerifies'
  BY DEF SumInv
<1> DEFINE left == Len(Wire) - pos
           carries == \A f \in PayloadFields : ~Has(fields, f)
           rest == From(Wire, pos)
           whole == Reconstruct(direction, fields)
           joined == ReconstructWithSuffix(direction, fields, rest)
           outcome == IF left = 0 THEN whole
                      ELSE IF left < 8 \/ ~carries \/ left % 8 # 0
                           THEN Err("InvalidResidue")
                      ELSE joined
<1>1. /\ stage = "fields" /\ UNCHANGED context
      /\ AttemptYields(selected, outcome)
      /\ Inv /\ Origins /\ ComputedChecksumVerifies
  BY DEF Finish, Remaining, SumInv
<1>2. fields \in Seq(KeptFields) /\ padding <= LastPadding /\ Reaches(Wire, pos)
  BY <1>1, StoredKept DEF Inv, Attempt
<1>3. rest \in Bits
  <2>1. Wire \in Bits
    BY <1>1, <1>2, WireFacts DEF Inv
  <2> QED BY <1>2, <2>1, FromType DEF Reaches
<1> HIDE DEF rest
<1>4. HasSum(whole, fields) /\ HasSum(joined, fields)
  BY <1>2, <1>3, RebuiltSum, ResumedSum
<1>5. outcome.ok => outcome = whole \/ outcome = joined
  <2> HIDE DEF left, carries, whole, joined
  <2> QED BY OutcomeKinds
<1>6. outcome.ok => HasSum(outcome, fields)
  <2> HIDE DEF whole, joined, outcome
  <2> QED BY <1>4, <1>5
<1> HIDE DEF outcome
<1>7. outcome.ok => Verifies(selected, outcome.value)
  BY <1>1, <1>6, GivesNone DEF HasSum, Verifies
<1> QED BY <1>1, <1>7, YieldVerifies

(* A checksum that the rule leaves to the receiver verifies: the header    *)
(* and the upper layer of whatever is handed over sum up, with the pseudo- *)
(* header, to all ones, also where a payload was appended and the lengths  *)
(* were set again.                                                         *)
THEOREM ChecksumsVerify == DecompressSpec => []ComputedChecksumVerifies
<1>1. DecompressInit => Origins /\ ComputedChecksumVerifies
  BY DEF DecompressInit, Start, Origins, Give, ComputedChecksumVerifies
<1>2. Inv /\ Inv' /\ Origins /\ ComputedChecksumVerifies /\ [Decompress]_decompressVars
        => Origins' /\ ComputedChecksumVerifies'
  <2> SUFFICES ASSUME SumInv, Inv', [Decompress]_decompressVars
               PROVE  Origins' /\ ComputedChecksumVerifies'
    BY DEF SumInv
  <2>1. CASE SkipAttempt
    BY <2>1, NoFields, SumsKept DEF SkipAttempt, SumInv
  <2>2. CASE Answer
    <3>1. /\ UNCHANGED context /\ successes' = successes
          /\ UNCHANGED <<selected, next, fields>>
      BY <2>2 DEF Answer, attemptVars
    <3> QED BY <3>1, OriginsKept, SumsKept DEF SumInv
  <2>3. CASE UNCHANGED decompressVars
    <3>1. /\ UNCHANGED context /\ successes' = successes
          /\ UNCHANGED <<selected, next, fields>>
      BY <2>3 DEF decompressVars
    <3> QED BY <3>1, OriginsKept, SumsKept DEF SumInv
  <2> QED BY <2>1, <2>2, <2>3, SelectVerifies, DecodeVerifies, FinishVerifies
      DEF Decompress, SumInv
<1> QED BY <1>1, <1>2, DecompressInvariant, PTL DEF DecompressSpec
=============================================================================
