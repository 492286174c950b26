--------------------------- MODULE FieldCodecProofs --------------------------
(***************************************************************************)
(* Proofs about FieldCodec, for every entry the loader accepts, every      *)
(* value, everything that came before the field and everything that        *)
(* follows it: a field takes from the datagram the bits that were written  *)
(* for it, comes back as it was where the entry allows, and is not decoded *)
(* from a part of its bits.                                                *)
(***************************************************************************)
EXTENDS FieldCodec, SchcFieldProofs

(* What it takes for a field to be sent.                                   *)
Known(e, v, st) == IF Variable(e) THEN Ok(Len(v)) ELSE Resolve(e.length, st)

LEMMA SentMeans ==
  ASSUME NEW e, NEW v, NEW st, EncodeField(e, v, st).kind = "sent"
  PROVE  LET match == Matches(e, v)
             written == WriteResidue(e, v, match.value.index)
         IN /\ Known(e, v, st).ok /\ Known(e, v, st).value = Len(v)
            /\ match.ok /\ match.value.matched
            /\ written.ok
            /\ EncodeField(e, v, st).bits = written.value
<1> DEFINE match == Matches(e, v)
           written == WriteResidue(e, v, match.value.index)
           known == Known(e, v, st)
<1>1. EncodeField(e, v, st) =
        IF ~known.ok THEN Failed(known.error)
        ELSE IF known.value # Len(v) THEN Refused
        ELSE IF ~match.ok THEN Failed(match.error)
        ELSE IF ~match.value.matched THEN Refused
        ELSE IF ~written.ok THEN Failed(written.error)
        ELSE Sent(written.value)
  BY DEF EncodeField, Known
<1>2. /\ Refused.kind # "sent" /\ \A x : Failed(x).kind # "sent"
      /\ \A b : Sent(b).bits = b
  BY DEF Refused, Failed, Sent
<1> HIDE DEF match, written, known
<1>3. /\ known.ok /\ known.value = Len(v) /\ match.ok /\ match.value.matched
      /\ written.ok
  BY <1>1, <1>2
<1>4. EncodeField(e, v, st).bits = written.value
  BY <1>1, <1>2, <1>3
<1> QED BY <1>3, <1>4 DEF match, written, known

(* The decoder learns the width of a field sent by value or by its low     *)
(* bits from the prefix the compressor wrote, or from the rule.            *)
WidthBack(e, v, st, p) ==
  /\ p \in Bits
  /\ \A w \in Bits : StandsIn(w, 0, p) =>
       DecodeLength(e, w, 0, st) = Ok([n |-> Len(v), pos |-> Len(p)])

LEMMA WidthDecoded ==
  ASSUME NEW e, Decodable(e), e.action \in {"value-sent", "lsb"},
         NEW v \in Bits, NEW st, Known(e, v, st).ok, Known(e, v, st).value = Len(v),
         LengthPrefix(e, v).ok
  PROVE  WidthBack(e, v, st, LengthPrefix(e, v).value)
<1> DEFINE p == LengthPrefix(e, v).value
           k == Len(v)
<1>0. k \in Nat
  BY DEF Bits
<1>1. ASSUME NEW n \in Nat, NEW unit \in {1, 8}, unit * n = k, Variable(e),
             unit = (IF e.length.kind = "bytes" THEN 8 ELSE 1),
             LengthPrefix(e, v) = WritePrefix(n)
      PROVE  WidthBack(e, v, st, p)
  <2>1. Announced(n, p)
    BY <1>1, PrefixReadBack
  <2> HIDE DEF p
  <2>2. p \in Bits
    BY <2>1 DEF Announced
  <2>3. ASSUME NEW w \in Bits, StandsIn(w, 0, p)
        PROVE  DecodeLength(e, w, 0, st) = Ok([n |-> k, pos |-> Len(p)])
    <3> DEFINE q == Len(p)
               r == ReadPrefix(w, 0)
    <3>1. q \in Nat /\ 0 + q = q
      BY <2>2 DEF Bits
    <3>2. r = Ok([n |-> n, pos |-> 0 + q])
      BY <2>1, <2>3 DEF Announced
    <3> HIDE DEF q, k
    <3>3. r.ok /\ r.value = [n |-> n, pos |-> q]
      BY <3>1, <3>2, Outcomes
    <3>4. DecodeLength(e, w, 0, st)
            = IF r.ok THEN Ok([r.value EXCEPT !.n = unit * @]) ELSE r
      BY <1>1 DEF DecodeLength
    <3> HIDE DEF r
    <3>5. [r.value EXCEPT !.n = unit * @] = [n |-> k, pos |-> q]
      BY <3>3, <1>1
    <3> QED BY <3>3, <3>4, <3>5 DEF q
  <2> QED BY <2>2, <2>3 DEF WidthBack
<1>2. CASE e.length.kind = "bytes"
  <2>1. LengthPrefix(e, v) = WritePrefix(k \div 8) /\ k % 8 = 0
    BY <1>2 DEF LengthPrefix, Err
  <2> HIDE DEF k, p
  <2>2. k \div 8 \in Nat /\ 8 * (k \div 8) = k
    BY <1>0, <2>1
  <2>3. Variable(e)
    BY <1>2 DEF Variable
  <2>4. 8 = (IF e.length.kind = "bytes" THEN 8 ELSE 1)
    BY <1>2
  <2>5. WidthBack(e, v, st, p)
    BY <1>1, <2>1, <2>2, <2>3, <2>4
  <2> QED BY <2>5 DEF p
<1>3. CASE e.length.kind = "bits"
  <2>1. LengthPrefix(e, v) = WritePrefix(k)
    BY <1>3 DEF LengthPrefix
  <2> HIDE DEF k, p
  <2>2. 1 * k = k
    BY <1>0
  <2>3. Variable(e)
    BY <1>3 DEF Variable
  <2>4. 1 = (IF e.length.kind = "bytes" THEN 8 ELSE 1)
    BY <1>3
  <2>5. WidthBack(e, v, st, p)
    BY <1>0, <1>1, <2>1, <2>2, <2>3, <2>4
  <2> QED BY <2>5 DEF p
<1>4. CASE e.length.kind \notin {"bytes", "bits"}
  <2>1. LengthPrefix(e, v) = Ok(<<>>)
    BY <1>4 DEF LengthPrefix
  <2>2. p = <<>>
    BY <2>1, Outcomes
  <2>3. p \in Bits /\ Len(p) = 0
    BY <2>2 DEF Bits
  <2>4. ~Variable(e) /\ Resolve(e.length, st).ok /\ Resolve(e.length, st).value = k
    BY <1>4 DEF Variable, Known
  <2> HIDE DEF k, p
  <2>5. ASSUME NEW w \in Bits PROVE DecodeLength(e, w, 0, st) = Ok([n |-> k, pos |-> 0])
    BY <2>4 DEF DecodeLength
  <2> QED BY <2>3, <2>5 DEF WidthBack, k, p
<1> QED BY <1>2, <1>3, <1>4

-----------------------------------------------------------------------------
(* What is written for a value is read back from any datagram that carries *)
(* it, at the position behind the bits that were written; and it is the    *)
(* value, where the entry is exact.                                        *)
ExactFor(e, v) ==
  \/ e.action \in {"value-sent", "lsb"}
  \/ /\ e.action = "not-sent"
     /\ e.matching.kind = "equal"
     /\ Variable(e) => Len(Target(e)) = Len(v)
  \/ /\ e.action = "mapping-sent"
     /\ \A i \in 1..Len(e.target.values) : Len(e.target.values[i]) = Len(v)
  \/ /\ Supplied(e) /\ ~Variable(e)
     /\ Provider # NoProvider /\ v = Provider[e.field]

ReadsBack(e, v, st, r) ==
  /\ r \in Bits
  /\ \A w \in Bits : StandsIn(w, 0, r) =>
       LET length == DecodeLength(e, w, 0, st)
           read == DecodeValue(e, length.value.n, w, length.value.pos)
       IN /\ length.ok /\ read.ok => read.value.pos = Len(r)
          /\ ExactFor(e, v) => /\ length.ok /\ read.ok
                               /\ read.value.value = v /\ read.value.pos = Len(r)

(* A value sent as it is.                                                  *)
LEMMA ValueSentBack ==
  ASSUME NEW e, Decodable(e), e.action = "value-sent",
         NEW v \in Bits, NEW st, EncodeField(e, v, st).kind = "sent"
  PROVE  ReadsBack(e, v, st, EncodeField(e, v, st).bits)
<1> DEFINE p == LengthPrefix(e, v).value
           r == EncodeField(e, v, st).bits
<1>1. /\ Known(e, v, st).ok /\ Known(e, v, st).value = Len(v)
      /\ WriteResidue(e, v, Matches(e, v).value.index).ok
      /\ r = WriteResidue(e, v, Matches(e, v).value.index).value
  BY SentMeans
<1>2. \A i : WriteResidue(e, v, i) = IF LengthPrefix(e, v).ok THEN Ok(p \o v)
                                    ELSE LengthPrefix(e, v)
  BY DEF WriteResidue
<1> HIDE DEF r
<1>3. LengthPrefix(e, v).ok
  BY <1>1, <1>2
<1>4. r = p \o v
  <2> HIDE DEF p
  <2> QED BY <1>1, <1>2, <1>3, Outcomes
<1>5. WidthBack(e, v, st, p)
  BY <1>1, <1>3, WidthDecoded
<1> HIDE DEF p
<1>6. p \in Bits
  BY <1>5 DEF WidthBack
<1>7. r \in Bits /\ Len(r) = Len(p) + Len(v)
  BY <1>4, <1>6, ConcatBits
<1>8. ASSUME NEW w \in Bits, StandsIn(w, 0, r)
      PROVE  LET length == DecodeLength(e, w, 0, st)
                 read == DecodeValue(e, length.value.n, w, length.value.pos)
             IN length.ok /\ read.ok /\ read.value.value = v /\ read.value.pos = Len(r)
  <2> DEFINE k == Len(v)
             q == Len(p)
  <2>1. k \in Nat /\ q \in Nat /\ 0 + q = q
    BY <1>6 DEF Bits
  <2>2. StandsIn(w, 0, p) /\ StandsIn(w, 0 + q, v)
    BY <1>4, <1>6, <1>8, CarriesBoth
  <2>3. DecodeLength(e, w, 0, st) = Ok([n |-> k, pos |-> q])
    BY <1>5, <2>2 DEF WidthBack
  <2>4. Read(w, q, k) = Ok([bits |-> v, pos |-> q + k])
    BY <2>1, <2>2, CarriesRead
  <2>5. q + k = Len(r)
    BY <1>7
  <2> HIDE DEF k, q
  <2>6. DecodeValue(e, k, w, q) = Ok([value |-> v, pos |-> q + k])
    <3>1. DecodeValue(e, k, w, q) =
            IF Read(w, q, k).ok
            THEN Ok([value |-> Read(w, q, k).value.bits, pos |-> Read(w, q, k).value.pos])
            ELSE Read(w, q, k)
      BY DEF DecodeValue
    <3>2. /\ Read(w, q, k).ok /\ Read(w, q, k).value.bits = v
          /\ Read(w, q, k).value.pos = q + k
      BY <2>4 DEF Ok
    <3> QED BY <3>1, <3>2
  <2>7. DecodeLength(e, w, 0, st).ok /\ DecodeLength(e, w, 0, st).value.n = k
        /\ DecodeLength(e, w, 0, st).value.pos = q
    BY <2>3, Outcomes
  <2> QED BY <2>5, <2>6, <2>7, Outcomes
<1>9. ReadsBack(e, v, st, r)
  BY <1>7, <1>8 DEF ReadsBack
<1> QED BY <1>9 DEF r

LEMMA Beginning ==
  ASSUME NEW s \in Bits, NEW t \in Bits, NEW m \in Nat, m <= Len(s), Len(s) = Len(t),
         SubSeq(s, 1, m) = SubSeq(t, 1, m)
  PROVE  SubSeq(s, 1, m) \o From(t, m) = t
<1> DEFINE a == SubSeq(s, 1, m)
           b == From(t, m)
           k == Len(t)
<1>0. k \in Nat /\ m <= k
  BY DEF Bits
<1>1. a \in Bits /\ Len(a) = m /\ \A i \in 1..m : a[i] = t[i]
  <2>1. a \in Bits /\ Len(a) = m
    BY PrefixType
  <2>2. \A i \in 1..m : SubSeq(t, 1, m)[i] = t[i]
    BY <1>0, PrefixType
  <2> QED BY <2>1, <2>2
<1>2. b \in Bits /\ Len(b) = k - m /\ \A i \in 1..(k - m) : b[i] = t[m + i]
  BY <1>0, FromType
<1> HIDE DEF a, b
<1>3. /\ a \o b \in Bits /\ Len(a \o b) = Len(a) + Len(b)
      /\ \A i \in 1..Len(a) : (a \o b)[i] = a[i]
      /\ \A i \in 1..Len(b) : (a \o b)[Len(a) + i] = b[i]
  BY <1>1, <1>2, ConcatBits
<1> DEFINE c == a \o b
<1>4. /\ c \in Bits /\ Len(c) = m + (k - m)
      /\ \A i \in 1..m : c[i] = a[i]
      /\ \A i \in 1..(k - m) : c[m + i] = b[i]
  BY <1>1, <1>2, <1>3
<1> HIDE DEF c, k
<1>5. Len(c) = k
  BY <1>0, <1>4
<1>6. ASSUME NEW i \in 1..k PROVE c[i] = t[i]
  <2>1. CASE i <= m
    <3>1. i \in 1..m
      BY <2>1
    <3> QED BY <3>1, <1>1, <1>4
  <2>2. CASE i > m
    <3> DEFINE j == i - m
    <3>1. j \in 1..(k - m) /\ m + j = i
      BY <1>0, <2>2
    <3> HIDE DEF j
    <3>2. c[m + j] = b[j]
      BY <3>1, <1>4
    <3>3. b[j] = t[m + j]
      BY <3>1, <1>2 DEF k
    <3> QED BY <3>1, <3>2, <3>3
  <2> QED BY <2>1, <2>2
<1>7. c = t
  BY <1>4, <1>5, <1>6, SameBits DEF k
<1> QED BY <1>7 DEF c, a, b

(* The low bits of a value whose high bits are those of the target.        *)
LEMMA LowBitsBack ==
  ASSUME NEW e, Decodable(e), e.action = "lsb",
         NEW v \in Bits, NEW st, EncodeField(e, v, st).kind = "sent"
  PROVE  ReadsBack(e, v, st, EncodeField(e, v, st).bits)
<1> DEFINE p == LengthPrefix(e, v).value
           r == EncodeField(e, v, st).bits
           m == e.matching.n
           low == From(v, m)
           t == BytesAsValue(Target(e), Len(v))
<1>1. /\ Known(e, v, st).ok /\ Known(e, v, st).value = Len(v)
      /\ Matches(e, v).ok /\ Matches(e, v).value.matched
      /\ WriteResidue(e, v, Matches(e, v).value.index).ok
      /\ r = WriteResidue(e, v, Matches(e, v).value.index).value
  BY SentMeans
<1>2. \A i : WriteResidue(e, v, i) = IF LengthPrefix(e, v).ok THEN Ok(p \o low)
                                    ELSE LengthPrefix(e, v)
  BY DEF WriteResidue
<1> HIDE DEF r
<1>3. LengthPrefix(e, v).ok
  BY <1>1, <1>2
<1>4. r = p \o low
  <2> HIDE DEF p, low
  <2>1. \A i : WriteResidue(e, v, i) = Ok(p \o low)
    BY <1>2, <1>3
  <2>2. Ok(p \o low).value = p \o low
    BY Outcomes
  <2> QED BY <1>1, <2>1, <2>2
<1>5. WidthBack(e, v, st, p)
  BY <1>1, <1>3, WidthDecoded
<1> HIDE DEF p
<1>6. p \in Bits
  BY <1>5 DEF WidthBack
<1>7. ~(m > Len(v)) /\ t.ok /\ SubSeq(t.value, 1, m) = SubSeq(v, 1, m)
  <2>1. e.matching.kind = "msb"
    BY DEF Decodable, ValidEntry
  <2>2. Matches(e, v) = MatchMsb(e, v)
    BY <2>1 DEF Matches
  <2>3. MatchMsb(e, v) =
          IF m > Len(v) THEN Err("InvalidBitLength")
          ELSE IF ~t.ok THEN t
          ELSE IF SubSeq(t.value, 1, m) = SubSeq(v, 1, m) THEN Matched(0)
          ELSE Unmatched
    BY DEF MatchMsb
  <2>4. ~Unmatched.value.matched
    BY DEF Unmatched, Ok
  <2> HIDE DEF t, m
  <2>5. CASE m > Len(v)
    BY <1>1, <2>2, <2>3, <2>5, Outcomes
  <2>6. CASE ~(m > Len(v)) /\ ~t.ok
    BY <1>1, <2>2, <2>3, <2>6
  <2>7. CASE ~(m > Len(v)) /\ t.ok /\ SubSeq(t.value, 1, m) # SubSeq(v, 1, m)
    BY <1>1, <2>2, <2>3, <2>4, <2>7
  <2> QED BY <2>5, <2>6, <2>7
<1>8. m \in Nat /\ m <= Len(v) /\ Target(e) \in Bits /\ Len(v) \in Nat
  <2>1. m \in Nat /\ Target(e) \in Bits
    BY EntryFacts
  <2>2. Len(v) \in Nat
    BY DEF Bits
  <2> HIDE DEF m
  <2> QED BY <2>1, <2>2, <1>7
<1>9. low \in Bits /\ Len(low) = Len(v) - m
  <2> HIDE DEF m
  <2> QED BY <1>8, FromType
<1>10. t.value \in Bits /\ Len(t.value) = Len(v)
  BY <1>7, <1>8, ValueType
<1>11. SubSeq(t.value, 1, m) \o low = v
  <2> HIDE DEF t, m
  <2> QED BY <1>7, <1>8, <1>10, Beginning
<1> HIDE DEF low
<1>12. r \in Bits /\ Len(r) = Len(p) + Len(low)
  BY <1>4, <1>6, <1>9, ConcatBits
<1>13. ASSUME NEW w \in Bits, StandsIn(w, 0, r)
       PROVE  LET length == DecodeLength(e, w, 0, st)
                  read == DecodeValue(e, length.value.n, w, length.value.pos)
              IN length.ok /\ read.ok /\ read.value.value = v /\ read.value.pos = Len(r)
  <2> DEFINE k == Len(v)
             q == Len(p)
             x == Read(w, q, k - m)
  <2>1. k \in Nat /\ q \in Nat /\ 0 + q = q
    BY <1>6 DEF Bits
  <2>2. StandsIn(w, 0, p) /\ StandsIn(w, 0 + q, low)
    BY <1>4, <1>6, <1>9, <1>13, CarriesBoth
  <2>3. DecodeLength(e, w, 0, st) = Ok([n |-> k, pos |-> q])
    BY <1>5, <2>2 DEF WidthBack
  <2>4. x = Ok([bits |-> low, pos |-> q + (k - m)])
    <3> DEFINE y == Len(low)
    <3>1. Read(w, q, y) = Ok([bits |-> low, pos |-> q + y])
      <4> HIDE DEF k, m
      <4> QED BY <2>1, <2>2, <1>9, CarriesRead
    <3>2. y = k - m
      BY <1>9
    <3> HIDE DEF y, k, m
    <3> QED BY <3>1, <3>2
  <2>5. q + (k - m) = Len(r)
    BY <1>9, <1>12
  <2>6. DecodeValue(e, k, w, q) =
          IF m > k THEN Err("InvalidBitLength")
          ELSE IF ~t.ok THEN t
          ELSE IF ~x.ok THEN x
          ELSE Ok([value |-> SubSeq(t.value, 1, m) \o x.value.bits,
                   pos |-> x.value.pos])
    BY DEF DecodeValue, DecodeLsb
  <2>7. ~(m > k) /\ t.ok
    BY <1>7
  <2>8. x.ok /\ x.value.bits = low /\ x.value.pos = q + (k - m)
    <3> HIDE DEF x, k, q, m
    <3> QED BY <2>4 DEF Ok
  <2> HIDE DEF k, q, t, x, m
  <2>9. DecodeValue(e, k, w, q) = Ok([value |-> v, pos |-> q + (k - m)])
    BY <1>11, <2>6, <2>7, <2>8
  <2>10. DecodeLength(e, w, 0, st).ok /\ DecodeLength(e, w, 0, st).value.n = k
         /\ DecodeLength(e, w, 0, st).value.pos = q
    BY <2>3, Outcomes
  <2> QED BY <2>5, <2>9, <2>10, Outcomes
<1>14. ReadsBack(e, v, st, r)
  BY <1>12, <1>13 DEF ReadsBack
<1> QED BY <1>14 DEF r

(* The index of a mapping value.                                           *)
LEMMA IndexBack ==
  ASSUME NEW e, Decodable(e), e.action = "mapping-sent",
         NEW v \in Bits, NEW st, EncodeField(e, v, st).kind = "sent"
  PROVE  ReadsBack(e, v, st, EncodeField(e, v, st).bits)
<1> DEFINE values == e.target.values
           as(i) == BytesAsValue(values[i], Len(v))
           ends == {i \in 1..Len(values) : ~as(i).ok \/ as(i).value = v}
           index == Min(ends)
           b == IndexBits(Len(values))
           r == EncodeField(e, v, st).bits
           match == Matches(e, v)
           written == WriteResidue(e, v, match.value.index)
<1>1. /\ Known(e, v, st).ok /\ Known(e, v, st).value = Len(v)
      /\ match.ok /\ match.value.matched
      /\ written.ok
      /\ r = written.value
  BY SentMeans
<1> HIDE DEF r
<1>2. written = IF match.value.index = 0 THEN Err("InvalidResidue")
                ELSE Ok(BitsOf(match.value.index - 1, b))
  BY DEF WriteResidue
<1>3. match.value.index # 0
  <2> HIDE DEF match, written
  <2> QED BY <1>1, <1>2, Outcomes
<1>4. values \in Seq(Bits) /\ Len(values) \in Nat /\ e.matching.kind \in Operators
  BY EntryFacts DEF Decodable, FieldEntries
<1>5. ends # {} /\ as(index).ok /\ match = Matched(index)
  <2>0. \A i : Matched(i).value.index = i /\ Matched(i).ok
    BY DEF Matched, Ok
  <2>1. e.matching.kind = "mapping"
    <3>1. CASE e.matching.kind = "ignore"
      BY <1>3, <2>0, <3>1 DEF Matches
    <3>2. CASE e.matching.kind = "equal"
      <4> DEFINE t == BytesAsValue(Target(e), Len(v))
      <4>1. match = IF ~t.ok THEN t ELSE IF t.value = v THEN Matched(0) ELSE Unmatched
        BY <3>2 DEF Matches, MatchEqual
      <4>2. ~Unmatched.value.matched
        BY DEF Unmatched, Ok
      <4> HIDE DEF t, match
      <4> QED BY <1>1, <1>3, <2>0, <4>1, <4>2
    <3>3. CASE e.matching.kind = "msb"
      <4> DEFINE t == BytesAsValue(Target(e), Len(v))
                 n == e.matching.n
                 long == n > Len(v)
                 same == SubSeq(t.value, 1, n) = SubSeq(v, 1, n)
      <4>1. match = IF long THEN Err("InvalidBitLength")
                    ELSE IF ~t.ok THEN t ELSE IF same THEN Matched(0) ELSE Unmatched
        BY <3>3 DEF Matches, MatchMsb
      <4>2. ~Unmatched.value.matched
        BY DEF Unmatched, Ok
      <4> HIDE DEF t, match, long, same
      <4>3. CASE long
        BY <1>1, <4>1, <4>3, Outcomes
      <4>4. CASE ~long /\ ~t.ok
        BY <1>1, <4>1, <4>4
      <4>5. CASE ~long /\ t.ok
        BY <1>1, <1>3, <2>0, <4>1, <4>2, <4>5
      <4> QED BY <4>3, <4>4, <4>5
    <3> QED BY <1>4, <3>1, <3>2, <3>3 DEF Operators
  <2>2. match = IF ends = {} THEN Unmatched
                ELSE IF as(index).ok THEN Matched(index) ELSE as(index)
    BY <2>1 DEF Matches, MatchMapping
  <2>3. ~Unmatched.value.matched
    BY DEF Unmatched, Ok
  <2> HIDE DEF match, ends, as
  <2>4. ends # {}
    BY <1>1, <2>2, <2>3
  <2>5. as(index).ok
    BY <1>1, <2>2, <2>4
  <2> QED BY <2>2, <2>4, <2>5
<1>6. index \in 1..Len(values) /\ as(index).value = v
  <2>1. ends \subseteq 1..Len(values) /\ ends # {}
    BY <1>5
  <2>2. \A i \in ends : as(i).ok => as(i).value = v
    OBVIOUS
  <2> HIDE DEF ends, as
  <2>3. ends \subseteq Nat
    BY <1>4, <2>1
  <2>4. index \in ends
    BY <2>1, <2>3, FirstPosition
  <2> QED BY <1>5, <2>1, <2>2, <2>4
<1>7. match.value.index = index
  BY <1>5 DEF Matched, Ok
<1>8. r = BitsOf(index - 1, b)
  <2> HIDE DEF match, written, index, b
  <2> QED BY <1>1, <1>2, <1>3, <1>7, Outcomes
<1>9. b \in Nat /\ index - 1 \in Nat /\ Fits(index - 1, b)
  <2> HIDE DEF index, values
  <2> QED BY <1>4, <1>6, IndexFits
<1>10. r \in Bits /\ Len(r) = b
  <2> HIDE DEF index, b
  <2> QED BY <1>8, <1>9, BitsOfLen
<1>11. ASSUME \A i \in 1..Len(values) : Len(values[i]) = Len(v)
       PROVE  values[index] = v
  <2> HIDE DEF index
  <2>1. values[index] \in Bits /\ Len(values[index]) = Len(v)
    BY <1>4, <1>6, <1>11, ElementOfSeq
  <2> DEFINE x == values[index]
  <2>2. BytesAsValue(x, Len(x)) = Ok(x)
    <3> HIDE DEF x
    <3>1. x \in Bits
      BY <2>1 DEF x
    <3> QED BY <3>1, ValueOfOwnWidth
  <2>3. as(index) = Ok(x)
    BY <2>1, <2>2
  <2> HIDE DEF as
  <2>4. as(index).value = x
    BY <2>3, Outcomes
  <2> QED BY <2>4, <1>6
<1>12. ASSUME NEW w \in Bits, StandsIn(w, 0, r)
       PROVE  LET length == DecodeLength(e, w, 0, st)
                  read == DecodeValue(e, length.value.n, w, length.value.pos)
              IN length.ok /\ read.ok /\ read.value.value = values[index]
                 /\ read.value.pos = Len(r)
  <2> DEFINE k == DecodeLength(e, w, 0, st).value.n
             x == Read(w, 0, b)
  <2>1. DecodeLength(e, w, 0, st).ok /\ DecodeLength(e, w, 0, st).value.pos = 0
    <3>1. CASE Variable(e)
      <4>1. DecodeLength(e, w, 0, st) = Ok([n |-> 0, pos |-> 0])
        BY <3>1 DEF DecodeLength
      <4> QED BY <4>1, Outcomes
    <3>2. CASE ~Variable(e)
      <4> DEFINE known == Resolve(e.length, st)
      <4>1. known.ok
        BY <1>1, <3>2 DEF Known
      <4>2. DecodeLength(e, w, 0, st) = Ok([n |-> known.value, pos |-> 0])
        BY <3>2, <4>1 DEF DecodeLength
      <4> HIDE DEF known
      <4> QED BY <4>2, Outcomes
    <3> QED BY <3>1, <3>2
  <2>2. x.ok /\ x.value.pos = 0 + b /\ Number(x.value.bits) = index - 1
    <3> HIDE DEF index, b
    <3> QED BY <1>8, <1>9, <1>12, NumberRead
  <2> DEFINE at == Number(x.value.bits) + 1
  <2>3. DecodeValue(e, k, w, 0) =
          IF ~x.ok THEN x
          ELSE IF at > Len(values) THEN Err("InvalidResidue")
          ELSE Ok([value |-> values[at], pos |-> x.value.pos])
    BY DEF DecodeValue, DecodeMapping
  <2>4. at = index
    <3> HIDE DEF index, x
    <3> QED BY <1>6, <2>2
  <2>5. ~(at > Len(values))
    <3> HIDE DEF index, x, values, at
    <3> QED BY <1>4, <1>6, <2>4
  <2>6. 0 + b = Len(r)
    BY <1>9, <1>10
  <2> HIDE DEF x, at, values, index, b, k
  <2>7. DecodeValue(e, k, w, 0) = Ok([value |-> values[index], pos |-> Len(r)])
    BY <2>2, <2>3, <2>4, <2>5, <2>6
  <2> QED BY <2>1, <2>7, Outcomes DEF k
<1>13. ReadsBack(e, v, st, r)
  <2>1. ExactFor(e, v) => \A i \in 1..Len(values) : Len(values[i]) = Len(v)
    BY DEF ExactFor, Supplied
  <2> HIDE DEF values, index, r
  <2> QED BY <1>10, <1>11, <1>12, <2>1 DEF ReadsBack
<1> QED BY <1>13 DEF r

LEMMA NothingWritten ==
  ASSUME NEW e, e.action \in {"not-sent", "device-iid", "app-iid"},
         NEW v, NEW st, EncodeField(e, v, st).kind = "sent"
  PROVE  EncodeField(e, v, st).bits = <<>>
<1>1. \A i : WriteResidue(e, v, i) = Ok(<<>>)
  BY DEF WriteResidue
<1> QED BY <1>1, SentMeans, Outcomes

LEMMA EmptyBits == <<>> \in Bits /\ Len(<<>>) = 0
BY DEF Bits

(* A value that the target stands for.                                     *)
LEMMA ElidedBack ==
  ASSUME NEW e, Decodable(e), e.action = "not-sent",
         NEW v \in Bits, NEW st, EncodeField(e, v, st).kind = "sent"
  PROVE  ReadsBack(e, v, st, EncodeField(e, v, st).bits)
<1> DEFINE r == EncodeField(e, v, st).bits
           t(n) == BytesAsValue(Target(e), n)
           match == Matches(e, v)
<1>1. r = <<>>
  BY NothingWritten
<1>2. /\ Known(e, v, st).ok /\ Known(e, v, st).value = Len(v)
      /\ match.ok /\ match.value.matched
  BY SentMeans
<1> HIDE DEF r
<1>3. \A w, n : DecodeValue(e, n, w, 0)
                  = IF t(n).ok THEN Ok([value |-> t(n).value, pos |-> 0]) ELSE t(n)
  BY DEF DecodeValue, DecodeNotSent
<1> DEFINE k(w) == DecodeLength(e, w, 0, st)
<1>4. \A w : k(w).ok => k(w).value.pos = 0
  <2> SUFFICES ASSUME NEW w, k(w).ok PROVE k(w).value.pos = 0
    OBVIOUS
  <2>1. CASE Variable(e)
    <3>1. k(w) = Ok([n |-> Len(Target(e)), pos |-> 0])
      BY <2>1 DEF DecodeLength
    <3> HIDE DEF k
    <3> QED BY <3>1, Outcomes
  <2>2. CASE ~Variable(e)
    <3> DEFINE known == Resolve(e.length, st)
    <3>1. k(w) = IF known.ok THEN Ok([n |-> known.value, pos |-> 0]) ELSE known
      BY <2>2 DEF DecodeLength
    <3> HIDE DEF k, known
    <3>2. CASE known.ok
      BY <3>1, <3>2, Outcomes
    <3>3. CASE ~known.ok
      BY <3>1, <3>3
    <3> QED BY <3>2, <3>3
  <2> QED BY <2>1, <2>2
<1>5. ASSUME NEW w, k(w).ok, DecodeValue(e, k(w).value.n, w, k(w).value.pos).ok
      PROVE  DecodeValue(e, k(w).value.n, w, k(w).value.pos).value.pos = 0
  <2> DEFINE n == k(w).value.n
  <2>1. k(w).value.pos = 0
    BY <1>4, <1>5
  <2> HIDE DEF n, t
  <2>2. DecodeValue(e, n, w, 0).ok
    BY <1>5, <2>1 DEF n
  <2>3. t(n).ok
    BY <1>3, <2>2
  <2>4. DecodeValue(e, n, w, 0) = Ok([value |-> t(n).value, pos |-> 0])
    BY <1>3, <2>3
  <2> QED BY <2>1, <2>4, Outcomes DEF n
<1>6. ASSUME NEW w, ExactFor(e, v)
      PROVE  /\ k(w).ok
             /\ DecodeValue(e, k(w).value.n, w, k(w).value.pos)
                  = Ok([value |-> v, pos |-> 0])
  <2>1. /\ e.matching.kind = "equal"
        /\ Variable(e) => Len(Target(e)) = Len(v)
    BY <1>6 DEF ExactFor, Supplied
  <2>2. k(w) = Ok([n |-> Len(v), pos |-> 0])
    <3>1. CASE Variable(e)
      BY <2>1, <3>1 DEF DecodeLength
    <3>2. CASE ~Variable(e)
      BY <1>2, <3>2 DEF DecodeLength, Known
    <3> QED BY <3>1, <3>2
  <2>3. t(Len(v)).ok /\ t(Len(v)).value = v
    <3> DEFINE u == t(Len(v))
    <3>1. match = IF ~u.ok THEN u ELSE IF u.value = v THEN Matched(0) ELSE Unmatched
      BY <2>1 DEF Matches, MatchEqual
    <3>2. ~Unmatched.value.matched
      BY DEF Unmatched, Ok
    <3> HIDE DEF u, match
    <3>3. u.ok /\ u.value = v
      BY <1>2, <3>1, <3>2
    <3> QED BY <3>3 DEF u
  <2> DEFINE n == Len(v)
  <2> HIDE DEF n, t, k
  <2>4. k(w).ok /\ k(w).value.n = n /\ k(w).value.pos = 0
    BY <2>2, Outcomes DEF n
  <2>5. DecodeValue(e, n, w, 0) = Ok([value |-> t(n).value, pos |-> 0])
    BY <1>3, <2>3 DEF n
  <2> QED BY <2>3, <2>4, <2>5 DEF n
<1>7. ReadsBack(e, v, st, r)
  <2>1. r \in Bits /\ Len(r) = 0
    BY <1>1, EmptyBits
  <2>2. ASSUME NEW w
        PROVE  LET length == k(w)
                   read == DecodeValue(e, length.value.n, w, length.value.pos)
               IN /\ length.ok /\ read.ok => read.value.pos = Len(r)
                  /\ ExactFor(e, v) => /\ length.ok /\ read.ok
                                       /\ read.value.value = v
                                       /\ read.value.pos = Len(r)
    <3> DEFINE read == DecodeValue(e, k(w).value.n, w, k(w).value.pos)
    <3> HIDE DEF k
    <3>1. k(w).ok /\ read.ok => read.value.pos = 0
      BY <1>5
    <3>2. ExactFor(e, v) => k(w).ok /\ read = Ok([value |-> v, pos |-> 0])
      BY <1>6
    <3> HIDE DEF read
    <3>3. ExactFor(e, v) => /\ k(w).ok /\ read.ok
                            /\ read.value.value = v /\ read.value.pos = 0
      BY <3>2, Outcomes
    <3> QED BY <2>1, <3>1, <3>3 DEF read
  <2> QED BY <2>1, <2>2 DEF ReadsBack
<1> QED BY <1>7 DEF r

(* An IID whose width the rule gives.                                      *)
LEMMA SuppliedBack ==
  ASSUME NEW e, Decodable(e), Supplied(e), ~Variable(e),
         NEW v \in Bits, NEW st, EncodeField(e, v, st).kind = "sent"
  PROVE  ReadsBack(e, v, st, EncodeField(e, v, st).bits)
<1> DEFINE r == EncodeField(e, v, st).bits
           iid == Provider[e.field]
           t == BytesAsValue(iid, Len(v))
<1>1. r = <<>>
  BY NothingWritten DEF Supplied
<1>2. Known(e, v, st).ok /\ Known(e, v, st).value = Len(v)
  BY SentMeans
<1> HIDE DEF r
<1>3. \A w : DecodeLength(e, w, 0, st) = Ok([n |-> Len(v), pos |-> 0])
  BY <1>2 DEF DecodeLength, Known
<1>4. \A w : DecodeValue(e, Len(v), w, 0)
               = IF Provider = NoProvider THEN Err("InvalidResidue")
                 ELSE IF Len(iid) # 8 * Bytes(Len(v)) THEN Err("InvalidResidue")
                 ELSE IF t.ok THEN Ok([value |-> t.value, pos |-> 0]) ELSE t
  BY DEF DecodeValue, DecodeIid, Supplied
<1>5. ASSUME ExactFor(e, v)
      PROVE  /\ Provider # NoProvider /\ Len(iid) = 8 * Bytes(Len(v))
             /\ t.ok /\ t.value = v
  <2>1. Provider # NoProvider /\ v = iid
    BY <1>5 DEF ExactFor, Supplied
  <2>2. e.field \in IidFields
    BY EntryFacts DEF Supplied, IidFields
  <2>3. Len(iid) % 8 = 0
    BY <2>1, <2>2, ProviderAssumption
  <2> DEFINE n == Len(v)
  <2>4. n \in Nat /\ n % 8 = 0
    <3>1. n \in Nat
      BY DEF Bits
    <3>2. Len(iid) = n
      BY <2>1
    <3> HIDE DEF n
    <3> QED BY <3>1, <3>2, <2>3
  <2>5. t = Ok(v)
    BY <2>1, ValueOfOwnWidth
  <2>6. n = 8 * Bytes(n)
    <3> HIDE DEF n
    <3> QED BY <2>4 DEF Bytes
  <2> QED BY <2>1, <2>5, <2>6, Outcomes
<1> DEFINE k == Len(v)
           odd == Len(iid) # 8 * Bytes(k)
<1>6. ReadsBack(e, v, st, r)
  <2>1. r \in Bits /\ Len(r) = 0
    BY <1>1, EmptyBits
  <2>2. ASSUME NEW w
        PROVE  LET length == DecodeLength(e, w, 0, st)
                   read == DecodeValue(e, length.value.n, w, length.value.pos)
               IN /\ length.ok /\ read.ok => read.value.pos = Len(r)
                  /\ ExactFor(e, v) => /\ length.ok /\ read.ok
                                       /\ read.value.value = v
                                       /\ read.value.pos = Len(r)
    <3> DEFINE length == DecodeLength(e, w, 0, st)
               read == DecodeValue(e, k, w, 0)
    <3>1. length.ok /\ length.value.n = k /\ length.value.pos = 0
      <4> HIDE DEF k
      <4> QED BY <1>3, Outcomes DEF k
    <3>2. read = IF Provider = NoProvider THEN Err("InvalidResidue")
                 ELSE IF odd THEN Err("InvalidResidue")
                 ELSE IF t.ok THEN Ok([value |-> t.value, pos |-> 0]) ELSE t
      BY <1>4
    <3>3. ExactFor(e, v) => Provider # NoProvider /\ ~odd /\ t.ok /\ t.value = v
      BY <1>5
    <3> HIDE DEF read, odd, t, length
    <3>4. read.ok => read.value.pos = 0
      <4>1. CASE Provider = NoProvider
        BY <3>2, <4>1, Outcomes
      <4>2. CASE Provider # NoProvider /\ odd
        BY <3>2, <4>2, Outcomes
      <4>3. CASE Provider # NoProvider /\ ~odd /\ t.ok
        BY <3>2, <4>3, Outcomes
      <4>4. CASE Provider # NoProvider /\ ~odd /\ ~t.ok
        BY <3>2, <4>4
      <4> QED BY <4>1, <4>2, <4>3, <4>4
    <3>5. ExactFor(e, v) => read = Ok([value |-> v, pos |-> 0])
      BY <3>2, <3>3
    <3>6. ExactFor(e, v) => read.ok /\ read.value.value = v /\ read.value.pos = 0
      BY <3>5, Outcomes
    <3>7. read = DecodeValue(e, length.value.n, w, length.value.pos)
      BY <3>1 DEF read
    <3> QED BY <2>1, <3>1, <3>4, <3>6, <3>7 DEF length
  <2> QED BY <2>1, <2>2 DEF ReadsBack
<1> QED BY <1>6 DEF r

LEMMA FieldBack ==
  ASSUME NEW e, Decodable(e), ~(Supplied(e) /\ Variable(e)),
         NEW v \in Bits, NEW st, EncodeField(e, v, st).kind = "sent",
         e.field = "coap-tkl" => Len(v) = 4
  PROVE  LET r == EncodeField(e, v, st).bits
         IN /\ r \in Bits
            /\ \A w \in Bits : StandsIn(w, 0, r) =>
                 LET d == DecodeField(e, w, 0, st)
                 IN /\ d.ok => d.value.pos = Len(r)
                    /\ ExactFor(e, v) => d.ok /\ d.value.value = v
<1> DEFINE r == EncodeField(e, v, st).bits
<1>1. ReadsBack(e, v, st, r)
  <2>1. CASE e.action = "value-sent"
    BY <2>1, ValueSentBack
  <2>2. CASE e.action = "lsb"
    BY <2>2, LowBitsBack
  <2>3. CASE e.action = "mapping-sent"
    BY <2>3, IndexBack
  <2>4. CASE e.action = "not-sent"
    BY <2>4, ElidedBack
  <2>5. CASE Supplied(e)
    BY <2>5, SuppliedBack
  <2>6. e.action \in Actions \ {"compute"}
    BY EntryFacts
  <2> QED BY <2>1, <2>2, <2>3, <2>4, <2>5, <2>6 DEF Actions, Supplied
<1> HIDE DEF r
<1>2. ASSUME NEW w \in Bits, StandsIn(w, 0, r)
      PROVE  LET d == DecodeField(e, w, 0, st)
             IN /\ d.ok => d.value.pos = Len(r)
                /\ ExactFor(e, v) => d.ok /\ d.value.value = v
  <2> DEFINE length == DecodeLength(e, w, 0, st)
             read == DecodeValue(e, length.value.n, w, length.value.pos)
             d == DecodeField(e, w, 0, st)
             odd == read.ok /\ e.field = "coap-tkl" /\ Len(read.value.value) > 64
  <2>1. /\ length.ok /\ read.ok => read.value.pos = Len(r)
        /\ ExactFor(e, v) => length.ok /\ read.ok /\ read.value.value = v
    BY <1>1, <1>2 DEF ReadsBack
  <2>2. d = IF ~length.ok THEN length
            ELSE IF odd THEN Err("InvalidBitLength") ELSE read
    BY DEF DecodeField
  <2>3. read.value.value = v => ~odd
    <3>1. e.field = "coap-tkl" => ~(Len(v) > 64)
      <4> DEFINE k == Len(v)
      <4>1. e.field = "coap-tkl" => k = 4
        OBVIOUS
      <4> HIDE DEF k
      <4>2. e.field = "coap-tkl" => ~(k > 64)
        BY <4>1
      <4> QED BY <4>2 DEF k
    <3> HIDE DEF read
    <3> QED BY <3>1
  <2> HIDE DEF length, read, d, odd
  <2>4. d.ok => length.ok /\ read.ok /\ d = read
    <3>1. CASE ~length.ok
      BY <2>2, <3>1
    <3>2. CASE length.ok /\ odd
      BY <2>2, <3>2, Outcomes
    <3>3. CASE length.ok /\ ~odd
      BY <2>2, <3>3
    <3> QED BY <3>1, <3>2, <3>3
  <2>5. d.ok => d.value.pos = Len(r)
    BY <2>1, <2>4
  <2>6. ExactFor(e, v) => d.ok /\ d.value.value = v
    BY <2>1, <2>2, <2>3
  <2> QED BY <2>5, <2>6 DEF d
<1>3. r \in Bits
  BY <1>1 DEF ReadsBack
<1> QED BY <1>2, <1>3 DEF r

-----------------------------------------------------------------------------
(* The states of the codec: what each phase has is what the operators      *)
(* yield, and a datagram carries the residue or is a part of it.           *)
Inv ==
  /\ entry \in Entries /\ value \in Values /\ store \in Earlier
  /\ entry.field = "coap-tkl" => Len(value) = 4
  /\ phase \in {"packet", "residue", "datagram", "decoded", "stopped"}
  /\ phase \in {"residue", "datagram", "decoded"} =>
       residue = EncodeField(entry, value, store) /\ residue.kind = "sent"
  /\ phase \in {"datagram", "decoded"} =>
       /\ residue.bits \in Bits
       /\ wire \in Bits
       /\ IsPrefix(residue.bits, wire) \/ IsPrefix(wire, residue.bits)
  /\ phase = "decoded" => decoded = DecodeField(entry, wire, 0, store)

LEMMA ResidueBits ==
  ASSUME NEW e, Decodable(e), NEW v \in Bits, NEW st,
         EncodeField(e, v, st).kind = "sent", e.field = "coap-tkl" => Len(v) = 4
  PROVE  EncodeField(e, v, st).bits \in Bits
<1>1. CASE Supplied(e)
  BY <1>1, NothingWritten, EmptyBits DEF Supplied
<1>2. CASE ~Supplied(e)
  BY <1>2, FieldBack
<1> QED BY <1>1, <1>2

LEMMA StateTypes ==
  ASSUME Inv
  PROVE  Decodable(entry) /\ value \in Bits /\ store \in Seq(StoredFields)
BY EntriesAssumption, DataAssumption DEF Inv, Decodable

LEMMA OwnPrefix == \A s \in Bits : IsPrefix(s, s)
<1> TAKE s \in Bits
<1>1. Len(s) \in Nat
  BY DEF Bits
<1> QED BY <1>1, PrefixBits

LEMMA InvInductive == Inv /\ [Next]_vars => Inv'
<1> SUFFICES ASSUME Inv, [Next]_vars PROVE Inv'
  OBVIOUS
<1> USE DEF Inv
<1>1. CASE Compress
  BY <1>1 DEF Compress
<1>2. CASE Follow
  <2>1. PICK tail \in Tails : wire' = residue.bits \o tail
    BY <1>2 DEF Follow
  <2>2. tail \in Bits /\ residue.bits \in Bits
    <3>1. residue.bits \in Bits
      BY <1>2, StateTypes, ResidueBits DEF Follow
    <3> QED BY <3>1, DataAssumption
  <2>3. wire' \in Bits /\ IsPrefix(residue.bits, wire')
    <3>1. /\ wire' \in Bits
          /\ Len(wire') = Len(residue.bits) + Len(tail)
          /\ \A i \in 1..Len(residue.bits) : wire'[i] = residue.bits[i]
      BY <2>1, <2>2, ConcatBits
    <3>2. Len(tail) \in Nat /\ Len(residue.bits) \in Nat
      BY <2>2 DEF Bits
    <3>3. Len(residue.bits) <= Len(wire')
      BY <3>1, <3>2
    <3> QED BY <2>2, <3>1, <3>3, PrefixBits
  <2> QED BY <1>2, <2>2, <2>3 DEF Follow
<1>3. CASE Truncate
  <2>1. PICK n \in Cuts : /\ n <= Len(residue.bits)
                          /\ wire' = SubSeq(residue.bits, 1, Len(residue.bits) - n)
    BY <1>3 DEF Truncate
  <2>2. residue.bits \in Bits
    BY <1>3, StateTypes, ResidueBits DEF Truncate
  <2> DEFINE m == Len(residue.bits) - n
  <2>3. m \in Nat /\ m <= Len(residue.bits)
    <3>1. Len(residue.bits) \in Nat
      BY <2>2 DEF Bits
    <3>2. n \in Nat
      BY DataAssumption
    <3> QED BY <2>1, <3>1, <3>2
  <2> HIDE DEF m
  <2>4. /\ wire' \in Bits /\ Len(wire') = m
        /\ \A i \in 1..m : wire'[i] = residue.bits[i]
    BY <2>1, <2>2, <2>3, PrefixType DEF m
  <2>5. IsPrefix(wire', residue.bits)
    BY <2>2, <2>3, <2>4, PrefixBits
  <2> QED BY <1>3, <2>2, <2>4, <2>5 DEF Truncate
<1>4. CASE Decompress
  BY <1>4 DEF Decompress
<1>5. CASE UNCHANGED vars
  BY <1>5 DEF vars
<1> QED BY <1>1, <1>2, <1>3, <1>4, <1>5 DEF Next

(* The states of the codec are as Inv says.                                *)
THEOREM CodecInvariant == Spec => []Inv
<1>1. Init => Inv
  BY DEF Init, Inv
<1> QED BY <1>1, InvInductive, PTL DEF Spec

-----------------------------------------------------------------------------
LEMMA StateReadsBack ==
  ASSUME Inv, phase = "decoded", ~(Supplied(entry) /\ Variable(entry))
  PROVE  /\ residue.bits \in Bits
         /\ \A w \in Bits : IsPrefix(residue.bits, w) =>
              LET d == DecodeField(entry, w, 0, store)
              IN /\ d.ok => d.value.pos = Len(residue.bits)
                 /\ ExactFor(entry, value) => d.ok /\ d.value.value = value
<1>1. /\ residue = EncodeField(entry, value, store) /\ residue.kind = "sent"
      /\ entry.field = "coap-tkl" => Len(value) = 4
      /\ residue.bits \in Bits
  BY DEF Inv
<1>2. Decodable(entry) /\ value \in Bits
  BY StateTypes
<1>3. ASSUME NEW w \in Bits, IsPrefix(residue.bits, w)
      PROVE  StandsIn(w, 0, residue.bits)
  BY <1>1, <1>3, PrefixCarried
<1> QED BY <1>1, <1>2, <1>3, FieldBack

LEMMA DelimitedInState == Inv => SelfDelimiting
<1> SUFFICES ASSUME Inv, Whole, decoded.ok, ~(Supplied(entry) /\ Variable(entry))
             PROVE  decoded.value.pos = Len(residue.bits)
  BY DEF SelfDelimiting
<1>1. /\ phase = "decoded" /\ IsPrefix(residue.bits, wire) /\ wire \in Bits
      /\ decoded = DecodeField(entry, wire, 0, store)
  BY DEF Whole, Inv
<1> QED BY <1>1, StateReadsBack

LEMMA RestoredInState == Inv => RoundTrip
<1> SUFFICES ASSUME Inv, Whole, Exact PROVE decoded.ok /\ decoded.value.value = value
  BY DEF RoundTrip
<1>1. /\ phase = "decoded" /\ IsPrefix(residue.bits, wire) /\ wire \in Bits
      /\ decoded = DecodeField(entry, wire, 0, store)
  BY DEF Whole, Inv
<1>2. ExactFor(entry, value)
  BY DEF Exact, ExactFor
<1>3. ~(Supplied(entry) /\ Variable(entry))
  BY DEF Exact, Supplied
<1> QED BY <1>1, <1>2, <1>3, StateReadsBack

(* What is decoded from a part of the residue would be decoded from the    *)
(* whole of it too, and that takes all of its bits.                        *)
LEMMA DetectedInState == Inv => TruncationDetected
<1> SUFFICES ASSUME Inv, Cut, decoded.ok PROVE FALSE
  BY DEF TruncationDetected
<1> DEFINE r == residue.bits
<1>1. /\ phase = "decoded" /\ wire \in Bits /\ r \in Bits
      /\ Len(wire) < Len(r)
      /\ IsPrefix(r, wire) \/ IsPrefix(wire, r)
      /\ decoded = DecodeField(entry, wire, 0, store)
      /\ residue = EncodeField(entry, value, store) /\ residue.kind = "sent"
  BY DEF Cut, Inv
<1>2. Len(wire) \in Nat /\ Len(r) \in Nat
  BY <1>1 DEF Bits
<1>3. IsPrefix(wire, r)
  <2>1. ~(Len(r) <= Len(wire))
    BY <1>1, <1>2
  <2> QED BY <1>1, <2>1 DEF IsPrefix
<1>4. Decodable(entry) /\ value \in Bits /\ store \in Seq(StoredFields)
  BY StateTypes
<1>5. ~Supplied(entry)
  <2>1. ASSUME Supplied(entry) PROVE FALSE
    <3>1. r = <<>>
      BY <1>1, <2>1, NothingWritten DEF Supplied
    <3>2. Len(r) = 0
      BY <3>1, EmptyBits
    <3> QED BY <1>1, <1>2, <3>2
  <2> QED BY <2>1
<1> DEFINE d == DecodeField(entry, wire, 0, store)
<1>6. Reaches(wire, 0)
  BY <1>2 DEF Reaches
<1>7. /\ Reaches(wire, d.value.pos)
      /\ DecodeField(entry, r, 0, store) = d
  <2>1. Extends(r, wire)
    BY <1>1, <1>3 DEF Extends
  <2> HIDE DEF r
  <2> QED BY <1>1, <1>4, <1>6, <2>1, FieldTaken
<1>8. d.value.pos = Len(r)
  <2>1. IsPrefix(r, r)
    BY <1>1, OwnPrefix
  <2> QED BY <1>1, <1>5, <1>7, <2>1, StateReadsBack
<1>9. Len(r) <= Len(wire)
  BY <1>7, <1>8 DEF Reaches
<1> QED BY <1>1, <1>2, <1>9

(* Of whatever follows a residue in the datagram the decoder of the field  *)
(* takes nothing, and it leaves nothing of the residue.                    *)
THEOREM FieldsAreDelimited == Spec => []SelfDelimiting
BY CodecInvariant, DelimitedInState, PTL

(* A value that the entry can carry comes back as it was.                  *)
THEOREM ValuesComeBack == Spec => []RoundTrip
BY CodecInvariant, RestoredInState, PTL

(* A residue that lost bits at its end is never decoded.                   *)
THEOREM CutsAreDetected == Spec => []TruncationDetected
BY CodecInvariant, DetectedInState, PTL
=============================================================================
