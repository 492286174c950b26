------------------------- MODULE SchcCompressProofs -------------------------
(***************************************************************************)
(* Theorems about SchcCompress: the walk of the tree finds what a search   *)
(* of every rule finds, its error tells why there is no datagram, and a    *)
(* rule that describes no field bounds the size of every datagram.         *)
(***************************************************************************)
EXTENDS SchcCompress, SchcFieldProofs

-----------------------------------------------------------------------------
(* Errors of an entry.  None of them is one that the choice among rules    *)
(* gives rise to.                                                          *)

LEMMA CoapPlain == \A input : Plain(ParseCoap(input))
<1> TAKE input
<1>1. ParseCoap(input) = Err("Packet") \/ \E v : ParseCoap(input) = Ok(v)
  BY DEF ParseCoap
<1> QED BY <1>1, PlainErrors, PlainOutcomes

LEMMA ExtractCoapPlain ==
  \A message, field, length : Plain(ExtractCoap(message, field, length))
<1> TAKE message, field, length
<1> DEFINE coap == ParseCoap(message)
           result == ExtractCoap(message, field, length)
<1>1. \/ result = coap
      \/ result = Err("InvalidResidue")
      \/ result = Err("Packet")
      \/ \E v : result = Ok(v)
  BY DEF ExtractCoap, Then
<1> QED BY <1>1, CoapPlain, PlainErrors, PlainOutcomes

LEMMA ExtractIcmpPlain ==
  \A message, field, store : Plain(ExtractIcmp(message, field, store))
<1> TAKE message, field, store
<1>1. \/ ExtractIcmp(message, field, store) = Err("Packet")
      \/ \E v : ExtractIcmp(message, field, store) = Ok(v)
  BY DEF ExtractIcmp
<1> QED BY <1>1, PlainErrors, PlainOutcomes

LEMMA ExtractUnusedPlain ==
  \A source, length : Plain(ExtractUnused(source, length))
<1> TAKE source, length
<1>1. \/ ExtractUnused(source, length) = Err("Packet")
      \/ ExtractUnused(source, length) = Err("InvalidResidue")
      \/ \E v : ExtractUnused(source, length) = Ok(v)
  BY DEF ExtractUnused
<1> QED BY <1>1, PlainErrors, PlainOutcomes

LEMMA ExtractPayloadPlain ==
  \A source, store : Plain(ExtractPayload(source, store))
<1> TAKE source, store
<1> DEFINE coap == ParseCoap(From(Upper(source), 64))
           result == ExtractPayload(source, store)
<1>1. \/ result = coap
      \/ result = Err("Packet")
      \/ \E v : result = Ok(v)
  BY DEF ExtractPayload, Then
<1> QED BY <1>1, CoapPlain, PlainErrors, PlainOutcomes

LEMMA ExtractPlain ==
  ASSUME NEW source, NEW dir, NEW field, NEW length, NEW scope, NEW store
  PROVE  Plain(ExtractField(source, dir, field, length, scope, store))
<1> DEFINE udp == Upper(source)
           place == Place(field, dir)
           part == Ok(Slice(source, place.offset, place.bits))
           rest == Ok(From(udp, 64))
           coap == ExtractCoap(From(udp, 64), field, length)
           icmp == ExtractIcmp(udp, field, store)
           unused == ExtractUnused(source, length)
           payload == ExtractPayload(source, store)
           result == ExtractField(source, dir, field, length, scope, store)
<1>1. result \in {Err("Packet"), Err("UnknownSid"), part, rest, coap, icmp, unused, payload}
  BY ZenonT(30) DEF ExtractField
<1>2. /\ Plain(part) /\ Plain(rest) /\ Plain(coap) /\ Plain(icmp)
      /\ Plain(unused) /\ Plain(payload)
  BY ExtractCoapPlain, ExtractIcmpPlain, ExtractUnusedPlain,
     ExtractPayloadPlain, PlainOutcomes
<1> HIDE DEF part, rest, coap, icmp, unused, payload, result
<1>3. Plain(result)
  BY <1>1, <1>2, PlainErrors
<1> QED BY <1>3 DEF result

(* An entry of a rule set that was loaded.                                 *)
Usable(entry) == entry \in FieldEntries /\ ValidEntry(entry)

LEMMA UsableFacts ==
  ASSUME NEW entry, Usable(entry)
  PROVE  /\ entry.length.kind \in LengthKinds
         /\ entry.action \in Actions
         /\ entry.matching.kind \in Operators
BY DEF Usable, FieldEntries

LEMMA LengthPlain ==
  ASSUME NEW entry, Usable(entry), NEW store
  PROVE  Plain(Length(entry, store))
<1> DEFINE known == Resolve(entry.length, store)
           result == Length(entry, store)
<1>1. CASE Variable(entry)
  <2>1. \E v : result = Ok(v)
    BY <1>1 DEF Length
  <2> QED BY <2>1, PlainOutcomes
<1>2. CASE ~Variable(entry)
  <2>1. Plain(known)
    BY <1>2, UsableFacts, ResolvePlain DEF Variable
  <2>2. result = known \/ \E v : result = Ok(v)
    BY <1>2 DEF Length
  <2> HIDE DEF known, result
  <2>3. Plain(result)
    BY <2>1, <2>2, PlainOutcomes
  <2> QED BY <2>3 DEF result
<1> QED BY <1>1, <1>2

LEMMA OptionsPlain == \A source : Plain(MessageOptions(source))
<1> TAKE source
<1> DEFINE coap == ParseCoap(From(Upper(source), 64))
           result == MessageOptions(source)
<1>1. \/ result = coap
      \/ result = Err("Packet")
      \/ \E v : result = Ok(v)
  BY DEF MessageOptions, Then
<1> QED BY <1>1, CoapPlain, PlainErrors, PlainOutcomes

LEMMA ToSendPlain ==
  ASSUME NEW source, NEW dir, NEW entry, Usable(entry), NEW scope, NEW store
  PROVE  Plain(ToSend(source, dir, entry, scope, store))
<1>1. \A length : Plain(OptionToSend(source, entry, scope, length))
  <2> TAKE length
  <2> DEFINE options == MessageOptions(source)
             result == OptionToSend(source, entry, scope, length)
  <2>1. \/ result = options
        \/ result = Err("Packet")
        \/ \E v : result = Ok(v)
    BY DEF OptionToSend, Then
  <2> QED BY <2>1, OptionsPlain, PlainErrors, PlainOutcomes
<1>2. \A length : Plain(FieldToSend(source, dir, entry, scope, length, store))
  <2> TAKE length
  <2> DEFINE whole == PacketOf(source, scope)
             field(w) == ExtractField(w, DirectionOf(dir, scope), entry.field,
                                      length, scope, In(store, scope))
             result == FieldToSend(source, dir, entry, scope, length, store)
  <2>1. Plain(whole)
    <3>1. whole = Err("Packet") \/ \E v : whole = Ok(v)
      BY DEF PacketOf, EmbeddedPacket
    <3> QED BY <3>1, PlainErrors, PlainOutcomes
  <2>2. \A w : Plain(field(w))
    BY ExtractPlain
  <2>3. \/ result = whole
        \/ \E w : result = field(w)
        \/ \E v : result = Ok(v)
    BY DEF FieldToSend, Then
  <2> HIDE DEF whole, field, result
  <2>4. Plain(result)
    BY <2>1, <2>2, <2>3, PlainOutcomes
  <2> QED BY <2>4 DEF result
<1> DEFINE length == Length(entry, store)
           result == ToSend(source, dir, entry, scope, store)
<1>3. \/ result = length
      \/ \E n : result = OptionToSend(source, entry, scope, n)
      \/ \E n : result = FieldToSend(source, dir, entry, scope, n, store)
      \/ \E v : result = Ok(v)
  BY DEF ToSend, Then
<1>4. Plain(length)
  BY LengthPlain
<1> HIDE DEF length, result
<1>5. Plain(result)
  BY <1>1, <1>2, <1>3, <1>4, PlainOutcomes
<1> QED BY <1>5 DEF result

LEMMA MatchPlain ==
  ASSUME NEW entry, Usable(entry), NEW v
  PROVE  Plain(Matches(entry, v))
<1> DEFINE t == BytesAsValue(Target(entry), Len(v))
           as(k) == BytesAsValue(entry.target.values[k], Len(v))
<1>1. Plain(t) /\ \A k : Plain(as(k))
  BY ValuePlain
<1>2. \/ MatchEqual(entry, v) = t
      \/ \E w : MatchEqual(entry, v) = Ok(w)
  BY DEF MatchEqual, Matched, Unmatched
<1>3. \/ MatchMsb(entry, v) = t
      \/ MatchMsb(entry, v) = Err("InvalidBitLength")
      \/ \E w : MatchMsb(entry, v) = Ok(w)
  BY DEF MatchMsb, Matched, Unmatched
<1>4. \/ \E k : MatchMapping(entry, v) = as(k)
      \/ \E w : MatchMapping(entry, v) = Ok(w)
  BY DEF MatchMapping, Matched, Unmatched
<1>5. \A k : Plain(Matched(k))
  BY PlainOutcomes DEF Matched
<1> HIDE DEF t, as
<1>6. /\ Plain(MatchEqual(entry, v)) /\ Plain(MatchMsb(entry, v))
      /\ Plain(MatchMapping(entry, v))
  BY <1>1, <1>2, <1>3, <1>4, PlainErrors, PlainOutcomes
<1>7. \/ Matches(entry, v) = MatchEqual(entry, v)
      \/ Matches(entry, v) = Matched(0)
      \/ Matches(entry, v) = MatchMsb(entry, v)
      \/ Matches(entry, v) = MatchMapping(entry, v)
  BY UsableFacts DEF Matches, Operators
<1> QED BY <1>5, <1>6, <1>7

LEMMA ResiduePlain ==
  ASSUME NEW entry, Usable(entry), NEW v, NEW k
  PROVE  Plain(WriteResidue(entry, v, k))
<1> DEFINE prefix == LengthPrefix(entry, v)
           result == WriteResidue(entry, v, k)
<1>1. \A n : Plain(WritePrefix(n))
  <2> TAKE n
  <2>1. WritePrefix(n) = Err("InvalidResidue") \/ \E b : WritePrefix(n) = Ok(b)
    BY DEF WritePrefix
  <2> QED BY <2>1, PlainErrors, PlainOutcomes
<1>2. Plain(prefix)
  <2>1. \/ prefix = Err("InvalidResidue")
        \/ \E n : prefix = WritePrefix(n)
        \/ \E b : prefix = Ok(b)
    BY DEF LengthPrefix
  <2> QED BY <2>1, <1>1, PlainErrors, PlainOutcomes
<1>3. \/ result = prefix
      \/ result = Err("InvalidResidue")
      \/ \E b : result = Ok(b)
  BY UsableFacts DEF WriteResidue, Actions
<1> HIDE DEF prefix, result
<1>4. Plain(result)
  BY <1>2, <1>3, PlainErrors, PlainOutcomes
<1> QED BY <1>4 DEF result

(* Coding an entry is refused, sent, or failed with an error of a step.    *)
Ends(e) == e.kind = "failed" => e.error \in StepErrors

LEMMA KindsEnd ==
  /\ Ends(Refused)
  /\ \A bits : Ends(Sent(bits))
  /\ \A o : ~o.ok /\ Plain(o) => Ends(Failed(o.error))
BY DEF Ends, Refused, Sent, Failed, Plain

LEMMA FieldEnds ==
  ASSUME NEW entry, Usable(entry), NEW v, NEW store
  PROVE  Ends(EncodeField(entry, v, store))
<1> DEFINE known == IF Variable(entry) THEN Ok(Len(v)) ELSE Resolve(entry.length, store)
           match == Matches(entry, v)
           residue == WriteResidue(entry, v, match.value.index)
           result == EncodeField(entry, v, store)
<1>1. Plain(known)
  BY UsableFacts, ResolvePlain, PlainOutcomes DEF Variable
<1>2. Plain(match) /\ Plain(residue)
  BY MatchPlain, ResiduePlain
<1>3. \/ ~known.ok /\ result = Failed(known.error)
      \/ result = Refused
      \/ ~match.ok /\ result = Failed(match.error)
      \/ ~residue.ok /\ result = Failed(residue.error)
      \/ result = Sent(residue.value)
  BY DEF EncodeField
<1> HIDE DEF known, match, residue, result
<1>4. Ends(result)
  BY <1>1, <1>2, <1>3, KindsEnd
<1> QED BY <1>4 DEF result

LEMMA EntryEnds ==
  ASSUME NEW source, NEW dir, NEW entry, Usable(entry), NEW store
  PROVE  Ends(EncodeEntry(source, dir, entry, store))
<1> DEFINE scope == SenderScope(entry, store)
           sent == ToSend(source, dir, entry, scope.value, store)
           outcome == EncodeField(entry, sent.value[1].value, store)
           encoded == Encoded(entry, sent.value[1], scope.value, outcome)
           result == EncodeEntry(source, dir, entry, store)
<1>1. Plain(scope)
  <2>1. scope = Err("Packet") \/ \E v : scope = Ok(v)
    BY DEF SenderScope
  <2> QED BY <2>1, PlainErrors, PlainOutcomes
<1>2. Plain(sent) /\ Ends(outcome)
  BY ToSendPlain, FieldEnds
<1>3. encoded = outcome \/ encoded.kind = "sent"
  BY DEF Encoded
<1>4. \/ ~scope.ok /\ result = Failed(scope.error)
      \/ ~sent.ok /\ result = Failed(sent.error)
      \/ result = Refused
      \/ result = encoded
  BY DEF EncodeEntry
<1> HIDE DEF scope, sent, outcome, encoded, result
<1>5. Ends(encoded)
  BY <1>2, <1>3 DEF Ends
<1>6. Ends(result)
  BY <1>1, <1>2, <1>4, <1>5, KindsEnd
<1> QED BY <1>6 DEF result

(* So is traverse_branch; what it sends extends the state.                 *)
LEMMA TakenEnds ==
  ASSUME NEW entry, Usable(entry), NEW state
  PROVE  Ends(Taken(state, entry))
<1> DEFINE e == EncodeEntry(packet, direction, entry, state.fields)
<1>1. Ends(e)
  BY EntryEnds
<1>2. Taken(state, entry) = e \/ Taken(state, entry).kind = "sent"
  BY DEF Taken
<1> QED BY <1>1, <1>2 DEF Ends

LEMMA TakenSent ==
  ASSUME NEW entry, NEW state, Taken(state, entry).kind = "sent"
  PROVE  Taken(state, entry)
           = [kind |-> "sent", state |-> Taken(state, entry).state]
<1> DEFINE e == EncodeEntry(packet, direction, entry, state.fields)
<1> HIDE DEF e
<1>1. CASE ~Accepts(entry, direction) \/ entry.field = Marker
  BY <1>1 DEF Taken
<1>2. CASE Accepts(entry, direction) /\ entry.field # Marker /\ e.kind = "sent"
  BY <1>2 DEF Taken, e
<1>3. CASE Accepts(entry, direction) /\ entry.field # Marker /\ e.kind # "sent"
  BY <1>3 DEF Taken, e
<1> QED BY <1>1, <1>2, <1>3

-----------------------------------------------------------------------------
(* The search of every rule on its own.  Trace(i, T): T[k] is where the    *)
(* search of rule i is after k entries.                                    *)
Size(i) == Len(rules[i].entries)

Trace(i, T) ==
  /\ T[0] = Untouched
  /\ \A k \in 1..Size(i) : T[k] = Scanned(T[k - 1], rules[i].entries[k])

LEMMA LoadedRules ==
  ASSUME rules \in RuleSets
  PROVE  /\ Len(rules) \in Nat
         /\ \A i \in 1..Len(rules) :
              /\ rules[i].entries \in Seq(FieldEntries)
              /\ Size(i) \in Nat
              /\ \A k \in 1..Size(i) : Usable(rules[i].entries[k])
<1>1. rules \in Seq(RuleRecords) /\ Loads(rules)
  BY RuleSetsAssumption
<1>2. Len(rules) \in Nat
  BY <1>1
<1>3. ASSUME NEW i \in 1..Len(rules)
      PROVE  /\ rules[i].entries \in Seq(FieldEntries)
             /\ Size(i) \in Nat
             /\ \A k \in 1..Size(i) : Usable(rules[i].entries[k])
  <2>1. rules[i] \in RuleRecords
    BY <1>1, ElementOfSeq
  <2>2. rules[i].entries \in Seq(FieldEntries)
    BY <2>1 DEF RuleRecords
  <2>3. Size(i) \in Nat
    BY <2>2 DEF Size
  <2>4. \A k \in 1..Size(i) : rules[i].entries[k] \in FieldEntries
    BY <2>2, ElementOfSeq DEF Size
  <2>5. \A k \in 1..Size(i) : ValidEntry(rules[i].entries[k])
    BY <1>1 DEF Loads, Size
  <2> QED BY <2>2, <2>3, <2>4, <2>5 DEF Usable
<1> QED BY <1>2, <1>3

(* A function that obeys the recurrence of Scan as far as n.               *)
Follows(i, T, n) ==
  /\ T = [k \in 0..n |-> T[k]]
  /\ T[0] = Untouched
  /\ \A k \in 1..n : T[k] = Scanned(T[k - 1], rules[i].entries[k])

LEMMA TraceExists ==
  ASSUME NEW i
  PROVE  \A n \in Nat : \E T : Follows(i, T, n)
<1> DEFINE S == {n \in Nat : \E T : Follows(i, T, n)}
<1>1. 0 \in S
  <2> DEFINE T == [k \in 0..0 |-> Untouched]
  <2>1. Follows(i, T, 0)
    BY DEF Follows
  <2> QED BY <2>1
<1>2. ASSUME NEW n \in Nat, n \in S PROVE n + 1 \in S
  <2>1. PICK T : Follows(i, T, n)
    BY <1>2
  <2> DEFINE U == [k \in 0..(n + 1) |->
                     IF k = n + 1 THEN Scanned(T[n], rules[i].entries[n + 1])
                     ELSE T[k]]
  <2>2. U = [k \in 0..(n + 1) |-> U[k]]
    OBVIOUS
  <2>3. U[0] = Untouched
    BY <2>1 DEF Follows
  <2>4. ASSUME NEW k \in 1..(n + 1)
        PROVE  U[k] = Scanned(U[k - 1], rules[i].entries[k])
    <3>1. CASE k = n + 1
      BY <3>1
    <3>2. CASE k # n + 1
      <4>1. k \in 1..n /\ k - 1 \in 0..n /\ k \in 0..(n + 1) /\ k - 1 \in 0..(n + 1)
            /\ k - 1 # n + 1
        BY <3>2
      <4>2. U[k] = T[k] /\ U[k - 1] = T[k - 1]
        BY <3>2, <4>1
      <4> QED BY <4>1, <4>2, <2>1 DEF Follows
    <3> QED BY <3>1, <3>2
  <2>5. Follows(i, U, n + 1)
    <3> HIDE DEF U
    <3> QED BY <2>2, <2>3, <2>4 DEF Follows
  <2> QED BY <2>5
<1> HIDE DEF S
<1>3. Nat \subseteq S
  BY <1>1, <1>2, SetInduction
<1> QED BY <1>3 DEF S

(* Scan is where a trace ends.                                             *)
LEMMA ScanEnds ==
  ASSUME NEW i, Size(i) \in Nat
  PROVE  \E T : Trace(i, T) /\ Scan(i) = [rule |-> i, outcome |-> T[Size(i)]]
<1> DEFINE n == Size(i)
           Solves(f) == f = [k \in 0..n |->
                               IF k = 0 THEN Untouched
                               ELSE Scanned(f[k - 1], rules[i].entries[k])]
           h == CHOOSE f : Solves(f)
<1>1. PICK T : Follows(i, T, n)
  BY TraceExists
<1>2. Solves(T)
  <2>1. ASSUME NEW k \in 0..n
        PROVE  T[k] = IF k = 0 THEN Untouched
                      ELSE Scanned(T[k - 1], rules[i].entries[k])
    <3>1. k = 0 \/ k \in 1..n
      OBVIOUS
    <3> QED BY <1>1, <3>1 DEF Follows
  <2>2. T = [k \in 0..n |-> T[k]]
    BY <1>1 DEF Follows
  <2> QED BY <2>1, <2>2
<1>3. Solves(h)
  BY <1>2
<1>4. Trace(i, h)
  <2> HIDE DEF h
  <2>1. h[0] = Untouched
    BY <1>3
  <2>2. ASSUME NEW k \in 1..n PROVE h[k] = Scanned(h[k - 1], rules[i].entries[k])
    BY <1>3
  <2> QED BY <2>1, <2>2 DEF Trace
<1>5. Scan(i) = [rule |-> i, outcome |-> h[n]]
  BY DEF Scan, Size
<1> QED BY <1>4, <1>5

(* A search that was refused or failed stays where it is.                  *)
LEMMA TraceStops ==
  ASSUME NEW i, Size(i) \in Nat, NEW T, Trace(i, T),
         NEW k \in 0..Size(i), T[k].kind # "sent"
  PROVE  T[Size(i)] = T[k]
<1> DEFINE S == {m \in Nat : k + m <= Size(i) => T[k + m] = T[k]}
<1>1. 0 \in S
  OBVIOUS
<1>2. ASSUME NEW m \in Nat, m \in S PROVE m + 1 \in S
  <2> SUFFICES ASSUME k + (m + 1) <= Size(i) PROVE T[k + (m + 1)] = T[k]
    OBVIOUS
  <2>1. k + (m + 1) \in 1..Size(i) /\ (k + (m + 1)) - 1 = k + m /\ k + m <= Size(i)
    OBVIOUS
  <2>2. T[k + (m + 1)] = Scanned(T[k + m], rules[i].entries[k + (m + 1)])
    BY <2>1 DEF Trace
  <2>3. T[k + m] = T[k]
    BY <1>2, <2>1
  <2> QED BY <2>2, <2>3 DEF Scanned
<1> HIDE DEF S
<1>3. Size(i) - k \in S
  BY <1>1, <1>2, SetInduction
<1> QED BY <1>3 DEF S

-----------------------------------------------------------------------------
(* The inductive invariants.                                               *)

(* What Choose leaves behind.                                              *)
Chosen ==
  \/ \E best \in candidates : /\ \A c \in candidates : Precedes(best, c)
                              /\ compressed = Ok(best)
  \/ /\ candidates = {}
     /\ \/ natureErrors /\ compressed = Err("UnsupportedRuleNature")
        \/ \E e \in branchErrors : ~natureErrors /\ compressed = Err(e)
        \/ /\ ~natureErrors /\ branchErrors = {}
           /\ compressed = Err("NoMatchingRule")

Outcome ==
  ~Pending =>
    IF ParsesIpv6(packet) THEN agenda = {} /\ Chosen
    ELSE compressed = IF Wrappers = {} THEN Err("Packet") ELSE Ok(Wrapped(Min(Wrappers)))

(* Either the root is still to be visited, or the first rule without       *)
(* fields has had its say.                                                 *)
FieldlessSeen ==
  \/ Root \in agenda
  \/ Fieldless # {} /\ rules[Min(Fieldless)].nature # "fragmentation" =>
       Wrapped(Min(Fieldless)) \in candidates

WrapInv == rules \in RuleSets /\ Outcome /\ FieldlessSeen

(* A visit is where the search of each of its rules is after the entries   *)
(* they begin with.                                                        *)
VisitSound(v) ==
  /\ v.members \subseteq 1..Len(rules) /\ v.depth \in Nat
  /\ \A i \in v.members : v.depth <= Size(i)
  /\ \A i \in v.members : \A T :
       Trace(i, T) => T[v.depth] = [kind |-> "sent", state |-> v.state]
  /\ \A i, j \in v.members : \A k \in 1..v.depth :
       rules[i].entries[k] = rules[j].entries[k]

(* What the search of rule i yields was found by the walk.                 *)
Answered(i) ==
  \A T : Trace(i, T) =>
    /\ T[Size(i)].kind = "sent" =>
         /\ LeafCandidates(i, T[Size(i)].state) \subseteq candidates
         /\ rules[i].nature = "fragmentation" => natureErrors
    /\ T[Size(i)].kind = "failed" => branchErrors # {}

(* No rule is lost: a visit still to make leads to it, or it has answered. *)
Covered ==
  \A i \in 1..Len(rules) : (\E v \in agenda : i \in v.members) \/ Answered(i)

(* And nothing is found that no rule yields.                               *)
Yields(i, c) ==
  \A T : Trace(i, T) => /\ T[Size(i)].kind = "sent"
                        /\ c \in LeafCandidates(i, T[Size(i)].state)

Fragmented(i) ==
  /\ rules[i].nature = "fragmentation"
  /\ \A T : Trace(i, T) => T[Size(i)].kind = "sent"

Founded ==
  /\ \A c \in candidates : \E i \in 1..Len(rules) : Yields(i, c)
  /\ natureErrors => \E i \in 1..Len(rules) : Fragmented(i)
  /\ branchErrors \subseteq StepErrors

TreeInv ==
  /\ rules \in RuleSets
  /\ DistinctRules(rules)
  /\ \A v \in agenda : VisitSound(v)
  /\ Covered
  /\ Founded
  /\ Outcome

-----------------------------------------------------------------------------
(* As long as the rules, the direction and the packet stay, so does what   *)
(* every search yields.                                                    *)
LEMMA SameSearch ==
  ASSUME UNCHANGED <<context, packet>>
  PROVE  /\ rules' = rules /\ packet' = packet
         /\ \A i : Size(i)' = Size(i)
         /\ \A i, T : Trace(i, T)' <=> Trace(i, T)
         /\ \A i, state : LeafCandidates(i, state)' = LeafCandidates(i, state)
         /\ \A i, c : Yields(i, c)' <=> Yields(i, c)
         /\ \A i : Fragmented(i)' <=> Fragmented(i)
         /\ \A v : VisitSound(v)' <=> VisitSound(v)
         /\ \A i : Wrapped(i)' = Wrapped(i)
         /\ Wrappers' = Wrappers /\ Fieldless' = Fieldless /\ Root' = Root
<1>1. rules' = rules /\ direction' = direction /\ packet' = packet
  BY DEF context
<1>2. \A i : Size(i)' = Size(i)
  BY <1>1 DEF Size
<1>3. \A state, entry : Taken(state, entry)' = Taken(state, entry)
  BY <1>1 DEF Taken
<1>4. \A o, entry : Scanned(o, entry)' = Scanned(o, entry)
  BY <1>3 DEF Scanned
<1>5. \A i, T : Trace(i, T)' <=> Trace(i, T)
  BY <1>1, <1>2, <1>4 DEF Trace
<1>6. \A i : Wrapped(i)' = Wrapped(i)
  BY <1>1 DEF Wrapped
<1>7. \A fields : Covers(fields)' <=> Covers(fields)
  BY <1>1 DEF Covers
<1>8. \A i, state : LeafCandidates(i, state)' = LeafCandidates(i, state)
  BY <1>1, <1>6, <1>7 DEF LeafCandidates
<1>9. \A i, c : Yields(i, c)' <=> Yields(i, c)
  BY <1>2, <1>5, <1>8 DEF Yields
<1>10. \A i : Fragmented(i)' <=> Fragmented(i)
  BY <1>1, <1>2, <1>5 DEF Fragmented
<1>11. \A v : VisitSound(v)' <=> VisitSound(v)
  BY <1>1, <1>2, <1>5 DEF VisitSound
<1>12. Wrappers' = Wrappers /\ Fieldless' = Fieldless /\ Root' = Root
  BY <1>1 DEF Wrappers, Fieldless, Root
<1> QED BY <1>1, <1>2, <1>5, <1>6, <1>8, <1>9, <1>10, <1>11, <1>12

-----------------------------------------------------------------------------
(* A visit, and the branches that leave it.                                *)

(* Rules of one branch have the same next entry, its index included when   *)
(* indexes are those of places.                                            *)
LEMMA SameEntry ==
  ASSUME rules \in RuleSets, DistinctRules(rules),
         NEW depth \in Nat, NEW i \in 1..Len(rules), NEW j \in 1..Len(rules),
         depth + 1 <= Size(i), depth + 1 <= Size(j),
         BranchKey(i, depth) = BranchKey(j, depth)
  PROVE  rules[i].entries[depth + 1] = rules[j].entries[depth + 1]
<1> DEFINE a == rules[i].entries[depth + 1]
           b == rules[j].entries[depth + 1]
<1>1. a \in FieldEntries /\ b \in FieldEntries
  BY LoadedRules DEF Usable
<1>2. a.index = b.index
  <2>1. depth + 1 \in 1..Len(rules[i].entries) /\ depth + 1 <= Len(rules[j].entries)
    BY LoadedRules DEF Size
  <2> QED BY <2>1 DEF DistinctRules
<1>3. [a EXCEPT !.index = 0] = [b EXCEPT !.index = 0]
  BY DEF BranchKey
<1> HIDE DEF a, b
<1>4. \A e \in FieldEntries : e = [[e EXCEPT !.index = 0] EXCEPT !.index = e.index]
  <2> TAKE e \in FieldEntries
  <2>1. e = [x \in DOMAIN e |-> e[x]]
    BY DEF FieldEntries
  <2> QED BY <2>1
<1>5. a = b
  BY <1>1, <1>2, <1>3, <1>4
<1> QED BY <1>5 DEF a, b

LEMMA BranchFacts ==
  ASSUME rules \in RuleSets, DistinctRules(rules), NEW v, VisitSound(v),
         NEW group \in Branches(v.members, v.depth)
  PROVE  /\ group \subseteq v.members /\ Min(group) \in group
         /\ \A i \in group : v.depth + 1 <= Size(i)
         /\ \A i, j \in group :
              rules[i].entries[v.depth + 1] = rules[j].entries[v.depth + 1]
<1> DEFINE longer == v.members \ Leaves(v.members, v.depth)
<1>1. PICK m \in longer :
        group = {j \in longer : BranchKey(j, v.depth) = BranchKey(m, v.depth)}
  BY DEF Branches
<1>2. group \subseteq v.members /\ m \in group
  BY <1>1
<1>3. group \subseteq Nat
  BY <1>2 DEF VisitSound
<1>4. Min(group) \in group
  BY <1>2, <1>3, MinMember
<1>5. ASSUME NEW i \in group PROVE v.depth + 1 <= Size(i)
  <2>1. i \in v.members /\ v.depth # Size(i) /\ v.depth <= Size(i)
    BY <1>1, <1>5 DEF Leaves, Size, VisitSound
  <2>2. Size(i) \in Nat /\ v.depth \in Nat
    BY <2>1, LoadedRules DEF VisitSound
  <2> QED BY <2>1, <2>2
<1>6. ASSUME NEW i \in group, NEW j \in group
      PROVE  rules[i].entries[v.depth + 1] = rules[j].entries[v.depth + 1]
  <2>1. i \in 1..Len(rules) /\ j \in 1..Len(rules) /\ v.depth \in Nat
    BY <1>2 DEF VisitSound
  <2>2. BranchKey(i, v.depth) = BranchKey(j, v.depth)
    BY <1>1
  <2> QED BY <2>1, <2>2, <1>5, SameEntry
<1> QED BY <1>2, <1>4, <1>5, <1>6

(* Where a branch leads.                                                   *)
Step(v, group) == Taken(v.state, rules[Min(group)].entries[v.depth + 1])

Led(v, group) ==
  [members |-> group, depth |-> v.depth + 1, state |-> Step(v, group).state]

LEMMA OutcomeOfBranch ==
  ASSUME NEW v, NEW group
  PROVE  /\ BranchOutcome(v, group).visits
               = IF Step(v, group).kind = "sent" THEN {Led(v, group)} ELSE {}
         /\ BranchOutcome(v, group).errors
               = IF Step(v, group).kind = "failed" THEN {Step(v, group).error} ELSE {}
BY DEF BranchOutcome, Step, Led

LEMMA BranchLeads ==
  ASSUME rules \in RuleSets, DistinctRules(rules), NEW v, VisitSound(v),
         NEW group \in Branches(v.members, v.depth)
  PROVE  /\ \A i \in group : \A T : Trace(i, T) => T[v.depth + 1] = Step(v, group)
         /\ Ends(Step(v, group))
         /\ Step(v, group).kind = "sent" => VisitSound(Led(v, group))
<1> DEFINE m == Min(group)
           n == v.depth + 1
           entry == rules[m].entries[n]
           step == Step(v, group)
<1>1. /\ group \subseteq v.members /\ m \in group
      /\ \A i \in group : n <= Size(i)
      /\ \A i, j \in group : rules[i].entries[n] = rules[j].entries[n]
  BY BranchFacts
<1>2. /\ group \subseteq 1..Len(rules) /\ v.depth \in Nat
      /\ \A i \in group : Size(i) \in Nat
  BY <1>1, LoadedRules DEF VisitSound
<1>3. step = Taken(v.state, entry)
  BY DEF Step
<1>4. ASSUME NEW i \in group, NEW T, Trace(i, T) PROVE T[n] = step
  <2>1. T[v.depth] = [kind |-> "sent", state |-> v.state]
    BY <1>1, <1>4 DEF VisitSound
  <2>2. n \in 1..Size(i) /\ n - 1 = v.depth
    BY <1>1, <1>2
  <2> HIDE DEF n
  <2>3. T[n] = Scanned(T[v.depth], rules[i].entries[n])
    BY <1>4, <2>2 DEF Trace
  <2>4. rules[i].entries[n] = entry
    BY <1>1
  <2> QED BY <1>3, <2>1, <2>3, <2>4 DEF Scanned
<1>5. Ends(step)
  <2>1. Usable(entry)
    <3>1. n \in 1..Size(m) /\ m \in 1..Len(rules)
      BY <1>1, <1>2
    <3> QED BY <3>1, LoadedRules
  <2> QED BY <1>3, <2>1, TakenEnds
<1>6. ASSUME step.kind = "sent" PROVE VisitSound(Led(v, group))
  <2> DEFINE w == Led(v, group)
  <2>1. w.members = group /\ w.depth = n /\ w.state = step.state
    BY DEF Led
  <2>2. step = [kind |-> "sent", state |-> step.state]
    BY <1>3, <1>6, TakenSent
  <2>3. n \in Nat
    BY <1>2
  <2>4. ASSUME NEW i \in group, NEW j \in group, NEW k \in 1..n
        PROVE  rules[i].entries[k] = rules[j].entries[k]
    <3>1. k = n \/ k \in 1..v.depth
      BY <1>2
    <3> HIDE DEF n
    <3> QED BY <3>1, <1>1 DEF VisitSound
  <2> HIDE DEF w, step, n
  <2>5. VisitSound(w)
    BY <1>1, <1>2, <1>4, <2>1, <2>2, <2>3, <2>4 DEF VisitSound
  <2> QED BY <2>5 DEF w
<1> QED BY <1>4, <1>5, <1>6

(* Only one rule ends at a node.                                           *)
LEMMA OneLeaf ==
  ASSUME rules \in RuleSets, DistinctRules(rules), NEW v, VisitSound(v),
         NEW i \in Leaves(v.members, v.depth), NEW j \in Leaves(v.members, v.depth)
  PROVE  i = j
<1>1. /\ i \in v.members /\ j \in v.members
      /\ Len(rules[i].entries) = v.depth /\ Len(rules[j].entries) = v.depth
  BY DEF Leaves
<1>2. /\ i \in 1..Len(rules) /\ j \in 1..Len(rules)
      /\ \A k \in 1..v.depth : rules[i].entries[k] = rules[j].entries[k]
  BY <1>1 DEF VisitSound
<1>3. rules[i].entries \in Seq(FieldEntries) /\ rules[j].entries \in Seq(FieldEntries)
  BY <1>2, LoadedRules
<1>4. rules[i].entries = rules[j].entries
  BY <1>1, <1>2, <1>3, SeqEqual
<1> QED BY <1>2, <1>4 DEF DistinctRules

(* What a visit does, branch by branch.                                    *)
LEMMA VisitFacts ==
  ASSUME NEW visit, Visit(visit)
  PROVE  LET groups == Branches(visit.members, visit.depth)
             leaves == Leaves(visit.members, visit.depth)
             leaf == Min(leaves)
         IN /\ Pending /\ ParsesIpv6(packet) /\ compressed' = compressed
            /\ \A w \in agenda : w = visit \/ w \in agenda'
            /\ \A group \in groups :
                 Step(visit, group).kind = "sent" => Led(visit, group) \in agenda'
            /\ \A w \in agenda' :
                 \/ w \in agenda
                 \/ \E group \in groups : /\ Step(visit, group).kind = "sent"
                                          /\ w = Led(visit, group)
            /\ branchErrors \subseteq branchErrors'
            /\ \A group \in groups :
                 Step(visit, group).kind = "failed" =>
                   Step(visit, group).error \in branchErrors'
            /\ \A e \in branchErrors' :
                 \/ e \in branchErrors
                 \/ \E group \in groups : /\ Step(visit, group).kind = "failed"
                                          /\ e = Step(visit, group).error
            /\ candidates' = IF leaves = {} THEN candidates
                             ELSE candidates \cup LeafCandidates(leaf, visit.state)
            /\ natureErrors' =
                 (natureErrors \/ (leaves # {} /\ rules[leaf].nature = "fragmentation"))
<1> DEFINE groups == Branches(visit.members, visit.depth)
           leaves == Leaves(visit.members, visit.depth)
           leaf == Min(leaves)
           outcomes == {BranchOutcome(visit, group) : group \in groups}
           visits == UNION {o.visits : o \in outcomes}
           errors == UNION {o.errors : o \in outcomes}
<1>1. /\ Pending /\ ParsesIpv6(packet) /\ compressed' = compressed
      /\ agenda' = (agenda \ {visit}) \cup visits
      /\ branchErrors' = branchErrors \cup errors
      /\ candidates' = IF leaves = {} THEN candidates
                       ELSE candidates \cup LeafCandidates(leaf, visit.state)
      /\ natureErrors' =
           (natureErrors \/ (leaves # {} /\ rules[leaf].nature = "fragmentation"))
  BY DEF Visit
<1> HIDE DEF groups, leaves, leaf
<1>2. \A w : w \in visits <=>
         \E group \in groups : w \in BranchOutcome(visit, group).visits
  OBVIOUS
<1>3. \A e : e \in errors <=>
         \E group \in groups : e \in BranchOutcome(visit, group).errors
  OBVIOUS
<1>4. \A group \in groups :
         /\ BranchOutcome(visit, group).visits
              = IF Step(visit, group).kind = "sent" THEN {Led(visit, group)} ELSE {}
         /\ BranchOutcome(visit, group).errors
              = IF Step(visit, group).kind = "failed" THEN {Step(visit, group).error} ELSE {}
  BY OutcomeOfBranch
<1> HIDE DEF outcomes, visits, errors
<1>5. \A w \in agenda : w = visit \/ w \in agenda'
  BY <1>1
<1>6. ASSUME NEW group \in groups, Step(visit, group).kind = "sent"
      PROVE  Led(visit, group) \in agenda'
  BY <1>1, <1>2, <1>6, <1>4
<1>7. ASSUME NEW w \in agenda'
      PROVE  \/ w \in agenda
             \/ \E group \in groups : /\ Step(visit, group).kind = "sent"
                                      /\ w = Led(visit, group)
  <2> SUFFICES ASSUME w \notin agenda
               PROVE  \E group \in groups : /\ Step(visit, group).kind = "sent"
                                           /\ w = Led(visit, group)
    OBVIOUS
  <2>1. PICK group \in groups : w \in BranchOutcome(visit, group).visits
    BY <1>1, <1>2
  <2>2. Step(visit, group).kind = "sent" /\ w = Led(visit, group)
    BY <1>4, <2>1
  <2> QED BY <2>2
<1>8. ASSUME NEW group \in groups, Step(visit, group).kind = "failed"
      PROVE  Step(visit, group).error \in branchErrors'
  <2>1. Step(visit, group).error \in BranchOutcome(visit, group).errors
    BY <1>8, <1>4
  <2> QED BY <1>1, <1>3, <2>1
<1>9. ASSUME NEW e \in branchErrors'
      PROVE  \/ e \in branchErrors
             \/ \E group \in groups : /\ Step(visit, group).kind = "failed"
                                      /\ e = Step(visit, group).error
  <2> SUFFICES ASSUME e \notin branchErrors
               PROVE  \E group \in groups : /\ Step(visit, group).kind = "failed"
                                           /\ e = Step(visit, group).error
    OBVIOUS
  <2>1. PICK group \in groups : e \in BranchOutcome(visit, group).errors
    BY <1>1, <1>3
  <2>2. Step(visit, group).kind = "failed" /\ e = Step(visit, group).error
    BY <1>4, <2>1
  <2> QED BY <2>2
<1>10. branchErrors \subseteq branchErrors'
  BY <1>1
<1> QED BY <1>1, <1>5, <1>6, <1>7, <1>8, <1>9, <1>10 DEF groups, leaves, leaf

LEMMA VisitKeeps ==
  ASSUME TreeInv, NEW visit \in agenda, Visit(visit)
  PROVE  TreeInv'
<1> DEFINE groups == Branches(visit.members, visit.depth)
           leaves == Leaves(visit.members, visit.depth)
           leaf == Min(leaves)
<1>1. /\ Pending /\ ParsesIpv6(packet) /\ compressed' = compressed
      /\ \A w \in agenda : w = visit \/ w \in agenda'
      /\ \A group \in groups :
           Step(visit, group).kind = "sent" => Led(visit, group) \in agenda'
      /\ \A w \in agenda' :
           \/ w \in agenda
           \/ \E group \in groups : /\ Step(visit, group).kind = "sent"
                                    /\ w = Led(visit, group)
      /\ branchErrors \subseteq branchErrors'
      /\ \A group \in groups :
           Step(visit, group).kind = "failed" =>
             Step(visit, group).error \in branchErrors'
      /\ \A e \in branchErrors' :
           \/ e \in branchErrors
           \/ \E group \in groups : /\ Step(visit, group).kind = "failed"
                                    /\ e = Step(visit, group).error
      /\ candidates' = IF leaves = {} THEN candidates
                       ELSE candidates \cup LeafCandidates(leaf, visit.state)
      /\ natureErrors' =
           (natureErrors \/ (leaves # {} /\ rules[leaf].nature = "fragmentation"))
  BY VisitFacts
<1>2. UNCHANGED <<context, packet>>
  BY DEF Visit
<1>3. /\ rules' = rules /\ packet' = packet
      /\ \A i : Size(i)' = Size(i)
      /\ \A i, T : Trace(i, T)' <=> Trace(i, T)
      /\ \A i, state : LeafCandidates(i, state)' = LeafCandidates(i, state)
      /\ \A i, c : Yields(i, c)' <=> Yields(i, c)
      /\ \A i : Fragmented(i)' <=> Fragmented(i)
      /\ \A v : VisitSound(v)' <=> VisitSound(v)
  BY <1>2, SameSearch
<1>4. rules \in RuleSets /\ DistinctRules(rules) /\ VisitSound(visit)
  BY DEF TreeInv
<1>5. /\ \A group \in groups : \A i \in group : \A T :
           Trace(i, T) => T[visit.depth + 1] = Step(visit, group)
      /\ \A group \in groups : Ends(Step(visit, group))
      /\ \A group \in groups :
           Step(visit, group).kind = "sent" => VisitSound(Led(visit, group))
  BY <1>4, BranchLeads
<1>6. \A i \in visit.members : i \in 1..Len(rules) /\ Size(i) \in Nat
  BY <1>4, LoadedRules DEF VisitSound
<1>7. \A i \in leaves : leaf = i
  <2> TAKE i \in leaves
  <2>1. leaves \subseteq Nat
    BY <1>6 DEF Leaves
  <2>2. leaf \in leaves
    BY <2>1, MinMember
  <2> QED BY <2>2, <1>4, OneLeaf
<1>8. \A i \in leaves : \A T : Trace(i, T) => T[Size(i)] = [kind |-> "sent", state |-> visit.state]
  <2> TAKE i \in leaves
  <2>1. i \in visit.members /\ Size(i) = visit.depth
    BY DEF Leaves, Size
  <2> QED BY <2>1, <1>4 DEF VisitSound
<1>9. leaves # {} => leaf \in leaves
  BY <1>7
<1>10. candidates \subseteq candidates' /\ (natureErrors => natureErrors')
  BY <1>1
<1>11. \A v \in agenda' : VisitSound(v)'
  BY <1>1, <1>3, <1>5 DEF TreeInv
<1>12. ASSUME NEW i \in 1..Len(rules), Answered(i) PROVE Answered(i)'
  BY <1>1, <1>3, <1>10, <1>12 DEF Answered
<1>13. ASSUME NEW i \in leaves PROVE Answered(i)'
  <2>1. leaf = i /\ leaves # {}
    BY <1>7
  <2>2. LeafCandidates(i, visit.state) \subseteq candidates'
    BY <1>1, <2>1
  <2>3. rules[i].nature = "fragmentation" => natureErrors'
    BY <1>1, <2>1
  <2> QED BY <1>3, <1>8, <2>2, <2>3 DEF Answered
<1>14. ASSUME NEW group \in groups, NEW i \in group
       PROVE  Answered(i)' \/ \E v \in agenda' : i \in v.members
  <2>1. CASE Step(visit, group).kind = "sent"
    BY <1>1, <2>1 DEF Led
  <2>2. CASE Step(visit, group).kind # "sent"
    <3>1. i \in visit.members /\ visit.depth + 1 <= Size(i)
      BY <1>4, BranchFacts
    <3>2. visit.depth \in Nat /\ Size(i) \in Nat
      BY <1>4, <1>6, <3>1 DEF VisitSound
    <3>3. visit.depth + 1 \in 0..Size(i)
      BY <3>1, <3>2
    <3>4. ASSUME NEW T, Trace(i, T) PROVE T[Size(i)] = Step(visit, group)
      <4>1. T[visit.depth + 1] = Step(visit, group)
        BY <1>5, <3>4
      <4> QED BY <4>1, <2>2, <3>2, <3>3, <3>4, TraceStops
    <3>5. Step(visit, group).kind = "failed" => branchErrors' # {}
      BY <1>1
    <3> QED BY <1>3, <2>2, <3>4, <3>5 DEF Answered
  <2> QED BY <2>1, <2>2
<1>15. ASSUME NEW i \in visit.members, i \notin leaves
       PROVE  \E group \in groups : i \in group
  <2> DEFINE longer == visit.members \ leaves
             group(m) == {j \in longer : BranchKey(j, visit.depth) = BranchKey(m, visit.depth)}
  <2>1. i \in longer
    BY <1>15
  <2>2. groups = {group(m) : m \in longer}
    BY DEF Branches
  <2>3. group(i) \in groups /\ i \in group(i)
    BY <2>1, <2>2
  <2> QED BY <2>3
<1>16. Covered'
  <2>1. ASSUME NEW i \in 1..Len(rules)
        PROVE  Answered(i)' \/ \E v \in agenda' : i \in v.members
    <3>1. CASE Answered(i)
      BY <1>12, <3>1
    <3>2. CASE i \in visit.members
      BY <1>13, <1>14, <1>15, <3>2
    <3>3. ASSUME NEW v \in agenda, i \in v.members, v # visit
          PROVE  \E w \in agenda' : i \in w.members
      BY <1>1, <3>3
    <3> QED BY <3>1, <3>2, <3>3 DEF TreeInv, Covered
  <2> QED BY <1>3, <2>1 DEF Covered
<1>17. Founded'
  <2>1. ASSUME NEW c \in candidates' PROVE \E i \in 1..Len(rules) : Yields(i, c)
    <3>1. CASE c \in candidates
      BY <3>1 DEF TreeInv, Founded
    <3>2. CASE c \notin candidates
      <4>1. leaf \in leaves /\ c \in LeafCandidates(leaf, visit.state)
        BY <1>1, <1>9, <2>1, <3>2
      <4>2. leaf \in 1..Len(rules)
        BY <1>6, <4>1 DEF Leaves
      <4>3. Yields(leaf, c)
        <5> HIDE DEF leaf, leaves
        <5> QED BY <1>8, <4>1 DEF Yields
      <4> QED BY <4>2, <4>3
    <3> QED BY <3>1, <3>2
  <2>2. ASSUME natureErrors' PROVE \E i \in 1..Len(rules) : Fragmented(i)
    <3>1. CASE natureErrors
      BY <3>1 DEF TreeInv, Founded
    <3>2. CASE ~natureErrors
      <4>1. leaf \in leaves /\ rules[leaf].nature = "fragmentation"
        BY <1>1, <1>9, <2>2, <3>2
      <4>2. leaf \in 1..Len(rules)
        BY <1>6, <4>1 DEF Leaves
      <4>3. Fragmented(leaf)
        <5> HIDE DEF leaf, leaves
        <5> QED BY <1>8, <4>1 DEF Fragmented
      <4> QED BY <4>2, <4>3
    <3> QED BY <3>1, <3>2
  <2>3. branchErrors' \subseteq StepErrors
    BY <1>1, <1>5 DEF TreeInv, Founded, Ends
  <2> QED BY <1>3, <2>1, <2>2, <2>3 DEF Founded
<1>18. Outcome'
  BY <1>1 DEF Outcome, Pending
<1> QED BY <1>3, <1>4, <1>11, <1>16, <1>17, <1>18 DEF TreeInv

(* The other steps leave the agenda and what was found as they are.        *)
LEMMA ChooseSets == Choose => Outcome'
<1> SUFFICES ASSUME Choose PROVE Outcome'
  OBVIOUS
<1>1. /\ agenda = {} /\ agenda' = agenda /\ ParsesIpv6(packet) /\ packet' = packet
      /\ candidates' = candidates /\ natureErrors' = natureErrors
      /\ branchErrors' = branchErrors
  BY DEF Choose
<1>2. Chosen'
  <2>1. CASE \E best \in candidates : /\ \A c \in candidates : Precedes(best, c)
                                      /\ compressed' = Ok(best)
    BY <1>1, <2>1 DEF Chosen
  <2>2. CASE NoCandidate
    BY <1>1, <2>2 DEF Chosen, NoCandidate
  <2> QED BY <2>1, <2>2 DEF Choose
<1> QED BY <1>1, <1>2 DEF Outcome

LEMMA MalformedSets == rules \in RuleSets /\ CompressMalformed => Outcome'
<1> SUFFICES ASSUME rules \in RuleSets, CompressMalformed PROVE Outcome'
  OBVIOUS
<1>1. /\ ~ParsesIpv6(packet)
      /\ compressed' = IF Wrappers = {} THEN Err("Packet") ELSE Ok(Wrapped(Min(Wrappers)))
      /\ UNCHANGED <<context, packet>>
  BY DEF CompressMalformed
<1>2. packet' = packet /\ Wrappers' = Wrappers /\ \A i : Wrapped(i)' = Wrapped(i)
  BY <1>1, SameSearch
<1>3. Wrapped(Min(Wrappers))' = Wrapped(Min(Wrappers))
  BY <1>2
<1> QED BY <1>1, <1>2, <1>3 DEF Outcome

LEMMA OthersKeep ==
  ASSUME TreeInv, UNCHANGED <<context, packet, agenda, candidates, natureErrors, branchErrors>>,
         Outcome'
  PROVE  TreeInv'
<1>1. UNCHANGED <<context, packet>>
  OBVIOUS
<1>2. /\ rules' = rules
      /\ \A i : Size(i)' = Size(i)
      /\ \A i, T : Trace(i, T)' <=> Trace(i, T)
      /\ \A i, state : LeafCandidates(i, state)' = LeafCandidates(i, state)
      /\ \A i, c : Yields(i, c)' <=> Yields(i, c)
      /\ \A i : Fragmented(i)' <=> Fragmented(i)
      /\ \A v : VisitSound(v)' <=> VisitSound(v)
  BY <1>1, SameSearch
<1>3. \A i : Answered(i)' <=> Answered(i)
  BY <1>2 DEF Answered
<1>4. Covered' /\ Founded'
  BY <1>2, <1>3 DEF TreeInv, Covered, Founded
<1> QED BY <1>2, <1>4 DEF TreeInv

LEMMA TreeKeeps == TreeInv /\ [Compress]_compressVars => TreeInv'
<1> SUFFICES ASSUME TreeInv, [Compress]_compressVars PROVE TreeInv'
  OBVIOUS
<1>1. CASE CompressMalformed
  <2>1. UNCHANGED <<context, packet, agenda, candidates, natureErrors, branchErrors>>
    BY <1>1 DEF CompressMalformed
  <2>2. Outcome'
    BY <1>1, MalformedSets DEF TreeInv
  <2> QED BY <2>1, <2>2, OthersKeep
<1>2. CASE \E visit \in agenda : Visit(visit)
  BY <1>2, VisitKeeps
<1>3. CASE Choose
  <2>1. UNCHANGED <<context, packet, agenda, candidates, natureErrors, branchErrors>>
    BY <1>3 DEF Choose
  <2> QED BY <1>3, <2>1, ChooseSets, OthersKeep
<1>4. CASE UNCHANGED compressVars
  <2>1. /\ UNCHANGED <<context, packet, agenda, candidates, natureErrors, branchErrors>>
        /\ UNCHANGED <<context, packet>> /\ compressed' = compressed
    BY <1>4 DEF compressVars
  <2>2. packet' = packet /\ Wrappers' = Wrappers
        /\ Wrapped(Min(Wrappers))' = Wrapped(Min(Wrappers))
    BY <2>1, SameSearch
  <2>3. Outcome'
    BY <2>1, <2>2 DEF TreeInv, Outcome, Pending, Chosen
  <2> QED BY <2>1, <2>3, OthersKeep
<1> QED BY <1>1, <1>2, <1>3, <1>4 DEF Compress

(* Initially the root leads to every rule.                                 *)
LEMMA TreeStarts ==
  ASSUME \A rs \in RuleSets : DistinctRules(rs), CompressInit
  PROVE  TreeInv
<1>1. /\ rules \in RuleSets /\ agenda = {Root} /\ candidates = {}
      /\ natureErrors = FALSE /\ branchErrors = {} /\ Pending
  BY DEF CompressInit, ContextInit, Pending
<1>2. DistinctRules(rules)
  BY <1>1
<1>3. VisitSound(Root)
  <2>1. /\ Root.members = 1..Len(rules) /\ Root.depth = 0 /\ Root.state = Nothing
    BY DEF Root
  <2>2. \A i \in 1..Len(rules) : Size(i) \in Nat
    BY <1>1, LoadedRules
  <2> QED BY <2>1, <2>2 DEF VisitSound, Trace, Untouched
<1>4. Covered
  BY <1>1 DEF Covered, Root
<1>5. Founded /\ Outcome
  BY <1>1 DEF Founded, Outcome
<1> QED BY <1>1, <1>2, <1>3, <1>4, <1>5 DEF TreeInv

(* The walk of the tree and the search of every rule stay in step, for all *)
(* rule sets whose rules differ, packets and directions.                   *)
THEOREM TreeInvariant ==
  ASSUME \A rs \in RuleSets : DistinctRules(rs)
  PROVE  CompressSpec => []TreeInv
<1>1. CompressInit => TreeInv
  BY TreeStarts
<1>2. TreeInv /\ [Compress]_compressVars => TreeInv'
  BY TreeKeeps
<1> QED BY <1>1, <1>2, PTL DEF CompressSpec

-----------------------------------------------------------------------------
(* When the walk is over, every rule has answered.                         *)
LEMMA AllAnswered ==
  ASSUME TreeInv, Concluded, NEW i \in 1..Len(rules)
  PROVE  \E T : /\ Trace(i, T) /\ Answered(i)
                /\ Scan(i).rule = i /\ Scan(i).outcome = T[Size(i)]
<1>1. agenda = {}
  BY DEF TreeInv, Outcome, Concluded
<1>2. Answered(i)
  BY <1>1 DEF TreeInv, Covered
<1>3. Size(i) \in Nat
  BY LoadedRules DEF TreeInv
<1> QED BY <1>2, <1>3, ScanEnds

LEMMA ScansFound ==
  \A c : c \in ScanCandidates <=>
    \E i \in 1..Len(rules) : /\ Scan(i).outcome.kind = "sent"
                             /\ c \in LeafCandidates(Scan(i).rule, Scan(i).outcome.state)
<1> TAKE c
<1> DEFINE sent == {s \in Scans : s.outcome.kind = "sent"}
<1>1. c \in ScanCandidates <=>
        \E s \in sent : c \in LeafCandidates(s.rule, s.outcome.state)
  BY DEF ScanCandidates
<1>2. \A s : s \in sent <=>
        \E i \in 1..Len(rules) : s = Scan(i) /\ Scan(i).outcome.kind = "sent"
  BY DEF Scans
<1> HIDE DEF sent
<1> QED BY <1>1, <1>2

LEMMA FoundAll ==
  ASSUME TreeInv, Concluded
  PROVE  candidates = ScanCandidates
<1>1. ASSUME NEW c \in candidates PROVE c \in ScanCandidates
  <2>1. PICK i \in 1..Len(rules) : Yields(i, c)
    BY DEF TreeInv, Founded
  <2>2. PICK T : Trace(i, T) /\ Scan(i).rule = i /\ Scan(i).outcome = T[Size(i)]
    BY AllAnswered
  <2>3. T[Size(i)].kind = "sent" /\ c \in LeafCandidates(i, T[Size(i)].state)
    BY <2>1, <2>2 DEF Yields
  <2> QED BY <2>2, <2>3, ScansFound
<1>2. ASSUME NEW c \in ScanCandidates PROVE c \in candidates
  <2>1. PICK i \in 1..Len(rules) :
          /\ Scan(i).outcome.kind = "sent"
          /\ c \in LeafCandidates(Scan(i).rule, Scan(i).outcome.state)
    BY ScansFound
  <2>2. PICK T : /\ Trace(i, T) /\ Answered(i)
                 /\ Scan(i).rule = i /\ Scan(i).outcome = T[Size(i)]
    BY AllAnswered
  <2>3. LeafCandidates(i, T[Size(i)].state) \subseteq candidates
    BY <2>1, <2>2 DEF Answered
  <2> QED BY <2>1, <2>2, <2>3
<1> QED BY <1>1, <1>2

(* Merging rules that begin alike, and taking the branches in any order,   *)
(* costs nothing: compress returns the shortest of the datagrams that the  *)
(* rules yield one by one, or none if there is none.                       *)
THEOREM ShortestIsFound ==
  ASSUME \A rs \in RuleSets : DistinctRules(rs)
  PROVE  CompressSpec => []ShortestOfAll
<1>1. TreeInv => ShortestOfAll
  <2> SUFFICES ASSUME TreeInv, Concluded
               PROVE  /\ compressed.ok <=> candidates # {}
                      /\ compressed.ok =>
                           /\ compressed.value \in candidates
                           /\ \A c \in candidates : Precedes(compressed.value, c)
    BY FoundAll DEF ShortestOfAll
  <2>1. Chosen
    BY DEF TreeInv, Outcome, Concluded
  <2>2. ASSUME NEW best \in candidates, \A c \in candidates : Precedes(best, c),
               compressed = Ok(best)
        PROVE  /\ compressed.ok /\ candidates # {}
               /\ compressed.value \in candidates
               /\ \A c \in candidates : Precedes(compressed.value, c)
    BY <2>2, Outcomes
  <2>3. ASSUME candidates = {}, NEW e, compressed = Err(e) PROVE ~compressed.ok
    BY <2>3, Outcomes
  <2> QED BY <2>1, <2>2, <2>3 DEF Chosen
<1> QED BY <1>1, TreeInvariant, PTL

(* UnsupportedRuleNature means that a fragmentation rule matched, and      *)
(* NoMatchingRule that no rule failed, whatever order the branches had.    *)
THEOREM ErrorsAreTrue ==
  ASSUME \A rs \in RuleSets : DistinctRules(rs)
  PROVE  CompressSpec => []ErrorsTellWhy
<1>1. TreeInv => ErrorsTellWhy
  <2> SUFFICES ASSUME TreeInv, Concluded, ~compressed.ok
               PROVE  /\ compressed.error = "UnsupportedRuleNature" <=>
                           \E scan \in Scans :
                              /\ scan.outcome.kind = "sent"
                              /\ rules[scan.rule].nature = "fragmentation"
                      /\ compressed.error = "NoMatchingRule" =>
                           \A scan \in Scans : scan.outcome.kind # "failed"
    BY DEF ErrorsTellWhy
  <2>1. branchErrors \subseteq StepErrors
    BY DEF TreeInv, Founded
  <2>2. \/ natureErrors /\ compressed.error = "UnsupportedRuleNature"
        \/ \E e \in branchErrors : ~natureErrors /\ compressed.error = e
        \/ ~natureErrors /\ branchErrors = {} /\ compressed.error = "NoMatchingRule"
    <3>1. Chosen
      BY DEF TreeInv, Outcome, Concluded
    <3>2. \A best : compressed # Ok(best)
      BY Outcomes
    <3>3. \A e : Err(e).error = e
      BY DEF Err
    <3> QED BY <3>1, <3>2, <3>3 DEF Chosen
  <2>3. compressed.error = "UnsupportedRuleNature" <=> natureErrors
    BY <2>1, <2>2 DEF StepErrors
  <2>4. compressed.error = "NoMatchingRule" => branchErrors = {}
    BY <2>1, <2>2 DEF StepErrors
  <2>5. ASSUME natureErrors
        PROVE  \E i \in 1..Len(rules) : /\ Scan(i).outcome.kind = "sent"
                                        /\ rules[Scan(i).rule].nature = "fragmentation"
    <3>1. PICK i \in 1..Len(rules) : Fragmented(i)
      BY <2>5 DEF TreeInv, Founded
    <3>2. PICK T : Trace(i, T) /\ Scan(i).rule = i /\ Scan(i).outcome = T[Size(i)]
      BY AllAnswered
    <3> QED BY <3>1, <3>2 DEF Fragmented
  <2>6. ASSUME NEW i \in 1..Len(rules)
        PROVE  /\ Scan(i).outcome.kind = "sent" /\ rules[Scan(i).rule].nature = "fragmentation"
                    => natureErrors
               /\ Scan(i).outcome.kind = "failed" => branchErrors # {}
    <3>1. PICK T : /\ Trace(i, T) /\ Answered(i)
                   /\ Scan(i).rule = i /\ Scan(i).outcome = T[Size(i)]
      BY AllAnswered
    <3> QED BY <3>1 DEF Answered
  <2> QED BY <2>3, <2>4, <2>5, <2>6 DEF Scans
<1> QED BY <1>1, TreeInvariant, PTL

-----------------------------------------------------------------------------
(* The first rule without fields has its say at the root: what is chosen   *)
(* is no longer than its datagram.  This needs nothing of the rule sets.   *)
LEMMA RootAnswers ==
  ASSUME rules \in RuleSets, Visit(Root), Fieldless # {},
         rules[Min(Fieldless)].nature # "fragmentation"
  PROVE  Wrapped(Min(Fieldless)) \in candidates'
<1> DEFINE leaves == Leaves(1..Len(rules), 0)
<1>1. Root.members = 1..Len(rules) /\ Root.depth = 0
  BY DEF Root
<1>2. leaves = Fieldless
  <2>1. ASSUME NEW i \in 1..Len(rules)
        PROVE  Len(rules[i].entries) = 0 <=> rules[i].entries = <<>>
    <3>1. rules[i].entries \in Seq(FieldEntries)
      BY LoadedRules
    <3> QED BY <3>1, EmptySeq
  <2> QED BY <2>1 DEF Leaves, Fieldless
<1>3. Min(Fieldless) \in Fieldless
  <2>1. Fieldless \subseteq Nat
    BY DEF Fieldless
  <2> QED BY <2>1, MinMember
<1>4. LeafCandidates(Min(Fieldless), Root.state) = {Wrapped(Min(Fieldless))}
  <2>1. WrapsPacket(rules[Min(Fieldless)])
    BY <1>3 DEF Fieldless, WrapsPacket
  <2> QED BY <2>1 DEF LeafCandidates
<1>5. candidates' = candidates \cup LeafCandidates(Min(Fieldless), Root.state)
  BY <1>1, <1>2, VisitFacts
<1> QED BY <1>4, <1>5

LEMMA WrapKeeps == WrapInv /\ [Compress]_compressVars => WrapInv'
<1> SUFFICES ASSUME WrapInv, [Compress]_compressVars PROVE WrapInv'
  OBVIOUS
<1>1. UNCHANGED <<context, packet>>
  BY DEF Compress, CompressMalformed, Visit, Choose, compressVars
<1>2. /\ rules' = rules /\ packet' = packet
      /\ Root' = Root /\ Fieldless' = Fieldless /\ Wrappers' = Wrappers
      /\ Wrapped(Min(Fieldless))' = Wrapped(Min(Fieldless))
      /\ Wrapped(Min(Wrappers))' = Wrapped(Min(Wrappers))
  BY <1>1, SameSearch
<1>3. CASE CompressMalformed
  <2>1. agenda' = agenda /\ candidates' = candidates
    BY <1>3 DEF CompressMalformed
  <2>2. Outcome'
    BY <1>3, MalformedSets DEF WrapInv
  <2> QED BY <1>2, <2>1, <2>2 DEF WrapInv, FieldlessSeen
<1>4. ASSUME NEW visit \in agenda, Visit(visit) PROVE WrapInv'
  <2>1. /\ Pending /\ compressed' = compressed
        /\ \A w \in agenda : w = visit \/ w \in agenda'
        /\ candidates \subseteq candidates'
    BY <1>4 DEF Visit
  <2>2. Outcome'
    BY <2>1 DEF Outcome, Pending
  <2>3. CASE Root \in agenda /\ visit = Root
    BY <1>2, <1>4, <2>2, <2>3, RootAnswers DEF WrapInv, FieldlessSeen
  <2>4. CASE Root \in agenda /\ visit # Root
    BY <1>2, <2>1, <2>2, <2>4 DEF WrapInv, FieldlessSeen
  <2>5. CASE Root \notin agenda
    BY <1>2, <2>1, <2>2, <2>5 DEF WrapInv, FieldlessSeen
  <2> QED BY <2>3, <2>4, <2>5
<1>5. CASE Choose
  <2>1. agenda' = agenda /\ candidates' = candidates
    BY <1>5 DEF Choose
  <2>2. Outcome'
    BY <1>5, ChooseSets
  <2> QED BY <1>2, <2>1, <2>2 DEF WrapInv, FieldlessSeen
<1>6. CASE UNCHANGED compressVars
  BY <1>2, <1>6 DEF WrapInv, FieldlessSeen, Outcome, Pending, Chosen, compressVars
<1> QED BY <1>3, <1>4, <1>5, <1>6 DEF Compress

(* With a rule that describes no field a packet is never refused, and no   *)
(* datagram is longer than the ID of the first such rule and the packet,   *)
(* for all rule sets, packets and directions.                              *)
THEOREM WrappingBounds == CompressSpec => []NeverWorseThanWrapping
<1>1. CompressInit => WrapInv
  BY DEF CompressInit, ContextInit, WrapInv, Outcome, Pending, FieldlessSeen
<1>2. WrapInv /\ [Compress]_compressVars => WrapInv'
  BY WrapKeeps
<1>3. WrapInv => NeverWorseThanWrapping
  <2> SUFFICES ASSUME WrapInv, ~Pending PROVE NeverWorseThanWrapping
    BY DEF NeverWorseThanWrapping
  <2>1. ASSUME ~ParsesIpv6(packet), Wrappers # {} PROVE compressed.ok
    <3>1. compressed = Ok(Wrapped(Min(Wrappers)))
      BY <2>1 DEF WrapInv, Outcome
    <3> QED BY <3>1, Outcomes
  <2>2. ASSUME ParsesIpv6(packet), Fieldless # {}, rules[Min(Fieldless)].nature # "fragmentation"
        PROVE  compressed.ok /\ Precedes(compressed.value, Wrapped(Min(Fieldless)))
    <3>1. agenda = {} /\ Chosen
      BY <2>2 DEF WrapInv, Outcome
    <3>2. Wrapped(Min(Fieldless)) \in candidates
      BY <2>2, <3>1 DEF WrapInv, FieldlessSeen
    <3>3. PICK best \in candidates : /\ \A c \in candidates : Precedes(best, c)
                                      /\ compressed = Ok(best)
      BY <3>1, <3>2 DEF Chosen
    <3> QED BY <3>2, <3>3, Outcomes
  <2> QED BY <2>1, <2>2 DEF NeverWorseThanWrapping
<1> QED BY <1>1, <1>2, <1>3, PTL DEF CompressSpec
=============================================================================
