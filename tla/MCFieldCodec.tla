---------------------------- MODULE MCFieldCodec ----------------------------
(***************************************************************************)
(* Instances of FieldCodec: entries of every length kind with every        *)
(* matching operator and action they allow, and values on both sides of    *)
(* the boundaries of the length prefix and of the 64-bit alignment change. *)
(***************************************************************************)
EXTENDS FieldCodec

Byte(v) == BitsOf(v, 8)
Word(v) == BitsOf(v, 16)
Stripes(n) == [i \in 1..n |-> (i \div 3) % 2]

None == [kind |-> "none", values |-> <<>>]
Bytes1(t) == [kind |-> "bytes", values |-> <<t>>]
Mapping(ts) == [kind |-> "mapping", values |-> ts]

Fixed(n) == [kind |-> "fixed", n |-> n]
AnyBytes == [kind |-> "bytes", n |-> 0]
AnyBits == [kind |-> "bits", n |-> 0]
Previous == [kind |-> "previous", n |-> 0]
TokenLength == [kind |-> "token", n |-> 0]
Function == [kind |-> "function", n |-> 2900]
PreviousBits == [kind |-> "previous-bits", n |-> 0]

Equal == [kind |-> "equal", n |-> 0]
Ignore == [kind |-> "ignore", n |-> 0]
Msb(n) == [kind |-> "msb", n |-> n]
Listed == [kind |-> "mapping", n |-> 0]

Entry(field, length, target, matching, action) ==
  [field |-> field, number |-> 0, index |-> 1, position |-> 1, dir |-> "bi",
   length |-> length,
   target |-> target, matching |-> matching, action |-> action]

Lengths == {Fixed(4), Fixed(8), Fixed(12), Fixed(16), Fixed(120),
            AnyBytes, AnyBits, Previous, PreviousBits, TokenLength, Function}

(* One mapping for each width of the index, 0 to 2 bits.                   *)
Mappings == {<<Byte(5)>>, <<Byte(6), Byte(5)>>, <<Byte(5), Byte(9), Byte(6)>>,
             <<Word(5), Word(262), Word(7), Word(0)>>}

(* Every length kind with every matching operator and action.              *)
AllEntries ==
  {Entry("f", l, None, Ignore, "value-sent") : l \in Lengths}
  \cup {Entry("f", l, Bytes1(Byte(5)), Equal, "not-sent") : l \in Lengths}
  \cup {Entry("f", l, Bytes1(Byte(5)), Ignore, "not-sent") : l \in Lengths}
  \cup {Entry("f", l, Bytes1(SubSeq(Stripes(120), 1, 16)), Msb(13), "lsb") :
          l \in {Fixed(16), Fixed(120), AnyBytes, AnyBits}}
  \cup {Entry("f", l, Bytes1(Byte(5)), Msb(n), a) :
          l \in Lengths, n \in {0, 4}, a \in {"lsb", "not-sent", "value-sent"}}
  \cup {Entry("f", l, Mapping(ts), Listed, a) :
          l \in Lengths, ts \in Mappings, a \in {"mapping-sent", "value-sent"}}
  \cup {Entry("ipv6-deviid", l, None, Ignore, "device-iid") :
          l \in {Fixed(64), AnyBytes, AnyBits}}
  \cup {Entry("ipv6-appiid", Fixed(64), None, Ignore, "app-iid"),
        Entry("coap-tkl", Fixed(4), None, Ignore, "value-sent")}

(* A shorter target that equals the value once leading zeros are dropped.  *)
ShortTargets ==
  {Entry("coap-option", l, Bytes1(Byte(5)), Equal, "not-sent") :
     l \in {Fixed(16), AnyBytes}}

AllValues ==
  {<<>>, BitsOf(5, 4), Byte(0), Byte(5), Byte(6), Byte(69), BitsOf(5, 12),
   Word(5), Word(262), Word(1541), Provider["ipv6-deviid"], Zeros(60) \o BitsOf(9, 4)}
  \cup {Stripes(n) : n \in {14, 15, 16, 112, 120, 254, 255, 2032, 2040}}
OptionValues == {Byte(5), Word(5), Word(262)}

(* Nothing before the field, or a length field of one or two bytes.        *)
LengthFields ==
  {<<>>} \cup {<<[field |-> "coap-tkl", number |-> 0, index |-> 0, scope |-> "outer",
                   value |-> BitsOf(n, 4)]>> : n \in {1, 2, 4}}

Followers == {<<>>, <<0, 0>>, <<1, 1, 1, 1, 1>>}
Iids == [f \in {"ipv6-deviid", "ipv6-appiid"} |->
           Zeros(50) \o BitsOf(IF f = "ipv6-deviid" THEN 9077 ELSE 12, 14)]
=============================================================================
