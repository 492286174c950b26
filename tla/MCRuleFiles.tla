----------------------------- MODULE MCRuleFiles -----------------------------
(***************************************************************************)
(* Instances of RuleFiles: one rule set that uses every kind of entry,     *)
(* rule sets that break one rule of the loader each, and SIDs that are     *)
(* given to other identifiers after the first SID file.                    *)
(***************************************************************************)
EXTENDS RuleFiles

Names ==
  <<"di-bidirectional", "di-up", "di-down", "mo-equal", "mo-ignore", "mo-msb",
    "mo-match-mapping", "cda-not-sent", "cda-value-sent", "cda-mapping-sent",
    "cda-lsb", "cda-compute", "cda-deviid", "cda-appiid", "fl-token-length",
    "fl-variable", "fl-length-bytes", "space-id-coap", "nature-compression",
    "nature-no-compression", "nature-fragmentation", "nature-management",
    "ipv6-version", "ipv6-deviid", "udp-length", "coap-tkl", "coap-token",
    Marker, Payload, "coap-option-uri-path", "coap-option-uri-host",
    "coap-option-observe">>

MCIdentifiers == ToSet(Names)
MCSidFile == [k \in 1..Len(Names) |-> <<Names[k], 5000 + k>>]
(* One number is free.                                                     *)
MCSids == 5001..(5001 + Len(Names))

(* Operators, a length function and a field get the free number, that of   *)
(* another one, or their own back.                                         *)
Free == 5001 + Len(Names)
MCRevised ==
  {<<"mo-equal", 5004>>, <<"mo-equal", Free>>, <<"mo-ignore", 5004>>,
   <<"ipv6-version", 5004>>, <<"fl-variable", Free>>}

-----------------------------------------------------------------------------
Entry_(field, number, index, length, target, matching, action) ==
  [field |-> field, number |-> number, index |-> index, position |-> 1,
   dir |-> "bi", length |-> length, target |-> target, matching |-> matching,
   action |-> action]

Fixed(n) == [kind |-> "fixed", n |-> n]
Func(kind, n) == [kind |-> kind, n |-> n]
Nothing == [kind |-> "none", values |-> <<>>]
Only(bits) == [kind |-> "bytes", values |-> <<bits>>]
OneOf(values) == [kind |-> "mapping", values |-> values]
Mo(kind, n) == [kind |-> kind, n |-> n]

Version == Entry_("ipv6-version", 0, 0, Fixed(4), Only(BitsOf(6, 8)), Mo("equal", 0), "not-sent")
DeviceIid == Entry_("ipv6-deviid", 0, 1, Fixed(64), Nothing, Mo("ignore", 0), "device-iid")
LengthField == Entry_("udp-length", 0, 2, Fixed(16), Nothing, Mo("ignore", 0), "compute")
TokenLength == Entry_("coap-tkl", 0, 3, Fixed(4), Nothing, Mo("ignore", 0), "value-sent")
Token == Entry_("coap-token", 0, 5, Func("token", 0), Nothing, Mo("ignore", 0), "value-sent")
UriPath ==
  [Entry_(Option, 11, 6, Func("bytes", 0), OneOf(<<BitsOf(99, 8), BitsOf(500, 16), <<>>>>),
          Mo("mapping", 0), "mapping-sent") EXCEPT !.position = 2]
Observe ==
  [Entry_(Option, 6, 7, Func("previous", 3), Only(BitsOf(16, 8)), Mo("msb", 4), "lsb")
     EXCEPT !.dir = "up", !.position = 0]
MarkerEntry == Entry_(Marker, 0, 8, Fixed(8), Nothing, Mo("ignore", 0), "not-sent")
PayloadEntry_ == Entry_(Payload, 0, 9, Func("bytes", 0), Nothing, Mo("ignore", 0), "value-sent")

EveryKind == <<Version, DeviceIid, LengthField, TokenLength, Token, UriPath, Observe,
               MarkerEntry, PayloadEntry_>>

Rule_(value, len, nature, entries) ==
  [id |-> [value |-> value, len |-> len], nature |-> nature, entries |-> entries]

Good == <<Rule_(0, 2, "compression", EveryKind), Rule_(6, 3, "no-compression", <<>>),
          Rule_(14, 4, "management", <<Version, LengthField>>)>>

(* One entry that validate_field_rule refuses.                             *)
BadEntries ==
  {[Version EXCEPT !.target = Nothing],
   [Version EXCEPT !.action = "lsb"],
   [Version EXCEPT !.action = "compute"],
   [Version EXCEPT !.action = "device-iid"],
   [UriPath EXCEPT !.matching = Mo("equal", 0)],
   [MarkerEntry EXCEPT !.action = "value-sent"],
   [PayloadEntry_ EXCEPT !.length = Fixed(12)],
   [PayloadEntry_ EXCEPT !.length = Func("bits", 0)],
   [Version EXCEPT !.field = "coap-option-observe"],
   [DeviceIid EXCEPT !.action = "app-iid"]}

BadRuleSets ==
  {<<Rule_(0, 1, "compression", <<Version, [bad EXCEPT !.index = 4]>>)>> : bad \in BadEntries}
  \cup {<<Rule_(1, 2, "compression", <<Version>>), Rule_(5, 4, "fragmentation", <<>>)>>,
        <<Rule_(5, 4, "compression", <<Version>>), Rule_(1, 2, "fragmentation", <<>>)>>,
        <<Rule_(4, 2, "compression", <<Version>>)>>,
        <<Rule_(0, 0, "compression", <<Version>>)>>,
        <<Rule_(0, 3, "compression", <<Version, [LengthField EXCEPT !.index = 0]>>)>>}

(* A target that the two formats do not take for the same.                 *)
Ambiguous ==
  {[UriPath EXCEPT !.target = Only(BitsOf(99, 8))],
   [DeviceIid EXCEPT !.target = OneOf(<<BitsOf(1, 8)>>)],
   [DeviceIid EXCEPT !.target = OneOf(<<>>)]}

Plain_ == {[rules |-> Good, order |-> o, terse |-> t, defect |-> NoDefect] :
            o \in {"forward", "reverse", "rotated"}, t \in BOOLEAN}
(* Nothing refuses it when another operator has the number of its own.     *)
Single == <<Rule_(0, 1, "compression", <<Version>>)>>

Bad_ == {[rules |-> rs, order |-> "reverse", terse |-> FALSE, defect |-> NoDefect] :
          rs \in BadRuleSets \cup {Single}
                 \cup {<<Rule_(0, 1, "compression", <<Version, entry>>)>> : entry \in Ambiguous}}
Spoilt_ == {[rules |-> Good, order |-> "forward", terse |-> FALSE, defect |-> d] :
             d \in CborDefects \cup JsonDefects}

MCDocuments == Plain_ \cup Bad_ \cup Spoilt_
=============================================================================
