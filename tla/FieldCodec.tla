----------------------------- MODULE FieldCodec -----------------------------
(***************************************************************************)
(* One field on its way through a datagram: the compressor matches it      *)
(* against its rule entry and writes its residue, the residue travels      *)
(* among the residues of later fields, possibly cut short, and the         *)
(* decompressor decodes it with the same entry.                            *)
(***************************************************************************)
EXTENDS SchcField

CONSTANTS
  Entries,  \* rule entries the loader accepts, of fields that are decoded
  Values,   \* field values found in packets
  Earlier,  \* stores with what earlier entries of the rule yielded
  Tails,    \* bits that follow the residue in the datagram
  Cuts      \* by how many bits a residue may be cut short

ASSUME EntriesAssumption ==
  \A e \in Entries : /\ e \in FieldEntries /\ ValidEntry(e)
                     /\ e.field # Marker /\ e.action # "compute"

ASSUME DataAssumption ==
  /\ \A v \in Values : v \in Bits
  /\ \A st \in Earlier : st \in Seq(StoredFields)
  /\ \A t \in Tails : t \in Bits
  /\ \A n \in Cuts : n \in Nat \ {0}

VARIABLES
  entry,    \* the rule entry both sides hold
  value,    \* the value in the packet
  store,    \* the fields before this one, equal on both sides
  phase,    \* "packet", "residue", "datagram", "decoded" or "stopped"
  residue,  \* the compressor's outcome for the field
  wire,     \* the datagram from this field on
  decoded   \* the decompressor's outcome for the field

vars == <<entry, value, store, phase, residue, wire, decoded>>

Nothing == [kind |-> "nothing"]

(* The extractor finds a TKL in four bits.                                 *)
Init ==
  /\ entry \in Entries
  /\ value \in Values
  /\ entry.field = "coap-tkl" => Len(value) = 4
  /\ store \in Earlier
  /\ phase = "packet"
  /\ residue = Nothing
  /\ wire = <<>>
  /\ decoded = Nothing

Compress ==
  /\ phase = "packet"
  /\ residue' = EncodeField(entry, value, store)
  /\ phase' = IF residue'.kind = "sent" THEN "residue" ELSE "stopped"
  /\ UNCHANGED <<entry, value, store, wire, decoded>>

Follow ==
  /\ phase = "residue"
  /\ \E tail \in Tails : wire' = residue.bits \o tail
  /\ phase' = "datagram"
  /\ UNCHANGED <<entry, value, store, residue, decoded>>

(* The datagram ends inside the residue.                                   *)
Truncate ==
  /\ phase = "residue"
  /\ \E n \in Cuts :
       /\ n <= Len(residue.bits)
       /\ wire' = SubSeq(residue.bits, 1, Len(residue.bits) - n)
  /\ phase' = "datagram"
  /\ UNCHANGED <<entry, value, store, residue, decoded>>

Decompress ==
  /\ phase = "datagram"
  /\ decoded' = DecodeField(entry, wire, 0, store)
  /\ phase' = "decoded"
  /\ UNCHANGED <<entry, value, store, residue, wire>>

Next == Compress \/ Follow \/ Truncate \/ Decompress

Spec == Init /\ [][Next]_vars

-----------------------------------------------------------------------------
Whole == phase = "decoded" /\ IsPrefix(residue.bits, wire)
Cut == phase = "decoded" /\ Len(wire) < Len(residue.bits)

Supplied(e) == e.action \in {"device-iid", "app-iid"}

(* Nothing is lost by sending the value, its low bits under an MSB match,  *)
(* or the index of a mapping value, nor by not sending a value that equals *)
(* the target.  A target or mapping value of another width than the field  *)
(* is excluded, because the decoder takes the width from it.               *)
Exact ==
  \/ entry.action \in {"value-sent", "lsb"}
  \/ /\ entry.action = "not-sent"
     /\ entry.matching.kind = "equal"
     /\ Variable(entry) => Len(Target(entry)) = Len(value)
  \/ /\ entry.action = "mapping-sent"
     /\ \A i \in 1..Len(entry.target.values) :
           Len(entry.target.values[i]) = Len(value)
  \/ /\ Supplied(entry) /\ ~Variable(entry)
     /\ Provider # NoProvider /\ value = Provider[entry.field]

(* The decompressor gets back the very bits the packet had, whatever       *)
(* follows the residue.                                                    *)
RoundTrip ==
  Whole /\ Exact => decoded.ok /\ decoded.value.value = value

(* Residues are concatenated with no separator, so a decoder that takes    *)
(* one bit more or less than the compressor wrote misreads every later     *)
(* field.  It never does, even where the value itself is not restored, but *)
(* for an IID of variable length: no length is sent for it, and one is     *)
(* read.                                                                   *)
SelfDelimiting ==
  Whole /\ decoded.ok /\ ~(Supplied(entry) /\ Variable(entry)) =>
    decoded.value.pos = Len(residue.bits)

(* A datagram that ends inside a residue is an error, never a shorter or   *)
(* another value: length prefixes and indexes leave no such reading.       *)
TruncationDetected == Cut => ~decoded.ok

(* "Match when the field equals the target value" (rule/model.rs): a field *)
(* elided under an equal match is the target, bit for bit.                 *)
EqualMeansEqual ==
  phase # "packet" /\ residue.kind = "sent" /\ entry.matching.kind = "equal" =>
    value = Target(entry) \/ ~Variable(entry)
=============================================================================
