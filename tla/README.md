# A TLA+ model of r-schc

r-schc compresses IPv6 packets (UDP, CoAP, ICMPv6) with Static Context Header Compression
(SCHC) between a *device* and a *core* that share a rule set. This directory
holds a model of it: TLA+ modules translated from `crates/`, TLC runs on small
instances, and theorems that TLAPS checks for every value of the constants.
Source paths below are relative to `crates/schc-core/src` (core) and
`crates/schc-runtime/src` (runtime). `PROJECT.json` maps every definition to the
lines it stands for.

    tlc -workers 2 -config LinkFaults.cfg MCSchcLink.tla     one run
    tlapm SchcLinkProofs.tla                                 the proofs of a module

## 1. The system

| Component | Source | State | Operations |
|---|---|---|---|
| Node process | runtime `bin/schc-node.rs` | place in the loop, count of successes | alternate one outbound and one inbound operation, classify the result, stop at `--operation-limit` |
| UDP transport | runtime `udp.rs` | link socket, packet socket, configured peer | `outbound_once`, `inbound_once` |
| Packet transport, TUN | runtime `packet.rs`, `linux_tun.rs` | link socket, nonblocking device | the same two over a device |
| Runtime and node roles | runtime `lib.rs` | compiled rules, device profile | encode, decode; direction from the role; framing |
| Compressor | core `compress/engine.rs` | fields and residue along a path of the tree | `compress`: walk the tree, collect candidates, choose |
| Decision tree | core `tree/build.rs` | nodes, branches | built once from the rules |
| Decompressor | core `decompress/engine.rs` | reader, field store | `decompress_detailed`: one attempt per padding length |
| Packets | core `packet/` | none | parse, extract, reconstruct, checksum, length prefixes; CoAP messages and options; ICMPv6 messages and the packets they embed |
| Rules | core `rule/` | the loaded rule set | load from JSON or CORECONF CBOR, validate |
| SID registry | core `sid/registry.rs` | two maps | insert, look up while loading |

How they interact: an application hands an IPv6 packet to a node's packet
boundary (a UDP socket or a TUN device). `outbound_once` takes it, `Node`
derives the direction from its role, the compressor walks the tree of rules and
returns the shortest datagram, and the frame (padded to whole bytes) goes to the
peer's link socket. The peer's `inbound_once` checks the source, tries each
padding length, selects the rule by its ID, decodes the entries, reconstructs
the packet and writes it to its packet boundary. The two ends share no state but
the rule set, which each loads from a file, with a registry that gives the names
in it their numbers; nothing is acknowledged, retransmitted or persisted.

What is hard:

* **Two processes, an unreliable link, and calls that fail halfway.** A packet
  is consumed before the send that may fail; the loop decides from the error's
  kind whether to go on. One thread serves both directions. Correct means: only
  what was offered comes out, at most once and in order where the link permits
  it, neither direction starves, and the limit is exact.
* **Concatenated residues without separators.** One bit more or less at either
  end misreads all that follows. Correct means: each field's decoder consumes
  exactly what its encoder wrote, exact actions restore the value, a cut
  datagram is an error.
* **A tree in place of a list.** Rules share branches. Correct means: the tree
  finds what a search of every rule would find, and errors say why there is none.
* **Padding that nobody counts.** Correct means: one reading per datagram.
* **Agreement of the ends.** Direction, lengths, checksums, the occurrence of a
  CoAP option, the scope of an entry inside an ICMPv6 error and the start of the
  carried payload are derived at both ends by different code.
* **Names and numbers that change.** A rule file says by number what a SID file
  says by name, either may be revised, and the registry keeps two maps. Correct
  means: the maps stay inverse, and a file loads as what was written or not at
  all, if it can be told from the file.

`PROJECT.json` lists every hazard at its line with the properties that cover it,
and for those without one the reason.

## 2. Modules

| Module | Models | Composes |
|---|---|---|
| `SchcLink` | two node processes, their sockets, the link, applications, other hosts, kills and restarts | `PacketService` (refinement) |
| `PacketService` | abstract: an unreliable, unordered packet service | |
| `PacketServiceProofs` | theorem about the service | `PacketService` |
| `SchcLinkProofs` | theorems about `SchcLink` | `SchcLink` |
| `SchcServiceProofs` | the refinement of the service, and what it gives | `SchcLinkProofs` |
| `SchcBits` | bit strings, bounds-checked reads, `Result` | |
| `SchcRule` | rules as loaded, and the loader's checks | `SchcBits` |
| `SidRegistry` | the two maps of names and numbers | |
| `RuleLoading` | both loaders, from the parsed document to the rules | `SidRegistry`, `SchcRule` |
| `RuleFiles` | rules written to a file, a registry revised, the file loaded | `RuleLoading` |
| `RuleFilesProofs` | theorems about the loaders and the registry | `RuleFiles` |
| `SchcField` | matching operators, actions, lengths, prefixes, both ways | `SchcRule` |
| `SchcFieldProofs` | lemmas: bits and numbers, reads, prefixes, fields | `SchcField` |
| `FieldCodec` | one field from packet to residue to packet | `SchcField` |
| `FieldCodecProofs` | theorems about the codec of a field | `FieldCodec`, `SchcFieldProofs` |
| `SchcPacket` | field store, IPv6/UDP parsing, places of fields, checksums | `SchcField` |
| `SchcCoap` | CoAP messages and options, both ways | `SchcPacket` |
| `SchcIcmp` | ICMPv6 messages and the packet an error embeds | `SchcCoap` |
| `SchcExtract` | what the compressor takes out of a packet for one entry, and the suffix it carries | `SchcIcmp` |
| `SchcRebuild` | what the decompressor makes of the fields and the suffix | `SchcIcmp` |
| `SchcContext` | what both ends have in common | `SchcExtract`, `SchcRebuild` |
| `SchcCompress` | the compressor on the decision tree | `SchcContext` |
| `SchcCompressProofs` | theorems about it | `SchcCompress`, `SchcFieldProofs` |
| `SchcDecompress` | the decompressor | `SchcContext` |
| `SchcDecompressProofs` | theorems about it | `SchcDecompress`, `SchcFieldProofs` |
| `SchcTransfer` | compressor, frame and decompressor under the two roles | both |
| `MC*` | constants of the runs; `MCRules` holds rules and packets | |

### SchcLink

An operation is two steps, because the world moves between them: a receive with
all the checks up to the send (`OutboundReceive`, `InboundReceive`), and the
send or write (`OutboundSend`, `InboundWrite`) or its failure. `Return` is the
rest of the loop body: count a success, classify an error (`Continues`, from
`run_udp_one`/`run_tun_one` and their four predicates), test the limit, go to
the other operation. `Class[p]` says how far packet `p` gets: all checks passed,
not IPv6, no rule, not decodable by the peer, or decoded to something that is
not IPv6. It abstracts the codec, which the other modules model. A process in
"udp" mode names a failed packet boundary `Io`, one in "tun" mode `Device`; this
is what decides whether a refused call stops the process.

A process that ends and starts again keeps nothing: its packet queue is gone,
and any prefix of its link queue (what had reached the old socket).

### SchcField, FieldCodec

`EncodeField` is one entry of `traverse_branch`: resolve the length, match,
write the residue. `DecodeField` is one entry of `decode_fields`. Values are bit
strings; `BytesAsValue` keeps the code's change of alignment at 64 bits. Reads
check bounds; nothing else of the byte packing is modelled.

### SchcPacket, SchcCoap, SchcIcmp

A packet is its bits. A field store is the sequence of entries decoded or
extracted so far, each with its scope, "outer" or "embedded"; `In` selects one
scope. `Place` says where a field lies in a packet, by direction. A CoAP message
is a record with its options in a sequence; `CoapBits` and `ParseCoap` are its
serialization and its parser, with the 4-bit nibbles of option deltas and
lengths and their extensions at 13 and 269.

### SchcExtract

`SenderScope` is `scope_for_field`: a second IPv6 version, after the type of an
ICMPv6 error, opens the embedded scope. `ExtractField` is `extract_field`;
`OptionOf` finds the occurrence of an option that an entry stands for, and
remembers its ordinal. `CarriedFrom` is where `carry_through_suffix` begins: for
CoAP it serializes again the part of the message that entries have taken.

### SchcRebuild

`Complete` and `Assemble` are `reconstruct_packet_at`: which fields must be
there, and what they make; `Inner` is the embedded packet, whose addresses are
those of the opposite direction. `Amended` is what
`reconstruct_packet_with_suffix` does after the suffix has been appended:
lengths first, then checksums, unless the rule sent them.

### SchcCompress

A tree node is the set of rules that begin with the same entries, and its depth:
`Branches` is `branch_groups` with its grouping key, `Leaves` the leaf. A visit
is a node with the fields and residue on the way to it. The visits still to make
are a set and are taken in any order: the code's sort key only decides which of
several branch errors is reported, and `NoCandidate` allows each of them.
`LeafCandidates` is the leaf part of `traverse` with `carry_through_suffix` and
`no_compression_candidate`.

### SchcDecompress

One action per step of the loop over padding lengths: `SkipAttempt`, `Select`,
`DecodeEntry` (one per field entry, in the scope `ReceiverScope` gives it),
`Finish`, and `Answer` for `unique_padding_bit_length`.

### SchcTransfer

The sender's role gives the compressor's direction, the receiver's role the
decompressor's, each by the code's own mapping; `Deliver` pads the bits and
hands them over.

### SidRegistry, RuleLoading, RuleFiles

`Insert` is `SidRegistry::insert`; `Absent` stands for a missing key and for the
errors of the lookups. `RuleLoading` starts where the JSON and CBOR libraries
end: records for JSON, typed values for CBOR, whose maps are functions from
their integer keys. `JsonEntry` and `CborEntry` are the loaders of one entry,
with every refusal on the way; `Normalize` puts CBOR entries in the order of
their indexes. In `RuleFiles` another program writes a rule set (`document`) to a
file in each format, terse or not, with entries and value lists in any order and
perhaps one defect. `Write` keeps the assignments of that moment as `edition`,
from which, with `document`, the bytes follow; items are inserted in the registry
(`Revise`) before and after it, until a loader takes the registry. So the same
bytes are read under every later state of it. `Resolves` says of a name that the
reader's registry still has it under the number in the file, `Steady` that it
has no other name there. A file with only steady numbers loads as written or not
at all. One with a number that went to another name loads as other rules wherever
these are valid: with the number of `mo-equal` given to `mo-ignore`, the rule set
`Single` of the run does. Nothing in the file shows it and no document says what
should happen, so `CborLoadsWhatIsWritten` leaves those cases out. JSON has names
in place of numbers and no such case. The two formats do not say the same things. A CBOR value
list has no kind: it is a mapping if it has several values or if the operator or
the action picks one of them, else a single value. And a CBOR length function
whose SID is unknown is kept, as one that never resolves. `Understood` is a rule
as CBOR can say it, and what the CBOR loader is held to. Integers in a CBOR file
may be negative; every place that takes one refuses that.

## 3. Runs

The longest, `RuleFiles`, takes two to three minutes with two workers; the others
finish in seconds or in little more than one minute.

| Run | Question | Result | Distinct states |
|---|---|---|---|
| `LinkFaults` | Do the nodes implement the packet service on the worst link? | holds | 80,655 |
| `LinkOrder` | Order, at most once, exact limits and counters with every I/O failure, losses, kills, a restart | holds | 31,390 |
| `LinkLive` | Is everything delivered when nothing is lost, even while a stranger floods the sender? | holds | 5,904 |
| `FieldRoundTrip` | Do the two ends of a field agree, to the bit? | holds | 46,948 |
| `FieldEqual` | Does an equal match mean equal? | **violated** | until found |
| `CompressTree` | Is the tree as good as a linear search? | holds | 11,852 |
| `CompressShadow` | Is a nature refusal given only when nothing else matches? | **violated** | until found |
| `DecompressPadding` | Is a datagram ever ambiguous, does it ever select two rules; do checksums verify? | holds | 548,172 |
| `TransferRestores` | Does the packet come back, or an error; does the receiver read every entry as it was written? | holds | 31,942 |
| `TransferWrapped` | Does a wrapped packet always come back? | **violated** | until found |
| `TransferEcho` | Does what a header-only rule carries complete what the receiver rebuilds? | **violated** | until found |
| `RuleFiles` | Does a file load as what was written, under a registry revised since; do the registry's maps agree? | holds | 16,875 |

Every property of a passing run is accompanied by a mutant in `PROJECT.json`: a
plausible slip in the code under which TLC finds the property violated. The
mutants stand next to the definitions they replace.

`Restored` says what comes back: the packet, except for what the rule leaves to
the receiver (computed lengths and checksums, device-bound identifiers), or an
error; it allows no third outcome, and when the rule describes or carries the
whole packet (`Recoverable`) it does not allow the error either.
`FieldsAsExtracted` looks inside: in the attempt that ends where the compressed
bits end every entry decodes, and the store the receiver ends with is the
sender's, scope by scope. Mapping values are stored in whole bytes by the
receiver, which matters for the two-bit CoAP type.

### What the violated runs show

Each is a disagreement between the code and a comment.

* `FieldEqual`: `matches_branch` widens the target to the field's length, so the
  option value `00 05` equals the target `05`, is not sent, and comes back `05`.
* `CompressShadow`: a leaf keeps the first rule in load order; a fragmentation
  rule without entries hides a no-compression rule loaded after it.
* `TransferWrapped`: the compressor wraps packets that do not parse, the
  decompressor checks the lengths of what looks like IPv6 and refuses them.
* `TransferEcho`: a rule that describes an ICMPv6 echo up to its checksum
  carries the message from its payload offset, eight bytes in
  (`compress/engine.rs:375`); the receiver has no identifier to rebuild the
  second half of the header from and appends the suffix after four.

Disagreements and limits met while modelling and proving that have no run:

* The search of a mapping ends with an error at a value longer than the field
  (`compress/engine.rs:507`), so a value listed after it never matches.
  `MatchMapping` has it; the mappings of the rule sets list values of one length.
* The entries of a rule for the other direction are passed over
  (`compress/engine.rs:216`), so it can match with its ports undescribed and
  carry the upper layer whole. With a rule for each direction the wrong one is a
  candidate too, and the shorter ID decides. The packet still comes back or an
  error does (`Restored`, with the `Directed` rules).
* A rule that describes the headers of an embedded packet without its payload
  carries a suffix that the receiver refuses; the packet is lost, not changed.
* A rule with CoAP entries but no `fid-coap-version` matches, and the receiver
  rebuilds a UDP packet without the CoAP header (`packet/builder.rs:192`),
  because the version is how it recognises CoAP.
* A branch shared by several rules carries the entry index of the first of them
  (`tree/build.rs:105`), so a later rule whose length refers to one of its own
  entries by another index finds nothing in the store and cannot compress. The
  rule sets of `CompressTree` number their entries consecutively, and this is
  half of the hypothesis `DistinctRules` of the theorems about the tree.
* Of several compression rules with the same entries the tree keeps the first
  (`tree/build.rs:37`), although a later one with a shorter ID would make a
  shorter datagram. This is the other half of `DistinctRules`.
* A device-bound identifier of variable length is restored behind a length
  prefix (`decompress/engine.rs:404`) that the compressor does not write
  (`compress/engine.rs:530`); validation accepts such an entry
  (`rule/model.rs:182`). `SelfDelimiting` leaves these entries out.
* A rule without fields bounds the size of a datagram only while it is reached:
  the leaf of the tree keeps the first such rule in load order, so
  `NeverWorseThanWrapping` speaks of that one, and of none if it is a
  fragmentation rule.

### Bounds

* Link: up to four packets, each offered once; queues of two or three; at most
  two faults (losses, duplicates, reorderings, kills); at most one restart. Two
  packets are what order and duplication need, a third shows that queues fill,
  two faults let one undo or repeat another. `LinkLive` has queues that cannot
  fill and no fault, which is what its property assumes.
* Fields: values of 0, 4, 8, 12, 16, 64 bits and of the lengths on both sides of
  15 and 255 in bits and in bytes; every length kind with every matching
  operator and every action that the loader accepts with it; index widths 0, 1
  and 2; suffixes of 0, 2 and 5 bits. The third form of the prefix (255 to
  65535) is reached with 2040 and 255 bits and bytes.
* Cuts of a residue: by one bit and by five, within and beyond a length prefix.
* Compressor and transfer: rule sets with a shared prefix of entries, a rule
  that ends inside another, both directions, every nature, with and without a
  payload entry; packets with empty, odd and even payloads, a wrong checksum, a
  foreign device, and malformed ones. CoAP messages with no option, one number
  twice, and steps of 12, 13 and 269 between numbers, under rules that describe
  every option, the first ones, one wherever it is, one at its second place, or
  one as long as the token. ICMPv6 echoes and errors of three types, the errors
  with a whole packet, one that is no UDP and one cut short, under rules that
  describe the embedded packet, send it as a field, or carry it.
* Decompressor: datagrams for each way three first bits can select a rule, with
  bodies that end in many zeros, in a one, or in none, and lengths around what
  the residues ask for; 16-bit IDs add nothing to three-bit ones, because only
  the comparison of prefixes matters.
* Rule files: 32 SID items and two more insertions, each giving an operator,
  a length function or a field the free number or that of `mo-equal`: two are
  what it takes to move a name away and to give its number to another. The files are written before, between or after them. One rule set
  with every kind of entry, whose indexes have a gap, one of a single entry, and
  fifteen that break one rule of the loader each; three orders in the file;
  every defect once, negative integers among them.

### Fairness

`FairSpec` asks for weak fairness of each process's next step and nothing of the
link, the applications or other hosts. The code justifies it: `run_udp_mode`
sets a read timeout on both sockets and the TUN device does not block, so every
call of a running loop returns. A send on a UDP socket does not wait for the
peer. `Delivered` is only asked on a link without faults with queues that do not
fill, because the code retransmits nothing.

## 4. Proofs

TLAPS checks what follows for every value of the constants that meets the named
assumptions of the modules (`...Assumption`); TLC evaluates each assumption in
the run that extends its module. Every inductive invariant, in a form TLC
can evaluate, was an invariant of a run before it was proved.

### The nodes and the link (`SchcLinkProofs`)

For any packets, classes, offers, modes, limits, queue capacities, fault sets
and bounds:

* `TypeCorrect`: `Spec => []TypeOK`. `TypeOK` is inductive by itself: that a
  packet is held exactly between the two steps of an operation is what makes
  `OutboundSend` append a packet and never `NoPacket`.
* `LimitIsRespected`: `Spec => []LimitRespected`. Also inductive given `TypeOK`;
  `ReturnLimit` is the one lemma about the tail of the loop.
* `IntegrityHolds`: `Spec => []Integrity`. Not inductive: an output may be wrong
  because the held packet, a datagram in flight or a queued packet was. The
  strengthening `Traced` says that every packet in a queue, in a datagram whose
  source is the peer, or in hand was offered on the right side and has passed the
  checks made so far. The network's actions rearrange, drop or repeat datagrams
  (`InboxRearranged` and its two lemmas about `Without` and suffixes), so what
  holds of every datagram still does.
* `TransientErrorsSurvived`: an action property. If calls only ever fail with
  `WouldBlock` and nobody kills a process, the one step that ends a loop with an
  error is a TUN device that refuses a write.
* `OrderIsKept`: `Spec => []InOrder`. Packets on their way to a node stand in a
  line of five places: written, decoded, in flight, compressed, queued. `Ordered`
  says that of two packets anywhere in the line the one ahead was offered first.
  A step takes packets out of the line (`Thinned`), moves one from the front of
  a place to the end of the next (`Passed`), closes a gap (`ClosedUp`) or lets a
  newly offered one join the end (`Joined`); none overtakes.

### The packet service (`PacketServiceProofs`, `SchcServiceProofs`)

* `ServiceInvariant`: what the service has in transit or has written was offered
  at the other side; this is what the abstract specification promises by itself.
* `ServiceImplemented`: `Spec => ImplementsService`, the refinement. The mapping
  counts copies of a packet in four places (queue, sender's hand, flight,
  receiver's hand). The lemmas `Count...` say what appending, removing, dropping
  a prefix and rearranging do to the number of matching positions in a sequence.
  Then every action is one of four things: no place gains a copy (the service
  loses some, or nothing happens), the last place gives one up to the output, an
  offer adds one, or the link doubles one. The proof made the abstract `Lose`
  say that what stays in transit is still a number.
* `AtMostOnceHolds`: on a link that does not duplicate, copies written and copies
  still in the four places are never more than were offered; inductive in this
  sum only.
* `CountersCoverTraffic`: `Covered` sets a node's counter against what it wrote,
  what its peer wrote, and what is in flight to the peer or in its hand; a send
  is counted in the step that puts the frame in flight.

### Bits, numbers and fields (`SchcFieldProofs`, `FieldCodecProofs`)

`SchcFieldProofs` is the library of the other proofs. Powers of two, `Number`
and `BitsOf` are recursive functions or folds; their laws are proved by
`SetInduction` (induction over a set of naturals, from the least element that is
not in it) and `RecurrenceSolved`, so that no library theorem with an operator
parameter is needed. Above them: reads within and beyond the bits, the three
forms of the length prefix read back (`PrefixReadBack`), and *a reading of a
longer string is the same reading* (`ReadTaken` to `FieldTaken`).

For any entries the loader accepts, values, stores and following bits:

* `FieldsAreDelimited`: `Spec => []SelfDelimiting`. The decoder stops where the
  encoder did. One lemma per action of an entry (`ValueSentBack`, `LowBitsBack`,
  `IndexBack`, `ElidedBack`, `SuppliedBack`), joined in `FieldBack`.
* `ValuesComeBack`: `Spec => []RoundTrip`. The same lemmas say which value.
* `CutsAreDetected`: `Spec => []TruncationDetected`. If a residue without its
  last bits could be decoded, the whole one would be decoded in the same way and
  end at the same place (`FieldTaken`), but it ends at its own end.
* `CodecInvariant` is the invariant behind the three: what each phase holds is
  what the operators yield for this entry, value and store.

The proof found two things the model left open: the compressor only ever finds
a TKL in four bits (in `FieldCodec.Init` now; a TKL of another width is refused
by the receiver), and by how much a residue is cut (`Cuts`, now any positive
number and no longer one bit).

### The decompressor (`SchcDecompressProofs`)

For any loadable rule sets, datagrams of whole bytes, and directions:

* `RulesAreUnique`: `DecompressSpec => []OneRulePerDatagram`. Two IDs that begin
  the same datagram have one a prefix of the other (`IdsCollide`: the shorter ID
  is the longer one without its low bits), which the loader refuses.
* `PaddingIsUnique`: `DecompressSpec => []NeverAmbiguous`. Each attempt reads the
  datagram without an assumed number of padding bits. `Inv` says that an attempt
  is a prefix of *one* way through the entries (`Leads`): the one that reads the
  whole datagram, because reading fewer bits either fails or yields the same
  (`EntryTaken`), and `OneWay` because the way is a function of the rule. So two
  successes have the same fields and the same end of the fields, and each leaves
  whole bytes to the payload: their paddings differ by a multiple of eight, and
  both are below eight. `RebuiltPlain` and its like say that no step of an
  attempt yields the error that reports ambiguity.
* `DecompressInvariant`: `Inv` itself.
* `ChecksumsVerify`: `DecompressSpec => []ComputedChecksumVerifies`. The proof has
  three parts.
  *Arithmetic.* `WordSum` is a sum over 16-bit words: of two strings of whole words
  it is the sum of theirs (`WordSumJoin`), and filling in a word that was zero adds
  that word (`WordSumFilled`). Folding twice leaves a sum its rest modulo
  `AllOnes`, and never makes zero of a sum that was not (`FoldTwice`), so that the
  complement, sent as all ones when it is zero, completes it (`SumCompleted`). The
  bound that folding twice needs comes from the length the IPv6 header can state
  (`UpperBound`).
  *Layout.* A complete store makes a header of 320 bits with the addresses, the
  next header and an upper layer at their places, CoAP options, ICMPv6 errors and
  embedded packets included (`Assembled`). A payload appended and the two length
  fields set again leave addresses, next header and the room of the checksum where
  they were (`Amending`, by `AgreeBut`: two strings that differ only in some bits).
  So both ways of reconstruction end in a checksum that verifies, unless an outer
  field of the store gave it (`RebuiltSum`, `ResumedSum`).
  *Where fields come from.* `Origins`, inductive beside `Inv`: every field decoded
  so far is that of an entry the attempt did not pass over, in a scope where the
  entry's position may be. So what a rule leaves to the receiver is never in the
  store (`GivesNone`), not even from an entry for another position.

### The compressor (`SchcCompressProofs`)

* `ShortestIsFound`: `CompressSpec => []ShortestOfAll` and `ErrorsAreTrue`:
  `CompressSpec => []ErrorsTellWhy`, for any rule sets that satisfy
  `DistinctRules`. The reference is a linear search: for each rule on its own
  the function `Scan`, whose states `Trace` lists. `TreeInv` (`TreeInvariant`)
  says, of every visit still to make, that it stands where the search of each of
  its rules stands after as many entries (`VisitSound`); that every rule is in
  some visit or has been answered (`Covered`); and that every candidate and
  every error comes from a rule that gives rise to it (`Founded`). Errors of an
  entry are never those the choice between rules makes (`EntryEnds`), so an
  error tells which of the two it was. `DistinctRules` is needed: a shared
  branch has the entry index of its first rule, and a leaf has one rule. TLC
  evaluates it for the rule sets of `CompressTree`. No two rules have the same
  entries there, and entries are numbered as the JSON loader numbers them.
* `WrappingBounds`: `CompressSpec => []NeverWorseThanWrapping`, for *all* rule
  sets: from its own invariant `WrapInv`, that the first rule without fields has
  answered as soon as the root was visited. The property had named any rule
  without fields; the proof failed on a later one, which the leaf hides, and the
  property now names the one the code reaches.

### The loaders and the registry (`RuleFilesProofs`)

For any identifiers, SIDs, files, documents and defects:

* `MapsAreInverse`: `RegistrySpec => []MapsAgree`, inductive with the type
  invariant. One insertion has to clean up after two earlier ones, that of the
  identifier and that of the SID; `InsertKeepsMapsAgree` uses that each of them
  is the only one, which is what `MapsAgree` said before.
* `LookupsAreLatest`: `RegistrySpec => []LatestWins`. It ties the maps to the
  history of insertions: a pair is in force until its name or its number is
  assigned again (`InForceAfter`), and exactly those pairs are found.
* `FilesKeepRegistry`: the same two for `FilesSpec`, where the SID file comes
  first and a revision later, and where loading must leave the maps alone.
* `OnlySoundRuleSetsLoad`: `FilesSpec => []OnlySoundRulesLoad`. `JsonSound` and
  `CborSound` follow each loader from the items of a document to the rule set:
  a list loads only if each of its items did (`AllOkMeans`), an entry is
  validated on its own, a rule with all its entries, the set with all its rules.
  `NormalizeSound` shows that sorting CBOR entries by index loses and doubles
  none: `Ranking` counts the indexes below each index. What it gives is what the
  other modules assume of their constant `RuleSets`.
* `JsonRoundTrip`: `FilesSpec => []JsonLoadsWhatIsWritten`. A JSON file loads,
  as the rules that were written and no others, exactly if each of its rules is
  valid, none of its IDs begins another, every identifier is registered and the
  file is not spoilt. Every key of an entry is followed through the writer and
  the loader: a name is known if the registry's maps have it, which `RegistryInv`
  ties to the history of insertions (`KnownNames`, `OneIdentity`); hex digits
  join to the bits they were cut from, for any number of bytes (`HexBack`);
  `EntryBack`, `SpoiltRefused`, `RuleBack` and `JsonBack` go from an entry to the
  file. A registry revised before loading counts, one revised after it would make
  the property meaningless: `Revise` is disabled by then (`FaithfulStays`). When
  the file was written does not matter, for it holds no numbers.
* `CborRoundTrip`: `FilesSpec => []CborLoadsWhatIsWritten`, the same for a
  CORECONF file, where names are numbers, keys may be missing, and entries and
  value lists stand in any order with their indexes beside them, and where what
  counts is both the registry of the writer (`edition`) and that of the reader.
  A steady number is read back as its name if the reader's registry still has it
  there, else as none (`NumberedBack`, `IdentityBack`): an identifier found under
  it is in force there by `RegistryInv`, so by steadiness it is that name. That
  hypothesis goes with each reference up to the rule set (`SteadyRule`), and is
  needed, as above. A value list comes
  back for each order the writer knows (`OrderPermutes`, `ListBack`), an integer
  from its least number of bytes (`MinimalBack`); `NormalizeBack` shows that
  sorting by index undoes any order of the entries and refuses an index given
  twice. `CborEntryBack` joins the keys of an entry, `SpoiltCborRefused` takes
  each defect, `CborRuleBack` and `CborBack` go from an entry to the file.

  What the two round trips assume is checked by TLC. `DocumentsAssumption` says
  what a writer of the model is given: whole bytes, an option by its number, a
  length function by its name, an msb length that is a u64 (`Writable`), entries
  listed by their indexes, which may be given twice (`Ascending`).
  `SidsAssumption`: SIDs are positive and the writer's number for an unknown
  name is none of them; 0 must not be one, since the loader takes a nature of 0
  for compression whatever the registry says. `KeysAssumption`: a key left out
  has none of the values a key may have. `DefectsAssumption`: only a file with an
  entry is spoilt, a missing entry list only where a rule needs one, and an entry
  made of two kinds by a key of the other kind.

### Only model-checked

* `Restored` and `FieldsAsExtracted` (end to end). They are not true for every
  loadable rule set (a length may be taken from an entry that only the receiver
  computes), so a theorem needs a condition on rules that the code does not state.
* `Delivered`: liveness, which is beyond this prover.

## 5. Not modelled

* An ICMPv6 error inside an ICMPv6 error: the receiver's reconstruction of the
  embedded packet takes the embedded scope for that of the packet it embeds in
  turn (`packet/builder.rs:369`); the compressor refuses ICMPv6 fields in the
  embedded scope, so no datagram of its own leads there.
* The syntax of JSON and CBOR, and reading files. The registry is filled item by
  item, not from text.
* Lengths that do not fit 16 bits: packets here are far below 64 KiB.
* TUN ioctls, command line, printing, error texts.
* Recursion in the code is over data of bounded size (entries, bytes) and is
  written with recursive functions; integers that can overflow are checked in
  the code (`checked_add`) and lengths stay far below 2^31 here.

## 6. Plan

1. *(done)* `SchcLink` with `PacketService`; type, limit and integrity proved.
2. *(done)* Field codec, compressor, decompressor, end to end.
3. *(done)* CoAP options and ICMPv6 with embedded packets, at both ends.
4. *(done)* Rule loading and the SID registry; the registry's maps proved.
5. *(done)* Proofs: the refinement of the packet service, order and counters;
   the codec of a field; one rule and one padding per datagram, and computed
   checksums; the tree against a linear search; only sound rules load, and both
   formats load as written.
6. Proofs: the first half of `FieldsAsExtracted` for
   rules that send all they need (an entry of a datagram is decoded as it was
   written), which `FieldBack` gives for a single field.
7. Larger instances: rule sets with entry indexes that are not consecutive and
   lengths taken from earlier entries, at both ends.
