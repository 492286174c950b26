---------------------------- MODULE SchcCompress ----------------------------
(***************************************************************************)
(* Compressor::compress: a depth-first walk of the decision tree that      *)
(* DecisionTree::build makes of the rules.                                 *)
(*                                                                         *)
(* A node of the tree is a set of rules and a depth: the rules begin with  *)
(* the same depth entries.  A branch leaves it for each group of rules     *)
(* whose next entry is the same, entry indexes apart, and whose entry      *)
(* after that is for the same field; the branch keeps the entry index of   *)
(* the group's first rule.  A visit is a node with what was extracted and  *)
(* written on the way to it.  Visits still to make are a set: the code's   *)
(* branch order only decides which of several errors is reported.          *)
(***************************************************************************)
EXTENDS SchcContext

CONSTANTS
  Packets      \* packets to compress, in bits

ASSUME PacketsAssumption == \A p \in Packets : Len(p) % 8 = 0

VARIABLES
  packet,        \* the packet under compression
  agenda,        \* visits still to make
  candidates,    \* datagrams found, each with its rule
  natureErrors,  \* whether a fragmentation rule was reached
  branchErrors,  \* errors that ended a branch
  compressed     \* what compress returns

compressVars == <<context, packet, agenda, candidates, natureErrors,
                  branchErrors, compressed>>

NoResult == Err("none")
Pending == compressed = NoResult

-----------------------------------------------------------------------------
(* build_node and branch_groups.                                           *)
Leaves(members, depth) == {i \in members : Len(rules[i].entries) = depth}

BranchKey(i, depth) ==
  LET entries == rules[i].entries
  IN [entry |-> [entries[depth + 1] EXCEPT !.index = 0],
      next |-> IF Len(entries) > depth + 1
               THEN <<entries[depth + 2].field, entries[depth + 2].number>>
               ELSE <<>>]

Branches(members, depth) ==
  LET longer == members \ Leaves(members, depth)
  IN {{j \in longer : BranchKey(j, depth) = BranchKey(i, depth)} : i \in longer}

(* CompressionState: what was stored and written so far, and the places of *)
(* the CoAP options among it.                                              *)
Nothing == [fields |-> <<>>, residue |-> <<>>, ordinals |-> <<>>]

Root == [members |-> 1..Len(rules), depth |-> 0, state |-> Nothing]

-----------------------------------------------------------------------------
(* no_compression_candidate.                                               *)
Wrapped(i) == [rule |-> i, bits |-> IdBits(rules[i]) \o packet]

(* The leaf part of traverse.  A rule whose extracted fields do not give   *)
(* the packet back is still a candidate when it has no payload entry.      *)
Covers(fields) ==
  LET r == Reconstruct(direction, fields) IN r.ok /\ r.value = packet

LeafCandidates(i, state) ==
  LET datagram(suffix) ==
        {[rule |-> i, bits |-> IdBits(rules[i]) \o state.residue \o suffix]}
  IN CASE rules[i].nature = "fragmentation" -> {}
       [] rules[i].nature # "fragmentation" /\ WrapsPacket(rules[i]) -> {Wrapped(i)}
       [] OTHER ->
            IF Covers(state.fields) THEN datagram(<<>>)
            ELSE IF Carries(packet, state.fields, state.ordinals)
            THEN datagram(From(packet, CarriedFrom(packet, state.fields, state.ordinals)))
            ELSE {}

(* traverse_branch: the state after an entry, or why the branch ends.      *)
(* Entries for the other direction and the marker are passed over.         *)
Taken(state, entry) ==
  IF ~Accepts(entry, direction) \/ entry.field = Marker
  THEN [kind |-> "sent", state |-> state]
  ELSE LET after(e) ==
             IF e.kind # "sent" THEN e
             ELSE [kind |-> "sent",
                   state |-> [fields |-> Append(state.fields, e.field),
                              residue |-> state.residue \o e.bits,
                              ordinals |-> state.ordinals \o e.ordinals]]
       IN after(EncodeEntry(packet, direction, entry, state.fields))

BranchOutcome(visit, group) ==
  LET leads(taken) ==
        [visits |-> IF taken.kind = "sent"
                    THEN {[members |-> group, depth |-> visit.depth + 1,
                           state |-> taken.state]} ELSE {},
         errors |-> IF taken.kind = "failed" THEN {taken.error} ELSE {}]
  IN leads(Taken(visit.state, rules[Min(group)].entries[visit.depth + 1]))

-----------------------------------------------------------------------------
CompressInit ==
  /\ ContextInit
  /\ packet \in Packets
  /\ agenda = {Root}
  /\ candidates = {}
  /\ natureErrors = FALSE
  /\ branchErrors = {}
  /\ compressed = NoResult

(* A packet that is not IPv6 is wrapped by the first rule that can, before *)
(* the tree is looked at.                                                  *)
Wrappers == {i \in 1..Len(rules) : /\ rules[i].nature = "no-compression"
                                   /\ rules[i].entries = <<>>}

(* Mutant: a packet that does not parse is refused whatever the rules.     *)
CompressMalformedRefuses ==
  /\ Pending
  /\ ~ParsesIpv6(packet)
  /\ compressed' = Err("Packet")
  /\ UNCHANGED <<context, packet, agenda, candidates, natureErrors, branchErrors>>

CompressMalformed ==
  /\ Pending
  /\ ~ParsesIpv6(packet)
  /\ compressed' = IF Wrappers = {} THEN Err("Packet")
                   ELSE Ok(Wrapped(Min(Wrappers)))
  /\ UNCHANGED <<context, packet, agenda, candidates, natureErrors, branchErrors>>

(* traverse: the leaf rule is the first in load order of the rules that    *)
(* end here; then every branch.                                            *)
Visit(visit) ==
  /\ Pending
  /\ ParsesIpv6(packet)
  /\ LET leaves == Leaves(visit.members, visit.depth)
         leaf == Min(leaves)
         outcomes == {BranchOutcome(visit, group) :
                        group \in Branches(visit.members, visit.depth)}
     IN /\ agenda' = (agenda \ {visit}) \cup UNION {o.visits : o \in outcomes}
        /\ branchErrors' = branchErrors \cup UNION {o.errors : o \in outcomes}
        /\ candidates' =
             IF leaves = {} THEN candidates
             ELSE candidates \cup LeafCandidates(leaf, visit.state)
        /\ natureErrors' =
             \/ natureErrors
             \/ leaves # {} /\ rules[leaf].nature = "fragmentation"
  /\ UNCHANGED <<context, packet, compressed>>

(* The shortest candidate, the first in load order of equally short ones;  *)
(* without a candidate, a fragmentation rule's refusal comes before the    *)
(* errors of branches, and those before NoMatchingRule.                    *)
Precedes(a, b) == \/ Len(a.bits) < Len(b.bits)
                  \/ Len(a.bits) = Len(b.bits) /\ a.rule <= b.rule

NoCandidate ==
  /\ candidates = {}
  /\ \/ natureErrors /\ compressed' = Err("UnsupportedRuleNature")
     \/ \E e \in branchErrors : ~natureErrors /\ compressed' = Err(e)
     \/ /\ ~natureErrors /\ branchErrors = {}
        /\ compressed' = Err("NoMatchingRule")

(* Mutant: the first matching rule in load order, whatever the size.       *)
ChooseFirst ==
  /\ Pending
  /\ ParsesIpv6(packet)
  /\ agenda = {}
  /\ \/ \E best \in candidates :
          /\ \A c \in candidates : best.rule <= c.rule
          /\ compressed' = Ok(best)
     \/ NoCandidate
  /\ UNCHANGED <<context, packet, agenda, candidates, natureErrors, branchErrors>>

(* Mutant: the errors of branches are reported before the rule nature.     *)
ChooseBranchErrorFirst ==
  /\ Pending
  /\ ParsesIpv6(packet)
  /\ agenda = {}
  /\ \/ \E best \in candidates :
          /\ \A c \in candidates : Precedes(best, c)
          /\ compressed' = Ok(best)
     \/ \E e \in branchErrors : candidates = {} /\ compressed' = Err(e)
     \/ /\ candidates = {} /\ branchErrors = {}
        /\ compressed' = Err(IF natureErrors THEN "UnsupportedRuleNature"
                             ELSE "NoMatchingRule")
  /\ UNCHANGED <<context, packet, agenda, candidates, natureErrors, branchErrors>>

Choose ==
  /\ Pending
  /\ ParsesIpv6(packet)
  /\ agenda = {}
  /\ \/ \E best \in candidates :
          /\ \A c \in candidates : Precedes(best, c)
          /\ compressed' = Ok(best)
     \/ NoCandidate
  /\ UNCHANGED <<context, packet, agenda, candidates, natureErrors, branchErrors>>

Compress == CompressMalformed \/ (\E visit \in agenda : Visit(visit)) \/ Choose

CompressSpec == CompressInit /\ [][Compress]_compressVars
-----------------------------------------------------------------------------
Concluded == ~Pending /\ ParsesIpv6(packet)

(* The reference is a linear search: every rule on its own, with its own   *)
(* entry indexes, entry by entry, until one is refused or fails.           *)
Untouched == [kind |-> "sent", state |-> Nothing]

Scanned(so_far, entry) ==
  IF so_far.kind = "sent" THEN Taken(so_far.state, entry) ELSE so_far

Scan(i) ==
  LET entries == rules[i].entries
      outcome[k \in 0..Len(entries)] ==
        IF k = 0 THEN Untouched ELSE Scanned(outcome[k - 1], entries[k])
  IN [rule |-> i, outcome |-> outcome[Len(entries)]]

Scans == {Scan(i) : i \in 1..Len(rules)}

ScanCandidates ==
  UNION {LeafCandidates(scan.rule, scan.outcome.state) :
           scan \in {s \in Scans : s.outcome.kind = "sent"}}

(* Grouping rules by common entries loses none of them: the tree yields    *)
(* what a search of every rule yields, the shortest datagram and among     *)
(* equally short ones that of the first rule, in whatever order branches   *)
(* are walked.                                                             *)
ShortestOfAll ==
  Concluded =>
    \E found \in {ScanCandidates} :
       /\ compressed.ok <=> found # {}
       /\ compressed.ok => /\ compressed.value \in found
                           /\ \A c \in found : Precedes(compressed.value, c)

(* Without a datagram, the error tells why: a rule for fragmentation was   *)
(* the one that matched, or no rule failed and every one was refused.      *)
ErrorsTellWhy ==
  Concluded /\ ~compressed.ok =>
    /\ compressed.error = "UnsupportedRuleNature" <=>
         \E scan \in Scans :
            scan.outcome.kind = "sent" /\ rules[scan.rule].nature = "fragmentation"
    /\ compressed.error = "NoMatchingRule" =>
         \A scan \in Scans : scan.outcome.kind # "failed"

(* A refusal for the nature of a rule is given "when the only matching     *)
(* rule is a fragmentation rule": no rule that could have been used, on    *)
(* its own, matches the packet.                                            *)
RefusedOnlyForFragmentation ==
  Concluded /\ compressed = Err("UnsupportedRuleNature") => ScanCandidates = {}

(* A rule that describes no field stands for the whole packet.  Where one  *)
(* is loaded, malformed packets get through too, and no datagram has more  *)
(* bits than that of the first such rule, unless that is a fragmentation   *)
(* rule: then it hides the others.                                         *)
Fieldless == {i \in 1..Len(rules) : rules[i].entries = <<>>}

NeverWorseThanWrapping ==
  ~Pending =>
    /\ ~ParsesIpv6(packet) /\ Wrappers # {} => compressed.ok
    /\ /\ ParsesIpv6(packet)
       /\ Fieldless # {}
       /\ rules[Min(Fieldless)].nature # "fragmentation"
       => compressed.ok /\ Precedes(compressed.value, Wrapped(Min(Fieldless)))

(* What the two properties about the search of every rule ask of a rule    *)
(* set: no two rules have the same entries, and an entry has the index of  *)
(* its place, as from_json_str numbers them.                               *)
DistinctRules(rs) ==
  /\ \A i, j \in 1..Len(rs) : rs[i].entries = rs[j].entries => i = j
  /\ \A i, j \in 1..Len(rs) : \A k \in 1..Len(rs[i].entries) :
       k <= Len(rs[j].entries) =>
         rs[i].entries[k].index = rs[j].entries[k].index
=============================================================================
