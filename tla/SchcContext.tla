---------------------------- MODULE SchcContext ----------------------------
(***************************************************************************)
(* What the compressor and the decompressor at the two ends of a link have *)
(* in common: the rule set both loaded, and the direction of the packet.   *)
(***************************************************************************)
EXTENDS SchcExtract, SchcRebuild

CONSTANTS
  RuleSets     \* rule sets the two ends may have loaded

(* A rule ID of 64 bits has the value of a u64.                            *)
ASSUME RuleSetsAssumption ==
  \A rs \in RuleSets :
    /\ rs \in Seq(RuleRecords)
    /\ Loads(rs)
    /\ \A i \in 1..Len(rs) : rs[i].id.len = 64 => rs[i].id.value < 2^64

VARIABLES
  rules,      \* the loaded rule set, in load order
  direction   \* "up" from the device to the core, or "down"

context == <<rules, direction>>

ContextInit ==
  /\ rules \in RuleSets
  /\ direction \in Directions

(* Rules that stand for a whole packet behind their ID.                    *)
WrapsPacket(rule) == rule.nature = "no-compression" \/ rule.entries = <<>>
=============================================================================
