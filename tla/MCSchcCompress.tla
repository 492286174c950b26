--------------------------- MODULE MCSchcCompress ---------------------------
(***************************************************************************)
(* Instances of SchcCompress.                                              *)
(***************************************************************************)
EXTENDS SchcCompress, MCRules

(* Sets in which rules share a prefix of entries, one is a prefix of       *)
(* another, one fits only one direction, one cannot match, and no two have *)
(* the same entries.                                                       *)
TreeRuleSets ==
  {<<HeaderOnly(0, 2), WithPayload(1, 2), Wrap(5, 3)>>,
   <<Wrap(0, 1), AnyPorts(2, 2), WithPayload(3, 2)>>,
   <<Directed(0, 1, "up"), Directed(2, 2, "down"), WrapUdp(24, 5)>>,
   <<WrapUdp(3, 2), HeaderOnly(0, 1), Fragment(4, 3)>>,
   <<AnyPorts(0, 3), HeaderOnly(1, 3)>>,
   <<HeaderOnly(0, 1), Fragment(4, 3)>>,
   <<WithPayload(0, 1)>>,
   <<CoapWhole(0, 2), CoapFirst(1, 2), CoapAny(2, 2), HeaderOnly(6, 3)>>,
   <<CoapSecond(0, 1), CoapFirst(2, 2), WrapUdp(3, 2)>>,
   <<EchoCarried(0, 2), EchoFields(1, 2), EchoShort(2, 2), Wrap(6, 3)>>,
   <<ErrorCarried(0, 2), ErrorFields(1, 2), TooBig(2, 2), EchoWhole(3, 2)>>,
   <<>>}

ASSUME TreeRulesDiffer == \A rs \in TreeRuleSets : DistinctRules(rs)

(* A fragmentation rule before a no-compression rule, both without fields. *)
FragmentFirst == {<<Fragment(1, 1), Wrap(1, 2)>>}

AllPackets ==
  OddPackets \cup
  UNION {GoodPackets(dir) \cup CoapPackets(dir) \cup IcmpPackets(dir) :
           dir \in Directions}
=============================================================================
