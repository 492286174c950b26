--------------------------- MODULE MCSchcTransfer ---------------------------
(***************************************************************************)
(* Instances of SchcTransfer.  Datagrams come from the compressor, so      *)
(* CONSTANT Datagrams is empty.                                            *)
(***************************************************************************)
EXTENDS SchcTransfer, MCRules

TransferRuleSets ==
  {<<HeaderOnly(0, 2), WithPayload(1, 2), Wrap(5, 3)>>,
   <<Wrap(0, 1), AnyPorts(2, 2), WithPayload(3, 2)>>,
   <<Directed(0, 1, "up"), Directed(2, 2, "down"), Wrap(7, 3)>>,
   <<WrapUdp(24, 5), HeaderOnly(0, 1)>>,
   <<CoapWhole(0, 2), CoapFirst(1, 2), CoapAny(2, 2)>>,
   <<CoapFirst(0, 1), CoapSecond(4, 3), CoapSized(5, 3), HeaderOnly(6, 3)>>,
   <<EchoWhole(0, 2), ErrorFields(1, 2), TooBig(2, 2)>>,
   <<EchoFields(0, 3), ErrorCarried(1, 3), ErrorFields(3, 2), Wrap(1, 2)>>,
   <<EchoCarried(0, 1), ErrorCarried(4, 3), Wrap(5, 3)>>}

TransferPackets ==
  OddPackets \cup
  UNION {GoodPackets(dir) \cup CoapPackets(dir) \cup IcmpPackets(dir)
         \cup {Miscounted(Udp(dir, 64, Port, port, Byte(77))) : port \in {Port, 7}}
         \cup {Miscounted(IcmpPacket(dir, 128, 0, Word(77) \o Word(3))),
               Foreign(Udp(dir, 64, Port, Port, Byte(77)), dir)} :
           dir \in Directions}

(* A header-only rule that describes type, code and checksum of an echo.   *)
ShortRuleSets == {<<EchoShort(0, 2), Wrap(5, 3)>>}

NoDatagrams == {}
=============================================================================
