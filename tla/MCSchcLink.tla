----------------------------- MODULE MCSchcLink -----------------------------
(***************************************************************************)
(* Small instances of SchcLink: constant functions for the configurations. *)
(***************************************************************************)
EXTENDS SchcLink

CONSTANTS g1, g2, g3, bad  \* packets: three that pass, one that is refused

(* The refused packets fail at each of the checks in turn.                 *)
OneUndecodable == [p \in Packets |-> IF p = bad THEN "nodecode" ELSE "good"]
OneBadOutput == [p \in Packets |-> IF p = bad THEN "badoutput" ELSE "good"]
TwoRefused == [p \in Packets |-> CASE p = bad -> "malformed"
                                   [] p = g3 -> "norule"
                                   [] OTHER -> "good"]

(* Who offers what.                                                        *)
DeviceOffersMost ==
  [n \in Node |-> IF n = "device" THEN Packets \ {g3} ELSE Packets \cap {g3}]
CoreOffersMost ==
  [n \in Node |-> IF n = "core" THEN Packets \ {g3} ELSE Packets \cap {g3}]

(* Whom other hosts send frames they have seen.                            *)
NobodyReplayed == [n \in Node |-> {}]
CoreFlooded == [n \in Node |-> IF n = "core" THEN {g1} ELSE {}]
BothDisturbed == [n \in Node |-> {g1}]

BothUdp == [n \in Node |-> "udp"]
DeviceOnTun == [n \in Node |-> IF n = "device" THEN "tun" ELSE "udp"]

Unlimited == [n \in Node |-> NoLimit]
CoreStopsAtTwo == [n \in Node |-> IF n = "core" THEN 2 ELSE NoLimit]
=============================================================================
