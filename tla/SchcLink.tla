------------------------------ MODULE SchcLink ------------------------------
(***************************************************************************)
(* Two schc-node processes, one in the Core role and one in the Device     *)
(* role, joined by a UDP link.  Each process runs the alternating loop of  *)
(* schc-node: one outbound operation (read an IPv6 packet, compress it,    *)
(* send the frame to the peer), then one inbound operation (receive a      *)
(* datagram, check its source, decompress it, write the packet).           *)
(*                                                                         *)
(* An operation is two steps, the receive with its checks and the send or  *)
(* write, because the peer, the network and the applications move between  *)
(* them.  Compression is abstracted to what becomes of a packet: a frame   *)
(* is named by the packet it carries, and Class says where in the          *)
(* operations that packet is refused, if anywhere.                         *)
(***************************************************************************)
EXTENDS Naturals, FiniteSets, SequencesExt

CONSTANTS
  Packets,      \* packets an application may offer, each at most once
  Class,        \* Class[p]: how far the operations take packet p
  Offers,       \* Offers[n]: the packets n's application may offer
  Replayed,     \* Replayed[n]: packets whose frames other hosts send to n
  Mode,         \* Mode[n]: "udp" (run_udp_loop) or "tun" (run_tun_loop)
  Limit,        \* Limit[n]: --operation-limit of n, or NoLimit
  NoLimit,      \* the option is absent
  NoPacket,     \* the process holds no packet between two steps
  QueueCap,     \* capacity of a socket or TUN queue (bound)
  IoFaults,     \* failures the operating system may report on I/O
  NetFaults,    \* misbehaviour of the link and of its surroundings
  MaxNetFaults, \* bound on lost, duplicated, reordered datagrams and kills
  MaxRestarts   \* bound on restarts of a stopped process

Node == {"core", "device"}
Peer(n) == IF n = "core" THEN "device" ELSE "core"

(* The source address of a datagram: one of the two link sockets, or any   *)
(* other address.                                                          *)
Address == Node \cup {"stranger"}
Datagram == [from : Address, packet : Packets]

Classes == {"good", "malformed", "norule", "nodecode", "badoutput"}
Faults == {"lose", "duplicate", "reorder", "stranger", "kill"}

ASSUME PacketsAssumption == NoPacket \notin Packets
ASSUME ClassAssumption == Class \in [Packets -> Classes]
ASSUME OffersAssumption == /\ Offers \in [Node -> SUBSET Packets]
                           /\ Replayed \in [Node -> SUBSET Packets]
ASSUME ModeAssumption == Mode \in [Node -> {"udp", "tun"}]
ASSUME LimitAssumption == /\ NoLimit \notin Nat
                          /\ Limit \in [Node -> Nat \cup {NoLimit}]
ASSUME BoundAssumption == /\ QueueCap \in Nat \ {0}
                          /\ MaxNetFaults \in Nat
                          /\ MaxRestarts \in Nat
ASSUME FaultAssumption == /\ IoFaults \subseteq {"WouldBlock", "Other", "Short"}
                          /\ NetFaults \subseteq Faults

VARIABLES
  offered,   \* offered[n]: packets the application gave to n, in order
  ingress,   \* ingress[n]: packets waiting in n's packet socket or TUN queue
  inbox,     \* inbox[n]: datagrams in flight to, or queued in, n's link socket
  pc,        \* pc[n]: where the process of n stands in its loop
  hold,      \* hold[n]: the packet the current operation has consumed
  ops,       \* ops[n]: successful_operations of the current process
  output,    \* output[n]: packets n has written to its packet boundary
  faults,    \* network faults and kills so far
  restarts   \* restarts so far

vars == <<offered, ingress, inbox, pc, hold, ops, output, faults, restarts>>

Running == {"outbound", "sending", "inbound", "writing"}
Stopped == {"exited", "failed"}

(* The middle of an operation: a packet is consumed and not yet passed on. *)
Midway == {"sending", "writing"}

(* A packet is held exactly in the middle of an operation.                 *)
TypeOK ==
  /\ offered \in [Node -> Seq(Packets)]
  /\ ingress \in [Node -> Seq(Packets)]
  /\ inbox \in [Node -> Seq(Datagram)]
  /\ pc \in [Node -> Running \cup Stopped]
  /\ hold \in [Node -> Packets \cup {NoPacket}]
  /\ \A n \in Node : hold[n] # NoPacket <=> pc[n] \in Midway
  /\ ops \in [Node -> Nat]
  /\ output \in [Node -> Seq(Packets)]
  /\ faults \in Nat
  /\ restarts \in Nat

-----------------------------------------------------------------------------
(* Outcomes of an operation, and how the loop classifies them.             *)

(* Mutant: only one of the two names of an expired timeout is known.       *)
UdpTimeoutOnly(r) == r = "Io.TimedOut"

UdpTimeout(r) == r = "Io.WouldBlock"
UdpRecoverable(r) == r \in {"InvalidIpv6", "Runtime", "UnexpectedLinkPeer"}

(* In TUN mode an idle device read counts as a timeout only when the       *)
(* operation is the outbound one.                                          *)
TunTimeout(op, r) == \/ r = "Io.WouldBlock"
                     \/ r = "Device.WouldBlock" /\ op = "outbound"
TunRecoverable(r) == r \in {"InvalidIpv6", "Runtime", "UnexpectedLinkPeer"}

Continues(n, op, r) ==
  \/ r = "Ok"
  \/ Mode[n] = "udp" /\ (UdpTimeout(r) \/ UdpRecoverable(r))
  \/ Mode[n] = "tun" /\ (TunTimeout(op, r) \/ TunRecoverable(r))

(* Mutant: the limit is noticed one operation late.                        *)
ReachedLimitLate(n, count) == Limit[n] \in Nat /\ count > Limit[n]

ReachedLimit(n, count) == Limit[n] \in Nat /\ count >= Limit[n]

FirstPc(n) == IF Limit[n] = 0 THEN "exited" ELSE "outbound"

(* Mutants of Return: the consumed packet is kept; inbound successes are   *)
(* not counted; inbound operations go on as long as something arrives.     *)
ReturnHolding(n, op, r) ==
  /\ ops' = [ops EXCEPT ![n] = IF r = "Ok" THEN @ + 1 ELSE @]
  /\ hold' = hold
  /\ pc' = [pc EXCEPT ![n] =
              IF ~Continues(n, op, r) THEN "failed"
              ELSE IF op = "outbound" THEN "inbound" ELSE "outbound"]

ReturnWith(n, op, r, counted, again) ==
  LET count == IF counted THEN ops[n] + 1 ELSE ops[n]
      other == IF again THEN op
               ELSE IF op = "outbound" THEN "inbound" ELSE "outbound"
  IN /\ ops' = [ops EXCEPT ![n] = count]
     /\ hold' = [hold EXCEPT ![n] = NoPacket]
     /\ pc' = [pc EXCEPT ![n] =
                 IF ~Continues(n, op, r) THEN "failed"
                 ELSE IF ReachedLimit(n, count) THEN "exited"
                 ELSE other]

ReturnCountingSends(n, op, r) ==
  ReturnWith(n, op, r, r = "Ok" /\ op = "outbound", FALSE)

ReturnDraining(n, op, r) ==
  ReturnWith(n, op, r, r = "Ok", op = "inbound" /\ r # "Io.WouldBlock")

(* The loop after operation op returned r: count a success, stop at the    *)
(* limit, go on with the other operation, or leave with the error.         *)
Return(n, op, r) ==
  LET count == IF r = "Ok" THEN ops[n] + 1 ELSE ops[n]
      other == IF op = "outbound" THEN "inbound" ELSE "outbound"
  IN /\ ops' = [ops EXCEPT ![n] = count]
     /\ hold' = [hold EXCEPT ![n] = NoPacket]
     /\ pc' = [pc EXCEPT ![n] =
                 IF ~Continues(n, op, r) THEN "failed"
                 ELSE IF ReachedLimit(n, count) THEN "exited"
                 ELSE other]

(* The packet boundary is a blocking socket in UDP mode, a nonblocking     *)
(* device in TUN mode: their failures have different names.                *)
LinkError(f) == CASE f = "WouldBlock" -> "Io.WouldBlock"
                  [] f = "Other" -> "Io.Other"
                  [] f = "Short" -> "ShortSend"

DeviceError(f) == CASE f = "WouldBlock" -> "Device.WouldBlock"
                    [] f = "Other" -> "Device.Other"
                    [] f = "Short" -> "ShortWrite"

BoundaryError(n, f) == IF Mode[n] = "tun" THEN DeviceError(f) ELSE LinkError(f)

-----------------------------------------------------------------------------
Init ==
  /\ offered = [n \in Node |-> <<>>]
  /\ ingress = [n \in Node |-> <<>>]
  /\ inbox = [n \in Node |-> <<>>]
  /\ pc = [n \in Node |-> FirstPc(n)]
  /\ hold = [n \in Node |-> NoPacket]
  /\ ops = [n \in Node |-> 0]
  /\ output = [n \in Node |-> <<>>]
  /\ faults = 0
  /\ restarts = 0

(* Mutants: the packet stays in the queue while it is handled; the newest  *)
(* packet is taken first.                                                  *)
OutboundReceivePeeks(n) ==
  /\ pc[n] = "outbound"
  /\ ingress[n] # <<>>
  /\ hold' = [hold EXCEPT ![n] = Head(ingress[n])]
  /\ pc' = [pc EXCEPT ![n] = "sending"]
  /\ UNCHANGED <<offered, ingress, inbox, ops, output, faults, restarts>>

OutboundReceiveNewest(n) ==
  /\ pc[n] = "outbound"
  /\ ingress[n] # <<>>
  /\ hold' = [hold EXCEPT ![n] = ingress[n][Len(ingress[n])]]
  /\ ingress' = [ingress EXCEPT ![n] = SubSeq(@, 1, Len(@) - 1)]
  /\ pc' = [pc EXCEPT ![n] = "sending"]
  /\ UNCHANGED <<offered, inbox, ops, output, faults, restarts>>

(* outbound_once, up to the send: take a packet, parse it, compress it.    *)
OutboundReceive(n) ==
  /\ pc[n] = "outbound"
  /\ ingress[n] # <<>>
  /\ ingress' = [ingress EXCEPT ![n] = Tail(@)]
  /\ LET p == Head(ingress[n])
     IN \/ Class[p] = "malformed" /\ Return(n, "outbound", "InvalidIpv6")
        \/ Class[p] = "norule" /\ Return(n, "outbound", "Runtime")
        \/ /\ Class[p] \in {"good", "nodecode", "badoutput"}
           /\ hold' = [hold EXCEPT ![n] = p]
           /\ pc' = [pc EXCEPT ![n] = "sending"]
           /\ UNCHANGED ops
  /\ UNCHANGED <<offered, inbox, output, faults, restarts>>

(* Nothing to read within the read timeout (UDP) or at once (TUN).         *)
OutboundIdle(n) ==
  /\ pc[n] = "outbound"
  /\ ingress[n] = <<>>
  /\ Return(n, "outbound", BoundaryError(n, "WouldBlock"))
  /\ UNCHANGED <<offered, ingress, inbox, output, faults, restarts>>

(* send_to the configured peer: the frame is on the link.  A full receive  *)
(* queue discards it without telling the sender.                           *)
OutboundSend(n) ==
  /\ pc[n] = "sending"
  /\ LET d == [from |-> n, packet |-> hold[n]]
     IN inbox' = IF Len(inbox[Peer(n)]) < QueueCap
                 THEN [inbox EXCEPT ![Peer(n)] = Append(@, d)]
                 ELSE inbox
  /\ Return(n, "outbound", "Ok")
  /\ UNCHANGED <<offered, ingress, output, faults, restarts>>

(* Mutant: a send that reports a failure is tried again, though the frame  *)
(* has left.                                                               *)
OutboundSendRepeats(n) ==
  /\ pc[n] = "sending"
  /\ IoFaults # {}
  /\ Len(inbox[Peer(n)]) < QueueCap
  /\ inbox' = [inbox EXCEPT ![Peer(n)] =
                 Append(@, [from |-> n, packet |-> hold[n]])]
  /\ UNCHANGED <<offered, ingress, pc, hold, ops, output, faults, restarts>>

(* The send fails: the packet is already consumed, and is gone.            *)
OutboundSendFails(n) ==
  /\ pc[n] = "sending"
  /\ \E f \in IoFaults : Return(n, "outbound", LinkError(f))
  /\ UNCHANGED <<offered, ingress, inbox, output, faults, restarts>>

(* Mutant: the source of a datagram is not looked at.                      *)
InboundReceiveAny(n) ==
  /\ pc[n] = "inbound"
  /\ inbox[n] # <<>>
  /\ inbox' = [inbox EXCEPT ![n] = Tail(@)]
  /\ LET d == Head(inbox[n])
     IN \/ Class[d.packet] # "good" /\ Return(n, "inbound", "Runtime")
        \/ /\ Class[d.packet] = "good"
           /\ hold' = [hold EXCEPT ![n] = d.packet]
           /\ pc' = [pc EXCEPT ![n] = "writing"]
           /\ UNCHANGED ops
  /\ UNCHANGED <<offered, ingress, output, faults, restarts>>

(* inbound_once, up to the write: take a datagram, check its source before *)
(* any SCHC processing, decompress it, parse the result.                   *)
InboundReceive(n) ==
  /\ pc[n] = "inbound"
  /\ inbox[n] # <<>>
  /\ inbox' = [inbox EXCEPT ![n] = Tail(@)]
  /\ LET d == Head(inbox[n])
     IN \/ d.from # Peer(n) /\ Return(n, "inbound", "UnexpectedLinkPeer")
        \/ /\ d.from = Peer(n)
           /\ \/ /\ Class[d.packet] \in {"malformed", "norule", "nodecode"}
                 /\ Return(n, "inbound", "Runtime")
              \/ /\ Class[d.packet] = "badoutput"
                 /\ Return(n, "inbound", "InvalidIpv6")
              \/ /\ Class[d.packet] = "good"
                 /\ hold' = [hold EXCEPT ![n] = d.packet]
                 /\ pc' = [pc EXCEPT ![n] = "writing"]
                 /\ UNCHANGED ops
  /\ UNCHANGED <<offered, ingress, output, faults, restarts>>

InboundIdle(n) ==
  /\ pc[n] = "inbound"
  /\ inbox[n] = <<>>
  /\ Return(n, "inbound", "Io.WouldBlock")
  /\ UNCHANGED <<offered, ingress, inbox, output, faults, restarts>>

InboundWrite(n) ==
  /\ pc[n] = "writing"
  /\ output' = [output EXCEPT ![n] = Append(@, hold[n])]
  /\ Return(n, "inbound", "Ok")
  /\ UNCHANGED <<offered, ingress, inbox, faults, restarts>>

InboundWriteFails(n) ==
  /\ pc[n] = "writing"
  /\ \E f \in IoFaults : Return(n, "inbound", BoundaryError(n, f))
  /\ UNCHANGED <<offered, ingress, inbox, output, faults, restarts>>

(* A receive call fails with an error that is not a timeout.               *)
ReceiveFails(n) ==
  /\ "Other" \in IoFaults
  /\ \/ pc[n] = "outbound" /\ Return(n, "outbound", BoundaryError(n, "Other"))
     \/ pc[n] = "inbound" /\ Return(n, "inbound", LinkError("Other"))
  /\ UNCHANGED <<offered, ingress, inbox, output, faults, restarts>>

Process(n) ==
  \/ OutboundReceive(n) \/ OutboundIdle(n)
  \/ OutboundSend(n) \/ OutboundSendFails(n)
  \/ InboundReceive(n) \/ InboundIdle(n)
  \/ InboundWrite(n) \/ InboundWriteFails(n)
  \/ ReceiveFails(n)

-----------------------------------------------------------------------------
(* Surroundings of the two processes.                                      *)

Fresh(p) == \A n \in Node : \A i \in 1..Len(offered[n]) : offered[n][i] # p

(* An application sends a packet to n's packet boundary.                   *)
Offer(n, p) ==
  /\ Fresh(p)
  /\ pc[n] \in Running
  /\ Len(ingress[n]) < QueueCap
  /\ offered' = [offered EXCEPT ![n] = Append(@, p)]
  /\ ingress' = [ingress EXCEPT ![n] = Append(@, p)]
  /\ UNCHANGED <<inbox, pc, hold, ops, output, faults, restarts>>

Fault(kind) ==
  /\ kind \in NetFaults
  /\ faults < MaxNetFaults
  /\ faults' = faults + 1

Lose(n) ==
  /\ Fault("lose")
  /\ \E i \in 1..Len(inbox[n]) :
        inbox' = [inbox EXCEPT ![n] = RemoveAt(@, i)]
  /\ UNCHANGED <<offered, ingress, pc, hold, ops, output, restarts>>

Duplicate(n) ==
  /\ Fault("duplicate")
  /\ Len(inbox[n]) < QueueCap
  /\ \E i \in 1..Len(inbox[n]) :
        inbox' = [inbox EXCEPT ![n] = Append(@, @[i])]
  /\ UNCHANGED <<offered, ingress, pc, hold, ops, output, restarts>>

(* A datagram is overtaken by all that follow it.                          *)
Reorder(n) ==
  /\ Fault("reorder")
  /\ \E i \in 1..Len(inbox[n]) :
        inbox' = [inbox EXCEPT ![n] = Append(RemoveAt(@, i), @[i])]
  /\ UNCHANGED <<offered, ingress, pc, hold, ops, output, restarts>>

(* Another host sends a well-formed frame to n's link socket.              *)
Stranger(n, p) ==
  /\ "stranger" \in NetFaults
  /\ Len(inbox[n]) < QueueCap
  /\ inbox' = [inbox EXCEPT ![n] =
                 Append(@, [from |-> "stranger", packet |-> p])]
  /\ UNCHANGED <<offered, ingress, pc, hold, ops, output, faults, restarts>>

(* The process is killed between any two steps.                            *)
Kill(n) ==
  /\ Fault("kill")
  /\ pc[n] \in Running
  /\ pc' = [pc EXCEPT ![n] = "failed"]
  /\ hold' = [hold EXCEPT ![n] = NoPacket]
  /\ UNCHANGED <<offered, ingress, inbox, ops, output, restarts>>

(* A new process binds the same addresses.  Nothing is persisted: packets  *)
(* queued at the old packet boundary are gone, and so are the datagrams    *)
(* that had reached the old link socket; those still in flight are not.    *)
Restart(n) ==
  /\ pc[n] \in Stopped
  /\ restarts < MaxRestarts
  /\ restarts' = restarts + 1
  /\ pc' = [pc EXCEPT ![n] = FirstPc(n)]
  /\ ops' = [ops EXCEPT ![n] = 0]
  /\ ingress' = [ingress EXCEPT ![n] = <<>>]
  /\ \E k \in 0..Len(inbox[n]) :
        inbox' = [inbox EXCEPT ![n] = SubSeq(@, k + 1, Len(@))]
  /\ UNCHANGED <<offered, hold, output, faults>>

Surroundings(n) ==
  \/ \E p \in Offers[n] : Offer(n, p)
  \/ \E p \in Replayed[n] : Stranger(n, p)
  \/ Lose(n) \/ Duplicate(n) \/ Reorder(n) \/ Kill(n) \/ Restart(n)

Next == \E n \in Node : Process(n) \/ Surroundings(n)

Spec == Init /\ [][Next]_vars

(* A running process always takes its next step: no call it makes blocks   *)
(* longer than READ_TIMEOUT.  Nothing is assumed of the surroundings.      *)
FairSpec == Spec /\ \A n \in Node : WF_vars(Process(n))
-----------------------------------------------------------------------------
(* Correctness.                                                            *)

Given(n) == {offered[n][i] : i \in 1..Len(offered[n])}

(* A node writes only packets that were offered to its peer and that every *)
(* check of the two operations lets through.  A well-formed frame from any *)
(* other address is never decompressed into an output packet: the source   *)
(* check of inbound_once comes before node.inbound.                        *)
Integrity ==
  \A n \in Node : \A i \in 1..Len(output[n]) :
     output[n][i] \in Given(Peer(n)) /\ Class[output[n][i]] = "good"

(* As long as the link duplicates nothing, a packet is written at most     *)
(* once, whatever is lost, reordered, killed or restarted: consuming a     *)
(* packet and sending it are never both undone and redone.                 *)
AtMostOnce ==
  "duplicate" \notin NetFaults =>
    \A n \in Node : IsInjective(output[n])

(* On a link that neither duplicates nor reorders, packets come out in the *)
(* order they were offered: the loop handles one packet at a time and      *)
(* never goes back to an earlier one.                                      *)
InOrder ==
  {"duplicate", "reorder"} \cap NetFaults = {} =>
    \A n \in Node : \A i, j \in 1..Len(output[n]) :
       i < j => \E k, m \in 1..Len(offered[Peer(n)]) :
                   /\ k < m
                   /\ offered[Peer(n)][k] = output[n][i]
                   /\ offered[Peer(n)][m] = output[n][j]

(* The operation limit counts successes of either kind, is never exceeded, *)
(* and a process that left its loop through the limit performed exactly    *)
(* that many.                                                              *)
LimitRespected ==
  \A n \in Node : Limit[n] \in Nat =>
     /\ ops[n] <= Limit[n]
     /\ pc[n] \in Running => ops[n] < Limit[n]
     /\ pc[n] = "exited" => ops[n] = Limit[n]

(* Datagrams from n's peer that still wait for n.                          *)
FramesFromPeer(n) ==
  {i \in 1..Len(inbox[n]) : inbox[n][i].from = Peer(n)}

(* Every packet that comes out, or still can, was reported as a successful *)
(* send by the peer, and every one written as a successful operation here: *)
(* the two counters never fall behind what the nodes did.  A duplicating   *)
(* link or a restarted process, whose counter starts again, is excluded.   *)
SuccessesCoverTraffic ==
  "duplicate" \notin NetFaults /\ restarts = 0 =>
    \A n \in Node :
       ops[n] >= Len(output[n])
                 + Len(output[Peer(n)])
                 + Cardinality(FramesFromPeer(Peer(n)))
                 + (IF pc[Peer(n)] = "writing" THEN 1 ELSE 0)

(* An error that only says "not now" stops a process in one case, a TUN    *)
(* device that refuses a write; every other such error is taken for an     *)
(* idle read and the loop goes on.                                         *)
TransientErrorsKeepRunning ==
  [][IoFaults \subseteq {"WouldBlock"} /\ "kill" \notin NetFaults =>
       \A n \in Node : pc'[n] = "failed" /\ pc[n] # "failed" =>
          pc[n] = "writing" /\ Mode[n] = "tun"]_pc

(* Copies of p on their way to node n, wherever they are.                  *)
Copies(n, p) ==
  Cardinality({i \in 1..Len(ingress[Peer(n)]) : ingress[Peer(n)][i] = p})
  + (IF pc[Peer(n)] = "sending" /\ hold[Peer(n)] = p THEN 1 ELSE 0)
  + Cardinality({i \in FramesFromPeer(n) : inbox[n][i].packet = p})
  + (IF pc[n] = "writing" /\ hold[n] = p THEN 1 ELSE 0)

Service == INSTANCE PacketService WITH
             Side <- Node,
             Other <- Peer,
             MayDuplicate <- "duplicate" \in NetFaults,
             given <- offered,
             transit <- [n \in Node |-> [p \in Packets |-> Copies(n, p)]],
             written <- output

(* The two nodes and the link implement the unreliable packet service.     *)
ImplementsService == Service!Spec

(* With a link that loses nothing, I/O that does not fail and queues that  *)
(* do not fill, every packet the peer can decode is eventually written: no *)
(* order of the two loops strands a packet.  Other hosts that never stop   *)
(* sending to n fill its link queue, but its own packets still get out:    *)
(* inbound work cannot starve the outbound operation.                      *)
Delivered ==
  \A n \in Node : \A p \in Packets :
     (p \in Given(n) /\ Class[p] = "good" /\ Replayed[Peer(n)] = {})
       ~> (\E i \in 1..Len(output[Peer(n)]) : output[Peer(n)][i] = p)
=============================================================================
