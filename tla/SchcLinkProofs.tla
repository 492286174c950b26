--------------------------- MODULE SchcLinkProofs ---------------------------
(***************************************************************************)
(* Proofs about SchcLink, for every set of packets, every classification   *)
(* of them, every mode, limit, queue capacity and fault bound.             *)
(***************************************************************************)
EXTENDS SchcLink, Integers, SequenceTheorems, FiniteSetTheorems, TLAPS

(* The index in the longer sequence of what is at index k once the element *)
(* at index i is gone.                                                     *)
Skipping(i, k) == IF k < i THEN k ELSE k + 1

(* RemoveAt keeps every element but one, in order.                         *)
LEMMA RemoveAtProperties ==
  ASSUME NEW S, NEW s \in Seq(S), NEW i \in 1..Len(s)
  PROVE  /\ RemoveAt(s, i) \in Seq(S)
         /\ Len(RemoveAt(s, i)) = Len(s) - 1
         /\ \A k \in 1..Len(RemoveAt(s, i)) :
               RemoveAt(s, i)[k] = s[Skipping(i, k)]
<1> DEFINE front == SubSeq(s, 1, i - 1)
           back == SubSeq(s, i + 1, Len(s))
<1>1. front \in Seq(S) /\ Len(front) = i - 1
  OBVIOUS
<1>2. \A k \in 1..(i - 1) : front[k] = s[k]
  OBVIOUS
<1>3. back \in Seq(S) /\ Len(back) = Len(s) - i
  OBVIOUS
<1>4. \A k \in 1..(Len(s) - i) : back[k] = s[i + k]
  <2>1. \A k \in (i + 1)..Len(s) : s[k] \in S
    OBVIOUS
  <2>2. \A k \in 1..(Len(s) - (i + 1) + 1) : back[k] = s[(i + 1) + k - 1]
    BY <2>1, SubSeqProperties
  <2> QED BY <2>2
<1> HIDE DEF front, back
<1>5. /\ front \o back \in Seq(S)
      /\ Len(front \o back) = Len(s) - 1
      /\ \A k \in 1..(Len(s) - 1) :
            (front \o back)[k] =
               IF k <= i - 1 THEN front[k] ELSE back[k - (i - 1)]
  <2>1. /\ front \o back \in Seq(S)
        /\ Len(front \o back) = Len(front) + Len(back)
        /\ \A k \in 1..(Len(front) + Len(back)) :
              (front \o back)[k] =
                 IF k <= Len(front) THEN front[k] ELSE back[k - Len(front)]
    BY <1>1, <1>3, ConcatProperties
  <2> QED BY <1>1, <1>3, <2>1
<1>6. ASSUME NEW k \in 1..(Len(s) - 1)
      PROVE  (front \o back)[k] = s[Skipping(i, k)]
  <2>1. CASE k < i
    BY <1>2, <1>5, <2>1 DEF Skipping
  <2>2. CASE k >= i
    <3>1. back[k - (i - 1)] = s[i + (k - (i - 1))]
      BY <1>4, <2>2
    <3> QED BY <1>5, <2>2, <3>1 DEF Skipping
  <2>3. k < i \/ k >= i
    OBVIOUS
  <2> QED BY <2>1, <2>2, <2>3, Zenon
<1> QED BY <1>5, <1>6 DEF RemoveAt, front, back

(* A node's peer is the other node, and never the node itself.             *)
LEMMA PeerFacts ==
  \A n \in Node : Peer(n) \in Node /\ Peer(n) # n /\ Peer(Peer(n)) = n
  BY DEF Node, Peer

(* The part of the type invariant about the loop of a process.             *)
LoopTypeOK ==
  /\ ops \in [Node -> Nat]
  /\ hold \in [Node -> Packets \cup {NoPacket}]
  /\ pc \in [Node -> Running \cup Stopped]
  /\ \A n \in Node : hold[n] # NoPacket <=> pc[n] \in Midway

(* The end of an operation leaves the loop variables well typed.           *)
LEMMA ReturnType ==
  ASSUME TypeOK, NEW n \in Node, NEW op \in {"outbound", "inbound"}, NEW r,
         Return(n, op, r)
  PROVE  LoopTypeOK'
  BY DEF TypeOK, LoopTypeOK, Return, Running, Stopped, Midway

(* So does the middle of one, with a packet taken from a queue.            *)
LEMMA HoldType ==
  ASSUME TypeOK, NEW n \in Node, NEW p \in Packets, NEW c \in Midway,
         hold' = [hold EXCEPT ![n] = p], pc' = [pc EXCEPT ![n] = c],
         ops' = ops
  PROVE  LoopTypeOK'
  BY PacketsAssumption DEF TypeOK, LoopTypeOK, Running, Stopped, Midway

(* Every variable keeps its type in every behaviour of the two nodes.      *)
THEOREM TypeCorrect == Spec => []TypeOK
<1>1. Init => TypeOK
  BY DEF Init, TypeOK, FirstPc, Running, Stopped, Midway
<1>2. TypeOK /\ [Next]_vars => TypeOK'
  <2> SUFFICES ASSUME TypeOK, [Next]_vars PROVE TypeOK'
    OBVIOUS
  <2>1. CASE UNCHANGED vars
    BY <2>1 DEF vars, TypeOK
  <2>2. ASSUME NEW n \in Node, Process(n) PROVE TypeOK'
    <3>1. CASE OutboundReceive(n)
      <4>1. Tail(ingress[n]) \in Seq(Packets) /\ Head(ingress[n]) \in Packets
        BY <3>1 DEF OutboundReceive, TypeOK
      <4>2. LoopTypeOK'
        BY <3>1, <4>1, ReturnType, HoldType DEF OutboundReceive, Midway
      <4> QED BY <3>1, <4>1, <4>2 DEF OutboundReceive, TypeOK, LoopTypeOK
    <3>2. CASE OutboundIdle(n)
      BY <3>2, ReturnType DEF OutboundIdle, TypeOK, LoopTypeOK
    <3>3. CASE OutboundSend(n)
      <4>1. [from |-> n, packet |-> hold[n]] \in Datagram
        BY <3>3 DEF OutboundSend, TypeOK, Datagram, Address, Midway
      <4>2. inbox' \in [Node -> Seq(Datagram)]
        BY <3>3, <4>1, PeerFacts DEF OutboundSend, TypeOK
      <4>3. LoopTypeOK'
        BY <3>3, ReturnType DEF OutboundSend
      <4> QED BY <3>3, <4>2, <4>3 DEF OutboundSend, TypeOK, LoopTypeOK
    <3>4. CASE OutboundSendFails(n)
      BY <3>4, ReturnType DEF OutboundSendFails, TypeOK, LoopTypeOK
    <3>5. CASE InboundReceive(n)
      <4>1. Tail(inbox[n]) \in Seq(Datagram) /\ Head(inbox[n]) \in Datagram
        BY <3>5 DEF InboundReceive, TypeOK
      <4>2. Head(inbox[n]).packet \in Packets
        BY <4>1 DEF Datagram
      <4>3. LoopTypeOK'
        BY <3>5, <4>2, ReturnType, HoldType DEF InboundReceive, Midway
      <4> QED BY <3>5, <4>1, <4>3 DEF InboundReceive, TypeOK, LoopTypeOK
    <3>6. CASE InboundIdle(n)
      BY <3>6, ReturnType DEF InboundIdle, TypeOK, LoopTypeOK
    <3>7. CASE InboundWrite(n)
      <4>1. hold[n] \in Packets
        BY <3>7 DEF InboundWrite, TypeOK, Midway
      <4>2. output' \in [Node -> Seq(Packets)]
        BY <3>7, <4>1 DEF InboundWrite, TypeOK
      <4>3. LoopTypeOK'
        BY <3>7, ReturnType DEF InboundWrite
      <4> QED BY <3>7, <4>2, <4>3 DEF InboundWrite, TypeOK, LoopTypeOK
    <3>8. CASE InboundWriteFails(n)
      BY <3>8, ReturnType DEF InboundWriteFails, TypeOK, LoopTypeOK
    <3>9. CASE ReceiveFails(n)
      BY <3>9, ReturnType DEF ReceiveFails, TypeOK, LoopTypeOK
    <3> QED BY <2>2, <3>1, <3>2, <3>3, <3>4, <3>5, <3>6, <3>7, <3>8, <3>9
            DEF Process
  <2>3. ASSUME NEW n \in Node, Surroundings(n) PROVE TypeOK'
    <3>1. ASSUME NEW p \in Offers[n], Offer(n, p) PROVE TypeOK'
      <4>1. p \in Packets
        BY OffersAssumption
      <4> QED BY <3>1, <4>1 DEF Offer, TypeOK
    <3>2. ASSUME NEW p \in Replayed[n], Stranger(n, p) PROVE TypeOK'
      <4>1. [from |-> "stranger", packet |-> p] \in Datagram
        BY OffersAssumption DEF Datagram, Address
      <4> QED BY <3>2, <4>1 DEF Stranger, TypeOK
    <3>3. CASE Lose(n)
      <4>1. PICK i \in 1..Len(inbox[n]) :
               inbox' = [inbox EXCEPT ![n] = RemoveAt(inbox[n], i)]
        BY <3>3 DEF Lose
      <4>2. inbox' \in [Node -> Seq(Datagram)]
        BY <4>1, RemoveAtProperties DEF TypeOK
      <4>u. UNCHANGED <<offered, ingress, pc, hold, ops, output, restarts>>
        BY <3>3 DEF Lose
      <4>f. faults' \in Nat
        BY <3>3 DEF Lose, Fault, TypeOK
      <4> QED BY <4>2, <4>u, <4>f DEF TypeOK
    <3>4. CASE Duplicate(n)
      <4>1. inbox' \in [Node -> Seq(Datagram)]
        BY <3>4 DEF Duplicate, TypeOK
      <4>u. UNCHANGED <<offered, ingress, pc, hold, ops, output, restarts>>
        BY <3>4 DEF Duplicate
      <4>f. faults' \in Nat
        BY <3>4 DEF Duplicate, Fault, TypeOK
      <4> QED BY <4>1, <4>u, <4>f DEF TypeOK
    <3>5. CASE Reorder(n)
      <4>1. PICK i \in 1..Len(inbox[n]) :
               inbox' = [inbox EXCEPT ![n] =
                           Append(RemoveAt(inbox[n], i), inbox[n][i])]
        BY <3>5 DEF Reorder
      <4>a. inbox[n] \in Seq(Datagram) /\ inbox[n][i] \in Datagram
        BY <4>1 DEF TypeOK
      <4>b. RemoveAt(inbox[n], i) \in Seq(Datagram)
        BY <4>a, RemoveAtProperties
      <4>c. Append(RemoveAt(inbox[n], i), inbox[n][i]) \in Seq(Datagram)
        BY <4>a, <4>b
      <4>2. inbox' \in [Node -> Seq(Datagram)]
        BY <4>1, <4>c DEF TypeOK
      <4>u. UNCHANGED <<offered, ingress, pc, hold, ops, output, restarts>>
        BY <3>5 DEF Reorder
      <4>f. faults' \in Nat
        BY <3>5 DEF Reorder, Fault, TypeOK
      <4> QED BY <4>2, <4>u, <4>f DEF TypeOK
    <3>6. CASE Kill(n)
      <4>1. LoopTypeOK'
        BY <3>6 DEF Kill, TypeOK, LoopTypeOK, Running, Stopped, Midway
      <4> QED BY <3>6, <4>1 DEF Kill, Fault, TypeOK, LoopTypeOK
    <3>7. CASE Restart(n)
      <4>1. LoopTypeOK'
        BY <3>7 DEF Restart, FirstPc, TypeOK, LoopTypeOK, Running, Stopped, Midway
      <4>2. PICK k \in 0..Len(inbox[n]) :
               inbox' = [inbox EXCEPT ![n] =
                           SubSeq(inbox[n], k + 1, Len(inbox[n]))]
        BY <3>7 DEF Restart
      <4>3. inbox' \in [Node -> Seq(Datagram)]
        BY <4>2 DEF TypeOK
      <4> QED BY <3>7, <4>1, <4>3 DEF Restart, TypeOK, LoopTypeOK
    <3> QED BY <2>3, <3>1, <3>2, <3>3, <3>4, <3>5, <3>6, <3>7 DEF Surroundings
  <2> QED BY <2>1, <2>2, <2>3 DEF Next
<1> QED BY <1>1, <1>2, PTL DEF Spec

-----------------------------------------------------------------------------
(* The operation limit: after every operation the counter is below the     *)
(* limit or the process has left its loop with the counter at the limit.   *)
LEMMA ReturnLimit ==
  ASSUME TypeOK, LimitRespected, NEW n \in Node, pc[n] \in Running,
         NEW op \in {"outbound", "inbound"}, NEW r, Return(n, op, r)
  PROVE  LimitRespected'
  BY LimitAssumption
  DEF TypeOK, LimitRespected, Return, ReachedLimit, Running

(* A process never does more operations than its limit says.               *)
THEOREM LimitIsRespected == Spec => []LimitRespected
<1>1. Init => LimitRespected
  BY LimitAssumption DEF Init, LimitRespected, FirstPc, Running
<1>2. TypeOK /\ LimitRespected /\ [Next]_vars => LimitRespected'
  <2> SUFFICES ASSUME TypeOK, LimitRespected, [Next]_vars PROVE LimitRespected'
    OBVIOUS
  <2>1. CASE UNCHANGED vars
    BY <2>1 DEF vars, LimitRespected
  <2>2. ASSUME NEW n \in Node, Process(n) PROVE LimitRespected'
    <3>1. ASSUME NEW op \in {"outbound", "inbound"}, NEW r,
                 pc[n] \in Running, Return(n, op, r)
          PROVE  LimitRespected'
      BY <3>1, ReturnLimit
    <3>2. ASSUME NEW p, NEW c \in Midway, pc[n] \in Running,
                 pc' = [pc EXCEPT ![n] = c], ops' = ops
          PROVE  LimitRespected'
      BY <3>2 DEF LimitRespected, TypeOK, Midway, Running
    <3>3. CASE OutboundReceive(n)
      BY <3>1, <3>2, <3>3 DEF OutboundReceive, Running, Midway
    <3>4. CASE InboundReceive(n)
      BY <3>1, <3>2, <3>4 DEF InboundReceive, Running, Midway
    <3>5. CASE OutboundIdle(n) \/ OutboundSend(n) \/ OutboundSendFails(n)
      BY <3>1, <3>5 DEF OutboundIdle, OutboundSend, OutboundSendFails, Running
    <3>6. CASE InboundIdle(n) \/ InboundWrite(n) \/ InboundWriteFails(n)
      BY <3>1, <3>6 DEF InboundIdle, InboundWrite, InboundWriteFails, Running
    <3>7. CASE ReceiveFails(n)
      BY <3>1, <3>7 DEF ReceiveFails, Running
    <3> QED BY <2>2, <3>3, <3>4, <3>5, <3>6, <3>7 DEF Process
  <2>3. ASSUME NEW n \in Node, Surroundings(n) PROVE LimitRespected'
    <3>1. CASE UNCHANGED <<pc, ops>>
      BY <3>1 DEF LimitRespected
    <3>2. CASE Kill(n)
      BY <3>2 DEF Kill, LimitRespected, TypeOK, Running
    <3>3. CASE Restart(n)
      BY <3>3, LimitAssumption DEF Restart, FirstPc, LimitRespected, TypeOK, Running
    <3> QED BY <2>3, <3>1, <3>2, <3>3
            DEF Surroundings, Offer, Stranger, Lose, Duplicate, Reorder
  <2> QED BY <2>1, <2>2, <2>3 DEF Next
<1> QED BY <1>1, <1>2, TypeCorrect, PTL DEF Spec

-----------------------------------------------------------------------------
(* Where the packets a node holds or may still receive come from: the      *)
(* strengthening of Integrity that is inductive.  A frame from the peer    *)
(* carries a packet offered to the peer; nothing is known of the frames of *)
(* strangers, and the source check keeps them out of "writing".            *)
IngressTraced ==
  \A n \in Node : \A i \in 1..Len(ingress[n]) : ingress[n][i] \in Given(n)

InboxTraced ==
  \A n \in Node : \A i \in 1..Len(inbox[n]) :
     inbox[n][i].from = Peer(n) => inbox[n][i].packet \in Given(Peer(n))

HoldTraced ==
  \A n \in Node :
     /\ pc[n] = "sending" => hold[n] \in Given(n)
     /\ pc[n] = "writing" =>
          hold[n] \in Given(Peer(n)) /\ Class[hold[n]] = "good"

Traced == IngressTraced /\ InboxTraced /\ HoldTraced

(* Packets stay offered.                                                   *)
LEMMA GivenGrows ==
  ASSUME TypeOK, NEW n \in Node, NEW p \in Packets, Offer(n, p)
  PROVE  /\ \A m \in Node : Given(m) \subseteq Given(m)'
         /\ p \in Given(n)'
<1>1. offered'[n] = Append(offered[n], p) /\ offered[n] \in Seq(Packets)
  BY DEF Offer, TypeOK
<1>2. /\ Len(offered'[n]) = Len(offered[n]) + 1
      /\ Len(offered[n]) \in Nat
      /\ offered'[n][Len(offered[n]) + 1] = p
      /\ \A i \in 1..Len(offered[n]) : offered'[n][i] = offered[n][i]
  BY <1>1
<1>3. p \in Given(n)'
  BY <1>2 DEF Given
<1>4. ASSUME NEW m \in Node PROVE Given(m) \subseteq Given(m)'
  <2>1. CASE m = n
    BY <1>2, <2>1 DEF Given
  <2>2. CASE m # n
    <3>1. offered'[m] = offered[m]
      BY <2>2 DEF Offer, TypeOK
    <3> QED BY <3>1 DEF Given
  <2> QED BY <2>1, <2>2
<1> QED BY <1>3, <1>4

LEMMA GivenStays ==
  ASSUME offered' = offered, NEW n \in Node
  PROVE  Given(n)' = Given(n)
  BY DEF Given

(* The end of an operation leaves no packet held in the middle of one.     *)
LEMMA ReturnTraced ==
  ASSUME TypeOK, HoldTraced, NEW n \in Node, NEW op \in {"outbound", "inbound"},
         NEW r, Return(n, op, r), offered' = offered
  PROVE  HoldTraced'
<1>1. \A m \in Node : Given(m)' = Given(m) /\ Given(Peer(m))' = Given(Peer(m))
  BY GivenStays, PeerFacts
<1>2. pc'[n] \notin Midway
  BY DEF TypeOK, Return, Midway
<1>3. \A m \in Node \ {n} : pc'[m] = pc[m] /\ hold'[m] = hold[m]
  BY DEF TypeOK, Return
<1>4. ASSUME NEW m \in Node
      PROVE  /\ pc'[m] = "sending" => hold'[m] \in Given(m)
             /\ pc'[m] = "writing" =>
                  hold'[m] \in Given(Peer(m)) /\ Class[hold'[m]] = "good"
  <2>1. CASE m = n
    BY <2>1, <1>2 DEF Midway
  <2>2. CASE m # n
    BY <2>2, <1>3 DEF HoldTraced
  <2> QED BY <2>1, <2>2
<1> QED BY <1>1, <1>4 DEF HoldTraced

(* Removing or repeating datagrams adds none of unknown origin.            *)
LEMMA InboxRearranged ==
  ASSUME TypeOK, InboxTraced, offered' = offered, NEW n \in Node,
         inbox' \in [Node -> Seq(Datagram)],
         \A m \in Node \ {n} : inbox'[m] = inbox[m],
         \A i \in 1..Len(inbox'[n]) :
            \E j \in 1..Len(inbox[n]) : inbox'[n][i] = inbox[n][j]
  PROVE  InboxTraced'
<1>1. \A m \in Node : Given(Peer(m))' = Given(Peer(m))
  BY GivenStays, PeerFacts
<1>2. ASSUME NEW m \in Node, NEW i \in 1..Len(inbox'[m]),
             inbox'[m][i].from = Peer(m)
      PROVE  inbox'[m][i].packet \in Given(Peer(m))
  <2>1. CASE m = n
    BY <2>1, <1>2 DEF InboxTraced
  <2>2. CASE m # n
    BY <2>2, <1>2 DEF InboxTraced
  <2> QED BY <2>1, <2>2
<1> QED BY <1>1, <1>2 DEF InboxTraced

(* The elements left by RemoveAt are elements of the sequence.              *)
LEMMA RemoveAtElements ==
  ASSUME NEW S, NEW s \in Seq(S), NEW i \in 1..Len(s)
  PROVE  \A k \in 1..Len(RemoveAt(s, i)) :
            \E j \in 1..Len(s) : RemoveAt(s, i)[k] = s[j]
<1>1. /\ Len(RemoveAt(s, i)) = Len(s) - 1
      /\ \A k \in 1..Len(RemoveAt(s, i)) :
            RemoveAt(s, i)[k] = s[Skipping(i, k)]
  BY RemoveAtProperties
<1>2. \A k \in 1..(Len(s) - 1) : Skipping(i, k) \in 1..Len(s)
  BY DEF Skipping
<1> QED BY <1>1, <1>2

(* The elements of a suffix are elements of the sequence.                  *)
LEMMA SuffixElements ==
  ASSUME NEW S, NEW s \in Seq(S), NEW k \in 0..Len(s)
  PROVE  \A i \in 1..Len(SubSeq(s, k + 1, Len(s))) :
            \E j \in 1..Len(s) : SubSeq(s, k + 1, Len(s))[i] = s[j]
<1>1. Len(SubSeq(s, k + 1, Len(s))) = Len(s) - k
  OBVIOUS
<1>2. \A j \in (k + 1)..Len(s) : s[j] \in S
  OBVIOUS
<1>3. \A i \in 1..(Len(s) - (k + 1) + 1) :
         SubSeq(s, k + 1, Len(s))[i] = s[(k + 1) + i - 1]
  BY <1>2, SubSeqProperties
<1>4. ASSUME NEW i \in 1..(Len(s) - k)
      PROVE  SubSeq(s, k + 1, Len(s))[i] = s[k + i] /\ k + i \in 1..Len(s)
  BY <1>3
<1> QED BY <1>1, <1>4

(* Traced and Integrity are an inductive invariant.                        *)
THEOREM PacketsAreTraced == Spec => [](Traced /\ Integrity)
<1>1. Init => Traced /\ Integrity
  <2> SUFFICES ASSUME Init PROVE Traced /\ Integrity
    OBVIOUS
  <2>1. \A n \in Node : /\ ingress[n] = <<>> /\ inbox[n] = <<>>
                        /\ output[n] = <<>> /\ pc[n] \in {"exited", "outbound"}
    BY DEF Init, FirstPc
  <2> QED BY <2>1 DEF Traced, IngressTraced, InboxTraced, HoldTraced, Integrity
<1>2. TypeOK /\ Traced /\ Integrity /\ [Next]_vars => (Traced /\ Integrity)'
  <2> SUFFICES ASSUME TypeOK, Traced, Integrity, [Next]_vars
               PROVE  Traced' /\ Integrity'
    OBVIOUS
  <2>a. ASSUME offered' = offered
        PROVE  /\ ingress' = ingress => IngressTraced'
               /\ inbox' = inbox => InboxTraced'
               /\ output' = output => Integrity'
               /\ pc' = pc /\ hold' = hold => HoldTraced'
    <3>1. \A m \in Node : Given(m)' = Given(m) /\ Given(Peer(m))' = Given(Peer(m))
      BY <2>a, GivenStays, PeerFacts
    <3> QED BY <3>1 DEF Traced, IngressTraced, InboxTraced, HoldTraced, Integrity
  <2>1. CASE UNCHANGED vars
    BY <2>1, <2>a DEF vars, Traced
  <2>2. ASSUME NEW n \in Node, Process(n) PROVE Traced' /\ Integrity'
    <3>0. offered' = offered
      BY <2>2 DEF Process, OutboundReceive, OutboundIdle, OutboundSend,
                  OutboundSendFails, InboundReceive, InboundIdle,
                  InboundWrite, InboundWriteFails, ReceiveFails
    <3>g. \A m \in Node : Given(m)' = Given(m) /\ Given(Peer(m))' = Given(Peer(m))
      BY <3>0, GivenStays, PeerFacts
    <3>1. CASE OutboundReceive(n)
      <4>1. ingress[n] # <<>> /\ ingress[n] \in Seq(Packets)
        BY <3>1 DEF OutboundReceive, TypeOK
      <4>2. Head(ingress[n]) \in Given(n)
        BY <4>1 DEF Traced, IngressTraced
      <4>3. IngressTraced'
        <5>1. \A i \in 1..Len(Tail(ingress[n])) : Tail(ingress[n])[i] \in Given(n)
          BY <4>1 DEF Traced, IngressTraced
        <5>2. /\ ingress'[n] = Tail(ingress[n])
              /\ \A m \in Node \ {n} : ingress'[m] = ingress[m]
          BY <3>1 DEF OutboundReceive, TypeOK
        <5> QED BY <5>1, <5>2, <3>g DEF Traced, IngressTraced
      <4>4. HoldTraced'
        <5>1. ASSUME hold' = [hold EXCEPT ![n] = Head(ingress[n])],
                     pc' = [pc EXCEPT ![n] = "sending"]
              PROVE  HoldTraced'
          BY <5>1, <4>2, <3>g DEF Traced, HoldTraced, TypeOK
        <5>2. ASSUME NEW r, Return(n, "outbound", r) PROVE HoldTraced'
          BY <5>2, <3>0, ReturnTraced DEF Traced
        <5> QED BY <5>1, <5>2, <3>1 DEF OutboundReceive
      <4> QED BY <2>a, <3>0, <3>1, <4>3, <4>4 DEF OutboundReceive, Traced
    <3>2. CASE OutboundSend(n)
      <4>1. HoldTraced'
        BY <3>0, <3>2, ReturnTraced DEF OutboundSend, Traced
      <4>2. InboxTraced'
        <5> DEFINE d == [from |-> n, packet |-> hold[n]]
        <5>1. d.packet \in Given(Peer(Peer(n)))
          BY <3>2, PeerFacts DEF OutboundSend, Traced, HoldTraced
        <5>2. CASE inbox' = inbox
          BY <2>a, <3>0, <5>2
        <5>3. CASE inbox' = [inbox EXCEPT ![Peer(n)] = Append(@, d)]
          <6>1. /\ inbox'[Peer(n)] = Append(inbox[Peer(n)], d)
                /\ inbox[Peer(n)] \in Seq(Datagram)
                /\ \A m \in Node \ {Peer(n)} : inbox'[m] = inbox[m]
            BY <5>3, PeerFacts DEF TypeOK
          <6>2. d \in Datagram
            BY <3>2 DEF OutboundSend, TypeOK, Datagram, Address, Midway
          <6>3. \A i \in 1..Len(inbox'[Peer(n)]) :
                   \/ i \in 1..Len(inbox[Peer(n)]) /\ inbox'[Peer(n)][i] = inbox[Peer(n)][i]
                   \/ inbox'[Peer(n)][i] = d
            BY <6>1, <6>2
          <6>4. \A i \in 1..Len(inbox'[Peer(n)]) :
                   inbox'[Peer(n)][i].from = Peer(Peer(n)) =>
                     inbox'[Peer(n)][i].packet \in Given(Peer(Peer(n)))
            BY <6>3, <5>1, PeerFacts DEF Traced, InboxTraced
          <6> QED BY <6>1, <6>4, <3>g DEF Traced, InboxTraced
        <5> QED BY <5>2, <5>3, <3>2 DEF OutboundSend
      <4> QED BY <2>a, <3>0, <3>2, <4>1, <4>2 DEF OutboundSend, Traced
    <3>3. CASE InboundReceive(n)
      <4>1. inbox[n] # <<>> /\ inbox[n] \in Seq(Datagram)
        BY <3>3 DEF InboundReceive, TypeOK
      <4>2. Head(inbox[n]).from = Peer(n) =>
              Head(inbox[n]).packet \in Given(Peer(n))
        BY <4>1 DEF Traced, InboxTraced
      <4>3. InboxTraced'
        <5>1. \A i \in 1..Len(Tail(inbox[n])) :
                 \E j \in 1..Len(inbox[n]) : Tail(inbox[n])[i] = inbox[n][j]
          BY <4>1
        <5>2. /\ inbox'[n] = Tail(inbox[n])
              /\ \A m \in Node \ {n} : inbox'[m] = inbox[m]
              /\ inbox' \in [Node -> Seq(Datagram)]
          BY <3>3, <4>1 DEF InboundReceive, TypeOK
        <5>3. \A i \in 1..Len(inbox'[n]) :
                 \E j \in 1..Len(inbox[n]) : inbox'[n][i] = inbox[n][j]
          BY <5>1, <5>2
        <5> QED BY <5>2, <5>3, <3>0, InboxRearranged DEF Traced
      <4>4. HoldTraced'
        <5>1. ASSUME Head(inbox[n]).from = Peer(n),
                     Class[Head(inbox[n]).packet] = "good",
                     hold' = [hold EXCEPT ![n] = Head(inbox[n]).packet],
                     pc' = [pc EXCEPT ![n] = "writing"]
              PROVE  HoldTraced'
          BY <5>1, <4>2, <3>g DEF Traced, HoldTraced, TypeOK
        <5>2. ASSUME NEW r, Return(n, "inbound", r) PROVE HoldTraced'
          BY <5>2, <3>0, ReturnTraced DEF Traced
        <5> QED BY <5>1, <5>2, <3>3 DEF InboundReceive
      <4> QED BY <2>a, <3>0, <3>3, <4>3, <4>4 DEF InboundReceive, Traced
    <3>4. CASE InboundWrite(n)
      <4>1. HoldTraced'
        BY <3>0, <3>4, ReturnTraced DEF InboundWrite, Traced
      <4>2. Integrity'
        <5>1. hold[n] \in Given(Peer(n)) /\ Class[hold[n]] = "good"
          BY <3>4 DEF InboundWrite, Traced, HoldTraced
        <5>2. /\ output'[n] = Append(output[n], hold[n])
              /\ output[n] \in Seq(Packets)
              /\ \A m \in Node \ {n} : output'[m] = output[m]
          BY <3>4 DEF InboundWrite, TypeOK
        <5>3. \A i \in 1..Len(output'[n]) :
                 \/ i \in 1..Len(output[n]) /\ output'[n][i] = output[n][i]
                 \/ output'[n][i] = hold[n]
          BY <5>2, <3>4 DEF InboundWrite, TypeOK, Midway
        <5> QED BY <5>1, <5>2, <5>3, <3>g DEF Integrity
      <4> QED BY <2>a, <3>0, <3>4, <4>1, <4>2 DEF InboundWrite, Traced
    <3>5. ASSUME NEW op \in {"outbound", "inbound"}, NEW r, Return(n, op, r),
                 UNCHANGED <<ingress, inbox, output>>
          PROVE  Traced' /\ Integrity'
      BY <2>a, <3>0, <3>5, ReturnTraced DEF Traced
    <3>6. CASE OutboundIdle(n) \/ OutboundSendFails(n)
      BY <3>5, <3>6 DEF OutboundIdle, OutboundSendFails
    <3>7. CASE InboundIdle(n) \/ InboundWriteFails(n)
      BY <3>5, <3>7 DEF InboundIdle, InboundWriteFails
    <3>8. CASE ReceiveFails(n)
      BY <3>5, <3>8 DEF ReceiveFails
    <3> QED BY <2>2, <3>1, <3>2, <3>3, <3>4, <3>6, <3>7, <3>8 DEF Process
  <2>3. ASSUME NEW n \in Node, Surroundings(n) PROVE Traced' /\ Integrity'
    <3>1. ASSUME NEW p \in Offers[n], Offer(n, p) PROVE Traced' /\ Integrity'
      <4>1. p \in Packets
        BY OffersAssumption
      <4>2. /\ \A m \in Node : Given(m) \subseteq Given(m)'
            /\ p \in Given(n)'
        BY <3>1, <4>1, GivenGrows
      <4>3. /\ ingress'[n] = Append(ingress[n], p)
            /\ ingress[n] \in Seq(Packets)
            /\ \A m \in Node \ {n} : ingress'[m] = ingress[m]
        BY <3>1 DEF Offer, TypeOK
      <4>4. \A i \in 1..Len(ingress'[n]) :
               \/ i \in 1..Len(ingress[n]) /\ ingress'[n][i] = ingress[n][i]
               \/ ingress'[n][i] = p
        BY <4>1, <4>3
      <4>5. IngressTraced'
        BY <4>2, <4>3, <4>4 DEF Traced, IngressTraced
      <4>6. \A m \in Node : Given(Peer(m)) \subseteq Given(Peer(m))'
        BY <4>2, PeerFacts
      <4>7. InboxTraced' /\ HoldTraced' /\ Integrity'
        BY <3>1, <4>2, <4>6
        DEF Offer, Traced, InboxTraced, HoldTraced, Integrity
      <4> QED BY <4>5, <4>7 DEF Traced
    <3>2. ASSUME offered' = offered,
                 UNCHANGED <<ingress, pc, hold, output>>, InboxTraced'
          PROVE  Traced' /\ Integrity'
      BY <2>a, <3>2 DEF Traced
    <3>3. ASSUME NEW p \in Replayed[n], Stranger(n, p) PROVE Traced' /\ Integrity'
      <4> DEFINE d == [from |-> "stranger", packet |-> p]
      <4>1. d \in Datagram /\ \A m \in Node : d.from # Peer(m)
        BY OffersAssumption DEF Datagram, Address, Peer, Node
      <4>2. /\ inbox'[n] = Append(inbox[n], d)
            /\ inbox[n] \in Seq(Datagram)
            /\ \A m \in Node \ {n} : inbox'[m] = inbox[m]
        BY <3>3 DEF Stranger, TypeOK
      <4>3. \A i \in 1..Len(inbox'[n]) :
               \/ i \in 1..Len(inbox[n]) /\ inbox'[n][i] = inbox[n][i]
               \/ inbox'[n][i] = d
        BY <4>1, <4>2
      <4>4. offered' = offered
        BY <3>3 DEF Stranger
      <4>5. \A m \in Node : Given(Peer(m))' = Given(Peer(m))
        BY <4>4, GivenStays, PeerFacts
      <4>6. InboxTraced'
        BY <4>1, <4>2, <4>3, <4>5 DEF Traced, InboxTraced
      <4> QED BY <3>2, <3>3, <4>4, <4>6 DEF Stranger
    <3>4. CASE Lose(n)
      <4>1. PICK i \in 1..Len(inbox[n]) :
               inbox' = [inbox EXCEPT ![n] = RemoveAt(inbox[n], i)]
        BY <3>4 DEF Lose
      <4>2. inbox' \in [Node -> Seq(Datagram)] /\ inbox[n] \in Seq(Datagram)
        BY <4>1, RemoveAtProperties DEF TypeOK
      <4>3. \A k \in 1..Len(inbox'[n]) :
               \E j \in 1..Len(inbox[n]) : inbox'[n][k] = inbox[n][j]
        BY <4>1, <4>2, RemoveAtElements
      <4>4. \A m \in Node \ {n} : inbox'[m] = inbox[m]
        BY <4>1, <4>2
      <4>5. InboxTraced'
        BY <3>4, <4>2, <4>3, <4>4, InboxRearranged DEF Lose, Traced
      <4> QED BY <3>2, <3>4, <4>5 DEF Lose
    <3>5. CASE Duplicate(n)
      <4>1. PICK i \in 1..Len(inbox[n]) :
               inbox' = [inbox EXCEPT ![n] = Append(inbox[n], inbox[n][i])]
        BY <3>5 DEF Duplicate
      <4>2. inbox' \in [Node -> Seq(Datagram)] /\ inbox[n] \in Seq(Datagram)
        BY <4>1 DEF TypeOK
      <4>3. \A k \in 1..Len(inbox'[n]) :
               \E j \in 1..Len(inbox[n]) : inbox'[n][k] = inbox[n][j]
        BY <4>1, <4>2
      <4>4. \A m \in Node \ {n} : inbox'[m] = inbox[m]
        BY <4>1, <4>2
      <4>5. InboxTraced'
        BY <3>5, <4>2, <4>3, <4>4, InboxRearranged DEF Duplicate, Traced
      <4> QED BY <3>2, <3>5, <4>5 DEF Duplicate
    <3>6. CASE Reorder(n)
      <4>1. PICK i \in 1..Len(inbox[n]) :
               inbox' = [inbox EXCEPT ![n] =
                           Append(RemoveAt(inbox[n], i), inbox[n][i])]
        BY <3>6 DEF Reorder
      <4>2. /\ inbox' \in [Node -> Seq(Datagram)]
            /\ inbox[n] \in Seq(Datagram)
            /\ RemoveAt(inbox[n], i) \in Seq(Datagram)
        BY <4>1, RemoveAtProperties DEF TypeOK
      <4>3. \A k \in 1..Len(RemoveAt(inbox[n], i)) :
               \E j \in 1..Len(inbox[n]) : RemoveAt(inbox[n], i)[k] = inbox[n][j]
        BY <4>2, RemoveAtElements
      <4>4. \A k \in 1..Len(inbox'[n]) :
               \E j \in 1..Len(inbox[n]) : inbox'[n][k] = inbox[n][j]
        BY <4>1, <4>2, <4>3
      <4>5. \A m \in Node \ {n} : inbox'[m] = inbox[m]
        BY <4>1, <4>2
      <4>6. InboxTraced'
        BY <3>6, <4>2, <4>4, <4>5, InboxRearranged DEF Reorder, Traced
      <4> QED BY <3>2, <3>6, <4>6 DEF Reorder
    <3>7. CASE Kill(n)
      <4>1. \A m \in Node : Given(m)' = Given(m) /\ Given(Peer(m))' = Given(Peer(m))
        BY <3>7, GivenStays, PeerFacts DEF Kill
      <4>2. HoldTraced'
        BY <3>7, <4>1 DEF Kill, Traced, HoldTraced, TypeOK
      <4> QED BY <2>a, <3>7, <4>2 DEF Kill, Traced
    <3>8. CASE Restart(n)
      <4>1. \A m \in Node : Given(m)' = Given(m) /\ Given(Peer(m))' = Given(Peer(m))
        BY <3>8, GivenStays, PeerFacts DEF Restart
      <4>2. HoldTraced'
        BY <3>8, <4>1 DEF Restart, FirstPc, Traced, HoldTraced, TypeOK
      <4>3. IngressTraced'
        BY <3>8, <4>1 DEF Restart, Traced, IngressTraced, TypeOK
      <4>4. PICK k \in 0..Len(inbox[n]) :
               inbox' = [inbox EXCEPT ![n] =
                           SubSeq(inbox[n], k + 1, Len(inbox[n]))]
        BY <3>8 DEF Restart
      <4>5. /\ inbox[n] \in Seq(Datagram)
            /\ inbox'[n] = SubSeq(inbox[n], k + 1, Len(inbox[n]))
            /\ \A m \in Node \ {n} : inbox'[m] = inbox[m]
            /\ inbox' \in [Node -> Seq(Datagram)]
        BY <4>4 DEF TypeOK
      <4>6. \A i \in 1..Len(inbox'[n]) :
               \E j \in 1..Len(inbox[n]) : inbox'[n][i] = inbox[n][j]
        BY <4>5, SuffixElements
      <4>7. InboxTraced'
        BY <3>8, <4>5, <4>6, InboxRearranged DEF Restart, Traced
      <4> QED BY <2>a, <3>8, <4>2, <4>3, <4>7 DEF Restart, Traced
    <3> QED BY <2>3, <3>1, <3>3, <3>4, <3>5, <3>6, <3>7, <3>8 DEF Surroundings
  <2> QED BY <2>1, <2>2, <2>3 DEF Next
<1> QED BY <1>1, <1>2, TypeCorrect, PTL DEF Spec

(* Whatever reaches the link socket, only packets the peer was given and   *)
(* every check lets through are written.                                   *)
THEOREM IntegrityHolds == Spec => []Integrity
  BY PacketsAreTraced, PTL

-----------------------------------------------------------------------------
(* The only step of a process that turns a "not now" of the operating      *)
(* system into a stop.                                                     *)
RefusedWrite(n) == pc[n] = "writing" /\ Mode[n] = "tun"

(* An operation whose result the loop takes for an idle read, or for a     *)
(* packet to drop, leaves the process running.                             *)
LEMMA ReturnContinues ==
  ASSUME TypeOK, NEW n \in Node, NEW op \in {"outbound", "inbound"}, NEW r,
         Return(n, op, r), Continues(n, op, r)
  PROVE  \A m \in Node : pc'[m] = "failed" => pc[m] = "failed"
  BY DEF TypeOK, Return

LEMMA HoldContinues ==
  ASSUME TypeOK, NEW n \in Node, NEW c \in Midway, pc' = [pc EXCEPT ![n] = c]
  PROVE  \A m \in Node : pc'[m] = "failed" => pc[m] = "failed"
  BY DEF TypeOK, Midway

(* A failed operation moves no other process.                              *)
LEMMA ReturnIsLocal ==
  ASSUME TypeOK, NEW n \in Node, NEW op \in {"outbound", "inbound"}, NEW r,
         Return(n, op, r)
  PROVE  \A m \in Node \ {n} : pc'[m] = pc[m]
  BY DEF TypeOK, Return

(* When the only failures are the transient ones and nobody kills a        *)
(* process, a process stops on an error in one case: a TUN device that     *)
(* refuses a write.                                                        *)
THEOREM TransientErrorsSurvived == Spec => TransientErrorsKeepRunning
<1> DEFINE Quiet == IoFaults \subseteq {"WouldBlock"} /\ "kill" \notin NetFaults
           Stops == \A n \in Node : pc'[n] = "failed" /\ pc[n] # "failed" =>
                       pc[n] = "writing" /\ Mode[n] = "tun"
<1>1. TypeOK /\ [Next]_vars => [Quiet => Stops]_pc
  <2> SUFFICES ASSUME TypeOK, Next, Quiet
               PROVE  \A m \in Node : \/ pc'[m] = "failed" => pc[m] = "failed"
                                     \/ RefusedWrite(m)
    BY DEF vars, RefusedWrite
  <2>1. ASSUME NEW n \in Node, Process(n)
        PROVE  \A m \in Node : \/ pc'[m] = "failed" => pc[m] = "failed"
                              \/ RefusedWrite(m)
    <3>1. \A op \in {"outbound", "inbound"} :
             /\ Continues(n, op, "Ok")
             /\ Continues(n, op, "Io.WouldBlock")
             /\ Continues(n, op, "InvalidIpv6")
             /\ Continues(n, op, "Runtime")
             /\ Continues(n, op, "UnexpectedLinkPeer")
      BY ModeAssumption
      DEF Continues, UdpTimeout, UdpRecoverable, TunTimeout, TunRecoverable
    <3>2. Continues(n, "outbound", BoundaryError(n, "WouldBlock"))
      BY ModeAssumption
      DEF Continues, UdpTimeout, TunTimeout, BoundaryError, LinkError, DeviceError
    <3>3. LinkError("WouldBlock") = "Io.WouldBlock"
      BY DEF LinkError
    <3>4. CASE OutboundReceive(n)
      BY <3>1, <3>4, ReturnContinues, HoldContinues DEF OutboundReceive, Midway
    <3>5. CASE OutboundIdle(n)
      BY <3>2, <3>5, ReturnContinues DEF OutboundIdle
    <3>6. CASE OutboundSend(n)
      BY <3>1, <3>6, ReturnContinues DEF OutboundSend
    <3>7. CASE OutboundSendFails(n)
      BY <3>1, <3>3, <3>7, ReturnContinues DEF OutboundSendFails
    <3>8. CASE InboundReceive(n)
      BY <3>1, <3>8, ReturnContinues, HoldContinues DEF InboundReceive, Midway
    <3>9. CASE InboundIdle(n)
      BY <3>1, <3>9, ReturnContinues DEF InboundIdle
    <3>10. CASE InboundWrite(n)
      BY <3>1, <3>10, ReturnContinues DEF InboundWrite
    <3>11. CASE InboundWriteFails(n)
      <4>1. pc[n] = "writing" /\ Return(n, "inbound", BoundaryError(n, "WouldBlock"))
        BY <3>11 DEF InboundWriteFails
      <4>2. CASE Mode[n] = "tun"
        BY <4>1, <4>2, ReturnIsLocal DEF RefusedWrite
      <4>3. CASE Mode[n] = "udp"
        <5>1. BoundaryError(n, "WouldBlock") = "Io.WouldBlock"
          BY <4>3 DEF BoundaryError, LinkError
        <5> QED BY <3>1, <4>1, <5>1, ReturnContinues
      <4> QED BY <4>2, <4>3, ModeAssumption
    <3>12. ~ReceiveFails(n)
      BY DEF ReceiveFails
    <3> QED BY <2>1, <3>4, <3>5, <3>6, <3>7, <3>8, <3>9, <3>10, <3>11, <3>12
            DEF Process
  <2>2. ASSUME NEW n \in Node, Surroundings(n)
        PROVE  \A m \in Node : pc'[m] = "failed" => pc[m] = "failed"
    <3>1. CASE UNCHANGED pc
      BY <3>1
    <3>2. CASE Restart(n)
      BY <3>2 DEF Restart, FirstPc, TypeOK
    <3>3. ~Kill(n)
      BY DEF Kill, Fault
    <3> QED BY <2>2, <3>1, <3>2, <3>3
            DEF Surroundings, Offer, Stranger, Lose, Duplicate, Reorder
  <2> QED BY <2>1, <2>2 DEF Next
<1> QED BY <1>1, TypeCorrect, PTL DEF Spec, TransientErrorsKeepRunning

-----------------------------------------------------------------------------
(* Order.  On its way to a node a packet stands in a line of five places;  *)
(* every step moves packets towards the front of the line or out of it,    *)
(* and none past another, as long as the link neither duplicates nor       *)
(* reorders.                                                               *)

(* Packet p stands at index i of place c on its way to n: written (1),     *)
(* decoded (2), in flight (3), compressed (4) or queued at the peer (5).   *)
At(n, c, i, p) ==
  \/ c = 1 /\ i \in 1..Len(output[n]) /\ output[n][i] = p
  \/ c = 2 /\ i = 1 /\ pc[n] = "writing" /\ hold[n] = p
  \/ /\ c = 3 /\ i \in 1..Len(inbox[n])
     /\ inbox[n][i].from = Peer(n) /\ inbox[n][i].packet = p
  \/ c = 4 /\ i = 1 /\ pc[Peer(n)] = "sending" /\ hold[Peer(n)] = p
  \/ c = 5 /\ i \in 1..Len(ingress[Peer(n)]) /\ ingress[Peer(n)][i] = p

(* Index i of place c is nearer to the receiver than index j of place d.   *)
Ahead(c, i, d, j) == c < d \/ (c = d /\ i < j)

(* p was offered to n before q.                                            *)
Before(n, p, q) ==
  \E k, m \in 1..Len(offered[n]) :
     k < m /\ offered[n][k] = p /\ offered[n][m] = q

(* The line of packets on their way to n is in the order of offering.      *)
OrderedTo(n) ==
  \A c, d \in 1..5 : \A i, j \in Nat : \A p, q \in Packets :
     At(n, c, i, p) /\ At(n, d, j, q) /\ Ahead(c, i, d, j)
       => Before(Peer(n), p, q)

Ordered == \A n \in Node : OrderedTo(n)

LEMMA SameOffers ==
  ASSUME NEW n, offered'[n] = offered[n], NEW p, NEW q
  PROVE  Before(n, p, q)' <=> Before(n, p, q)
  BY DEF Before

-----------------------------------------------------------------------------
(* The ways a step moves the line.                                         *)

(* Packets leave it.                                                       *)
LEMMA Thinned ==
  ASSUME NEW n \in Node, OrderedTo(n), offered'[Peer(n)] = offered[Peer(n)],
         \A c \in 1..5 : \A i \in Nat : \A p \in Packets :
            At(n, c, i, p)' => At(n, c, i, p)
  PROVE  OrderedTo(n)'
  BY SameOffers DEF OrderedTo

(* The first packet of a place goes to the place before it, or leaves.     *)
LEMMA Taken ==
  ASSUME NEW n \in Node, OrderedTo(n), offered'[Peer(n)] = offered[Peer(n)],
         NEW t \in {3, 5},
         \A c \in 1..5 : \A i \in Nat : \A p \in Packets :
            At(n, c, i, p)' =>
              IF c = t THEN At(n, t, i + 1, p)
              ELSE IF c = t - 1 THEN i = 1 /\ At(n, t, 1, p)
              ELSE At(n, c, i, p)
  PROVE  OrderedTo(n)'
<1> DEFINE Place(c) == IF c = t - 1 THEN t ELSE c
           Index(c, i) == IF c = t THEN i + 1 ELSE i
<1> SUFFICES ASSUME NEW c \in 1..5, NEW d \in 1..5, NEW i \in Nat, NEW j \in Nat,
                    NEW p \in Packets, NEW q \in Packets,
                    At(n, c, i, p)', At(n, d, j, q)', Ahead(c, i, d, j)
             PROVE  Before(Peer(n), p, q)
  BY SameOffers DEF OrderedTo, Ahead
<1>1. At(n, Place(c), Index(c, i), p) /\ At(n, Place(d), Index(d, j), q)
  OBVIOUS
<1>2. /\ Place(c) \in 1..5 /\ Place(d) \in 1..5
      /\ Index(c, i) \in Nat /\ Index(d, j) \in Nat
  OBVIOUS
<1>3. (c = t - 1 => i = 1) /\ (d = t - 1 => j = 1) /\ (d = t => j >= 1)
  BY DEF At
<1>4. Ahead(Place(c), Index(c, i), Place(d), Index(d, j))
  <2>1. CASE c = t - 1 /\ d = t
    BY <1>3, <2>1 DEF Ahead
  <2>2. CASE c = d
    BY <1>3, <2>2 DEF Ahead
  <2>3. CASE c < d /\ ~(c = t - 1 /\ d = t)
    <3>1. Place(c) < Place(d)
      BY <2>3
    <3> QED BY <3>1 DEF Ahead
  <2> QED BY <2>1, <2>2, <2>3 DEF Ahead
<1> HIDE DEF Place, Index
<1> QED BY <1>1, <1>2, <1>4 DEF OrderedTo

(* The packet of a place goes behind the last of the place before it.      *)
LEMMA Passed ==
  ASSUME NEW n \in Node, OrderedTo(n), offered'[Peer(n)] = offered[Peer(n)],
         NEW t \in {1, 3}, NEW last \in Nat,
         \A c \in 1..5 : \A i \in Nat : \A p \in Packets :
            At(n, c, i, p)' =>
              IF c = t THEN \/ i <= last /\ At(n, t, i, p)
                            \/ i = last + 1 /\ At(n, t + 1, 1, p)
              ELSE c # t + 1 /\ At(n, c, i, p)
  PROVE  OrderedTo(n)'
<1> DEFINE New(c, i) == c = t /\ i = last + 1
           Place(c, i) == IF New(c, i) THEN t + 1 ELSE c
           Index(c, i) == IF New(c, i) THEN 1 ELSE i
<1> SUFFICES ASSUME NEW c \in 1..5, NEW d \in 1..5, NEW i \in Nat, NEW j \in Nat,
                    NEW p \in Packets, NEW q \in Packets,
                    At(n, c, i, p)', At(n, d, j, q)', Ahead(c, i, d, j)
             PROVE  Before(Peer(n), p, q)
  BY SameOffers DEF OrderedTo, Ahead
<1>1. /\ At(n, Place(c, i), Index(c, i), p)
      /\ At(n, Place(d, j), Index(d, j), q)
  OBVIOUS
<1>2. /\ Place(c, i) \in 1..5 /\ Place(d, j) \in 1..5
      /\ Index(c, i) \in Nat /\ Index(d, j) \in Nat
  OBVIOUS
<1>3. /\ c # t + 1 /\ (c = t => i <= last + 1)
      /\ d # t + 1 /\ (d = t => j <= last + 1)
  OBVIOUS
<1>4. Ahead(Place(c, i), Index(c, i), Place(d, j), Index(d, j))
  BY <1>3 DEF Ahead
<1> HIDE DEF Place, Index
<1> QED BY <1>1, <1>2, <1>4 DEF OrderedTo

(* Some of the frames in flight disappear, the others close up.            *)
LEMMA ClosedUp ==
  ASSUME NEW n \in Node, OrderedTo(n), offered'[Peer(n)] = offered[Peer(n)],
         NEW f \in [Nat -> Nat], \A i, j \in Nat : i < j => f[i] < f[j],
         \A c \in 1..5 : \A i \in Nat : \A p \in Packets :
            At(n, c, i, p)' =>
              IF c = 3 THEN At(n, 3, f[i], p) ELSE At(n, c, i, p)
  PROVE  OrderedTo(n)'
<1> DEFINE Index(c, i) == IF c = 3 THEN f[i] ELSE i
<1> SUFFICES ASSUME NEW c \in 1..5, NEW d \in 1..5, NEW i \in Nat, NEW j \in Nat,
                    NEW p \in Packets, NEW q \in Packets,
                    At(n, c, i, p)', At(n, d, j, q)', Ahead(c, i, d, j)
             PROVE  Before(Peer(n), p, q)
  BY SameOffers DEF OrderedTo, Ahead
<1>1. At(n, c, Index(c, i), p) /\ At(n, d, Index(d, j), q)
  OBVIOUS
<1>2. Index(c, i) \in Nat /\ Index(d, j) \in Nat
  OBVIOUS
<1>3. Ahead(c, Index(c, i), d, Index(d, j))
  BY DEF Ahead
<1> HIDE DEF Index
<1> QED BY <1>1, <1>2, <1>3 DEF OrderedTo

(* Every packet in the line was offered.                                   *)
LEMMA InLineGiven ==
  ASSUME Traced, Integrity, NEW n \in Node, NEW c, NEW i, NEW p, At(n, c, i, p)
  PROVE  p \in Given(Peer(n))
<1>1. CASE c = 1 /\ i \in 1..Len(output[n]) /\ output[n][i] = p
  BY <1>1 DEF Integrity
<1>2. CASE c = 2 /\ i = 1 /\ pc[n] = "writing" /\ hold[n] = p
  BY <1>2 DEF Traced, HoldTraced
<1>3. CASE /\ c = 3 /\ i \in 1..Len(inbox[n])
           /\ inbox[n][i].from = Peer(n) /\ inbox[n][i].packet = p
  BY <1>3 DEF Traced, InboxTraced
<1>4. CASE c = 4 /\ i = 1 /\ pc[Peer(n)] = "sending" /\ hold[Peer(n)] = p
  BY <1>4, PeerFacts DEF Traced, HoldTraced
<1>5. CASE c = 5 /\ i \in 1..Len(ingress[Peer(n)]) /\ ingress[Peer(n)][i] = p
  BY <1>5, PeerFacts DEF Traced, IngressTraced
<1> QED BY <1>1, <1>2, <1>3, <1>4, <1>5 DEF At

(* A packet offered joins the line at its end.                             *)
LEMMA Joined ==
  ASSUME TypeOK, Traced, Integrity, NEW n \in Node, OrderedTo(n),
         NEW r \in Packets, offered'[Peer(n)] = Append(offered[Peer(n)], r),
         \A c \in 1..5 : \A i \in Nat : \A p \in Packets :
            At(n, c, i, p)' =>
              \/ At(n, c, i, p)
              \/ c = 5 /\ i = Len(ingress[Peer(n)]) + 1 /\ p = r
  PROVE  OrderedTo(n)'
<1> DEFINE a == Peer(n)
           last == Len(offered[a])
           end == Len(ingress[a])
<1>1. /\ last \in Nat /\ Len(offered'[a]) = last + 1 /\ end \in Nat
      /\ offered'[a][last + 1] = r
      /\ \A k \in 1..last : offered'[a][k] = offered[a][k]
  BY PeerFacts DEF TypeOK
<1>2. ASSUME NEW p, NEW q, Before(a, p, q) PROVE Before(a, p, q)'
  <2>1. PICK k \in 1..last, m \in 1..last :
           k < m /\ offered[a][k] = p /\ offered[a][m] = q
    BY <1>2 DEF Before
  <2>2. k \in 1..Len(offered'[a]) /\ m \in 1..Len(offered'[a])
    BY <1>1
  <2> QED BY <1>1, <2>1, <2>2 DEF Before
<1>3. ASSUME NEW c, NEW i, NEW p, At(n, c, i, p) PROVE Before(a, p, r)'
  <2>1. PICK k \in 1..last : offered[a][k] = p
    BY <1>3, InLineGiven DEF Given
  <2>2. k \in 1..Len(offered'[a]) /\ last + 1 \in 1..Len(offered'[a]) /\ k < last + 1
    BY <1>1
  <2> QED BY <1>1, <2>1, <2>2 DEF Before
<1>4. ASSUME NEW d \in 1..5, NEW j \in Nat, NEW q, At(n, d, j, q),
             Ahead(5, end + 1, d, j)
      PROVE  FALSE
  BY <1>1, <1>4 DEF Ahead, At
<1> SUFFICES ASSUME NEW c \in 1..5, NEW d \in 1..5, NEW i \in Nat, NEW j \in Nat,
                    NEW p \in Packets, NEW q \in Packets,
                    At(n, c, i, p)', At(n, d, j, q)', Ahead(c, i, d, j)
             PROVE  Before(a, p, q)'
  BY DEF OrderedTo, Ahead
<1>5. CASE At(n, c, i, p) /\ At(n, d, j, q)
  BY <1>2, <1>5 DEF OrderedTo
<1>6. CASE At(n, c, i, p) /\ d = 5 /\ j = end + 1 /\ q = r
  BY <1>3, <1>6
<1>7. CASE c = 5 /\ i = end + 1 /\ p = r /\ At(n, d, j, q)
  BY <1>4, <1>7
<1>8. CASE c = 5 /\ i = end + 1 /\ d = 5 /\ j = end + 1
  BY <1>1, <1>8 DEF Ahead
<1> QED BY <1>5, <1>6, <1>7, <1>8

-----------------------------------------------------------------------------
(* What each step does to the line of either direction.                    *)

(* The parts of the state the line to n is read from.                      *)
LEMMA Untouched ==
  ASSUME NEW n \in Node, OrderedTo(n), offered'[Peer(n)] = offered[Peer(n)],
         output'[n] = output[n], inbox'[n] = inbox[n],
         ingress'[Peer(n)] = ingress[Peer(n)],
         pc'[n] = "writing" => pc[n] = "writing" /\ hold'[n] = hold[n],
         pc'[Peer(n)] = "sending" =>
           pc[Peer(n)] = "sending" /\ hold'[Peer(n)] = hold[Peer(n)]
  PROVE  OrderedTo(n)'
<1>1. \A c \in 1..5 : \A i \in Nat : \A p \in Packets :
         At(n, c, i, p)' => At(n, c, i, p)
  BY DEF At
<1> QED BY <1>1, Thinned

(* The end of an operation, or its middle, seen from the other node.       *)
LEMMA ReturnHere ==
  ASSUME TypeOK, NEW n \in Node, NEW op \in {"outbound", "inbound"}, NEW r,
         Return(n, op, r)
  PROVE  /\ pc'[n] \notin Midway
         /\ pc'[Peer(n)] = pc[Peer(n)] /\ hold'[Peer(n)] = hold[Peer(n)]
  BY PeerFacts DEF TypeOK, Return, Midway

LEMMA HoldHere ==
  ASSUME TypeOK, NEW n \in Node, NEW c \in Midway, NEW p,
         pc' = [pc EXCEPT ![n] = c], hold' = [hold EXCEPT ![n] = p]
  PROVE  /\ pc'[n] = c /\ hold'[n] = p
         /\ pc'[Peer(n)] = pc[Peer(n)] /\ hold'[Peer(n)] = hold[Peer(n)]
  BY PeerFacts DEF TypeOK

LEMMA IdleOrdered ==
  ASSUME TypeOK, Ordered, NEW n \in Node, NEW op \in {"outbound", "inbound"},
         NEW r, Return(n, op, r), UNCHANGED <<offered, ingress, inbox, output>>
  PROVE  Ordered'
<1>1. /\ pc'[n] \notin Midway
      /\ pc'[Peer(n)] = pc[Peer(n)] /\ hold'[Peer(n)] = hold[Peer(n)]
  BY ReturnHere
<1>2. OrderedTo(n)'
  BY <1>1, Untouched DEF Ordered, Midway
<1>3. OrderedTo(Peer(n))'
  BY <1>1, PeerFacts, Untouched DEF Ordered, Midway
<1> QED BY <1>2, <1>3, PeerFacts DEF Ordered, Node, Peer

LEMMA OutboundReceiveOrdered ==
  ASSUME TypeOK, Ordered, NEW n \in Node, OutboundReceive(n)
  PROVE  Ordered'
<1> DEFINE a == Peer(n)
<1>0. a \in Node /\ a # n /\ Peer(a) = n
  BY PeerFacts
<1>1. /\ pc'[n] # "writing" /\ pc'[a] = pc[a] /\ hold'[a] = hold[a]
      /\ pc'[n] = "sending" => hold'[n] = Head(ingress[n])
  <2>1. CASE \E r : Return(n, "outbound", r)
    BY <2>1, ReturnHere DEF Midway
  <2>2. CASE \E p : /\ p = Head(ingress[n])
                    /\ pc' = [pc EXCEPT ![n] = "sending"]
                    /\ hold' = [hold EXCEPT ![n] = p]
    BY <2>2, HoldHere DEF Midway
  <2> QED BY <2>1, <2>2 DEF OutboundReceive
<1>2. /\ offered' = offered /\ inbox' = inbox /\ output' = output
      /\ ingress'[n] = Tail(ingress[n]) /\ ingress'[a] = ingress[a]
      /\ ingress[n] \in Seq(Packets) /\ ingress[n] # <<>>
  BY <1>0 DEF OutboundReceive, TypeOK
<1>3. OrderedTo(n)'
  BY <1>1, <1>2, Untouched DEF Ordered
<1>4. OrderedTo(a)'
  <2>1. /\ Len(Tail(ingress[n])) = Len(ingress[n]) - 1 /\ Len(ingress[n]) >= 1
        /\ \A i \in 1..(Len(ingress[n]) - 1) : Tail(ingress[n])[i] = ingress[n][i + 1]
        /\ Head(ingress[n]) = ingress[n][1] /\ Len(ingress[n]) \in Nat
    BY <1>2
  <2>2. \A c \in 1..5 : \A i \in Nat : \A p \in Packets :
           At(a, c, i, p)' =>
             IF c = 5 THEN At(a, 5, i + 1, p)
             ELSE IF c = 5 - 1 THEN i = 1 /\ At(a, 5, 1, p)
             ELSE At(a, c, i, p)
    BY <1>0, <1>1, <1>2, <2>1 DEF At
  <2> QED BY <1>0, <1>2, <2>2, Taken DEF Ordered
<1> QED BY <1>0, <1>3, <1>4 DEF Ordered, Node

LEMMA OutboundSendOrdered ==
  ASSUME TypeOK, Ordered, NEW n \in Node, OutboundSend(n)
  PROVE  Ordered'
<1> DEFINE a == Peer(n)
           d == [from |-> n, packet |-> hold[n]]
<1>0. a \in Node /\ a # n /\ Peer(a) = n
  BY PeerFacts
<1>1. /\ pc'[n] \notin Midway /\ pc'[a] = pc[a] /\ hold'[a] = hold[a]
      /\ pc[n] = "sending"
  BY ReturnHere DEF OutboundSend
<1>2. /\ offered' = offered /\ ingress' = ingress /\ output' = output
      /\ inbox'[n] = inbox[n] /\ inbox[a] \in Seq(Datagram)
      /\ inbox'[a] = inbox[a] \/ inbox'[a] = Append(inbox[a], d)
  BY <1>0 DEF OutboundSend, TypeOK
<1>3. OrderedTo(n)'
  BY <1>1, <1>2, Untouched DEF Ordered, Midway
<1>4. OrderedTo(a)'
  <2>1. CASE inbox'[a] = inbox[a]
    BY <1>0, <1>1, <1>2, <2>1, Untouched DEF Ordered, Midway
  <2>2. CASE inbox'[a] = Append(inbox[a], d)
    <3> DEFINE last == Len(inbox[a])
    <3>1. /\ last \in Nat /\ Len(inbox'[a]) = last + 1
          /\ inbox'[a][last + 1] = d
          /\ \A i \in 1..last : inbox'[a][i] = inbox[a][i]
      BY <1>2, <2>2
    <3>2. \A c \in 1..5 : \A i \in Nat : \A p \in Packets :
             At(a, c, i, p)' =>
               IF c = 3 THEN \/ i <= last /\ At(a, 3, i, p)
                             \/ i = last + 1 /\ At(a, 3 + 1, 1, p)
               ELSE c # 3 + 1 /\ At(a, c, i, p)
      BY <1>0, <1>1, <1>2, <3>1 DEF At, Midway
    <3> QED BY <1>0, <1>2, <3>1, <3>2, Passed DEF Ordered
  <2> QED BY <1>2, <2>1, <2>2
<1> QED BY <1>0, <1>3, <1>4 DEF Ordered, Node

LEMMA InboundReceiveOrdered ==
  ASSUME TypeOK, Ordered, NEW n \in Node, InboundReceive(n)
  PROVE  Ordered'
<1> DEFINE a == Peer(n)
           d == Head(inbox[n])
<1>0. a \in Node /\ a # n /\ Peer(a) = n
  BY PeerFacts
<1>1. /\ pc'[n] # "sending" /\ pc'[a] = pc[a] /\ hold'[a] = hold[a]
      /\ pc'[n] = "writing" => hold'[n] = d.packet /\ d.from = a
  <2>1. CASE \E r : Return(n, "inbound", r)
    BY <2>1, ReturnHere DEF Midway
  <2>2. CASE \E p : /\ p = d.packet /\ d.from = a
                    /\ pc' = [pc EXCEPT ![n] = "writing"]
                    /\ hold' = [hold EXCEPT ![n] = p]
    BY <2>2, HoldHere DEF Midway
  <2> QED BY <2>1, <2>2 DEF InboundReceive
<1>2. /\ offered' = offered /\ ingress' = ingress /\ output' = output
      /\ inbox'[n] = Tail(inbox[n]) /\ inbox'[a] = inbox[a]
      /\ inbox[n] \in Seq(Datagram) /\ inbox[n] # <<>>
  BY <1>0 DEF InboundReceive, TypeOK
<1>3. OrderedTo(a)'
  BY <1>0, <1>1, <1>2, Untouched DEF Ordered
<1>4. OrderedTo(n)'
  <2>1. /\ Len(Tail(inbox[n])) = Len(inbox[n]) - 1 /\ Len(inbox[n]) >= 1
        /\ \A i \in 1..(Len(inbox[n]) - 1) : Tail(inbox[n])[i] = inbox[n][i + 1]
        /\ d = inbox[n][1] /\ Len(inbox[n]) \in Nat
    BY <1>2
  <2> HIDE DEF d
  <2>2. \A c \in 1..5 : \A i \in Nat : \A p \in Packets :
           At(n, c, i, p)' =>
             IF c = 3 THEN At(n, 3, i + 1, p)
             ELSE IF c = 3 - 1 THEN i = 1 /\ At(n, 3, 1, p)
             ELSE At(n, c, i, p)
    BY <1>0, <1>1, <1>2, <2>1 DEF At
  <2> QED BY <1>0, <1>2, <2>2, Taken DEF Ordered
<1> QED BY <1>0, <1>3, <1>4 DEF Ordered, Node

LEMMA InboundWriteOrdered ==
  ASSUME TypeOK, Ordered, NEW n \in Node, InboundWrite(n)
  PROVE  Ordered'
<1> DEFINE a == Peer(n)
           last == Len(output[n])
<1>0. a \in Node /\ a # n /\ Peer(a) = n
  BY PeerFacts
<1>1. /\ pc'[n] \notin Midway /\ pc'[a] = pc[a] /\ hold'[a] = hold[a]
      /\ pc[n] = "writing" /\ hold[n] \in Packets
  BY ReturnHere DEF InboundWrite, TypeOK, Midway
<1>2. /\ offered' = offered /\ ingress' = ingress /\ inbox' = inbox
      /\ output'[n] = Append(output[n], hold[n]) /\ output'[a] = output[a]
      /\ output[n] \in Seq(Packets)
  BY <1>0 DEF InboundWrite, TypeOK
<1>3. OrderedTo(a)'
  BY <1>0, <1>1, <1>2, Untouched DEF Ordered, Midway
<1>4. OrderedTo(n)'
  <2>1. /\ last \in Nat /\ Len(output'[n]) = last + 1
        /\ output'[n][last + 1] = hold[n]
        /\ \A i \in 1..last : output'[n][i] = output[n][i]
    BY <1>1, <1>2
  <2>2. \A c \in 1..5 : \A i \in Nat : \A p \in Packets :
           At(n, c, i, p)' =>
             IF c = 1 THEN \/ i <= last /\ At(n, 1, i, p)
                           \/ i = last + 1 /\ At(n, 1 + 1, 1, p)
             ELSE c # 1 + 1 /\ At(n, c, i, p)
    BY <1>0, <1>1, <1>2, <2>1 DEF At, Midway
  <2> QED BY <1>0, <1>2, <2>1, <2>2, Passed DEF Ordered
<1> QED BY <1>0, <1>3, <1>4 DEF Ordered, Node

LEMMA ProcessOrdered ==
  ASSUME TypeOK, Ordered, NEW n \in Node, Process(n)
  PROVE  Ordered'
<1>1. CASE OutboundReceive(n)
  BY <1>1, OutboundReceiveOrdered
<1>2. CASE OutboundSend(n)
  BY <1>2, OutboundSendOrdered
<1>3. CASE InboundReceive(n)
  BY <1>3, InboundReceiveOrdered
<1>4. CASE InboundWrite(n)
  BY <1>4, InboundWriteOrdered
<1>5. CASE OutboundIdle(n) \/ OutboundSendFails(n)
  BY <1>5, IdleOrdered DEF OutboundIdle, OutboundSendFails
<1>6. CASE InboundIdle(n) \/ InboundWriteFails(n)
  BY <1>6, IdleOrdered DEF InboundIdle, InboundWriteFails
<1>7. CASE ReceiveFails(n)
  BY <1>7, IdleOrdered DEF ReceiveFails
<1> QED BY <1>1, <1>2, <1>3, <1>4, <1>5, <1>6, <1>7 DEF Process

LEMMA OfferOrdered ==
  ASSUME TypeOK, Traced, Integrity, Ordered, NEW n \in Node, NEW r \in Packets,
         Offer(n, r)
  PROVE  Ordered'
<1> DEFINE a == Peer(n)
           end == Len(ingress[n])
<1>0. a \in Node /\ a # n /\ Peer(a) = n
  BY PeerFacts
<1>1. /\ pc' = pc /\ hold' = hold /\ output' = output /\ inbox' = inbox
      /\ offered'[n] = Append(offered[n], r) /\ offered'[a] = offered[a]
      /\ ingress'[n] = Append(ingress[n], r) /\ ingress'[a] = ingress[a]
      /\ ingress[n] \in Seq(Packets)
  BY <1>0 DEF Offer, TypeOK
<1>2. OrderedTo(n)'
  BY <1>1, Untouched DEF Ordered
<1>3. OrderedTo(a)'
  <2>1. /\ end \in Nat /\ Len(ingress'[n]) = end + 1 /\ ingress'[n][end + 1] = r
        /\ \A i \in 1..end : ingress'[n][i] = ingress[n][i]
    BY <1>1
  <2>2. \A c \in 1..5 : \A i \in Nat : \A p \in Packets :
           At(a, c, i, p)' => \/ At(a, c, i, p)
                              \/ c = 5 /\ i = end + 1 /\ p = r
    BY <1>0, <1>1, <2>1 DEF At
  <2> QED BY <1>0, <1>1, <2>2, Joined DEF Ordered
<1> QED BY <1>0, <1>2, <1>3 DEF Ordered, Node

(* What happens on the link to n alone.                                    *)
LEMMA OnlyLink ==
  ASSUME TypeOK, Ordered, NEW n \in Node, NEW s,
         inbox' = [inbox EXCEPT ![n] = s], OrderedTo(n)',
         UNCHANGED <<offered, ingress, pc, hold, output>>
  PROVE  Ordered'
<1>1. Peer(n) \in Node /\ Peer(n) # n
  BY PeerFacts
<1>2. inbox'[Peer(n)] = inbox[Peer(n)]
  BY <1>1 DEF TypeOK
<1>3. OrderedTo(Peer(n))'
  BY <1>1, <1>2, Untouched DEF Ordered
<1> QED BY <1>1, <1>3 DEF Ordered, Node

LEMMA StrangerOrdered ==
  ASSUME TypeOK, Ordered, NEW n \in Node, NEW r \in Packets, Stranger(n, r)
  PROVE  Ordered'
<1> DEFINE d == [from |-> "stranger", packet |-> r]
           last == Len(inbox[n])
<1>1. /\ inbox' = [inbox EXCEPT ![n] = Append(inbox[n], d)]
      /\ inbox'[n] = Append(inbox[n], d) /\ inbox[n] \in Seq(Datagram)
  BY DEF Stranger, TypeOK
<1>2. /\ last \in Nat /\ Len(inbox'[n]) = last + 1 /\ inbox'[n][last + 1] = d
      /\ \A i \in 1..last : inbox'[n][i] = inbox[n][i]
  BY <1>1
<1>3. d.from # Peer(n)
  BY DEF Peer
<1>4. \A c \in 1..5 : \A i \in Nat : \A p \in Packets :
         At(n, c, i, p)' => At(n, c, i, p)
  BY <1>2, <1>3 DEF At, Stranger
<1>5. OrderedTo(n)'
  BY <1>4, Thinned DEF Ordered, Stranger
<1> QED BY <1>1, <1>5, OnlyLink DEF Stranger

LEMMA LoseOrdered ==
  ASSUME TypeOK, Ordered, NEW n \in Node, Lose(n)
  PROVE  Ordered'
<1>1. PICK l \in 1..Len(inbox[n]) :
         inbox' = [inbox EXCEPT ![n] = RemoveAt(inbox[n], l)]
  BY DEF Lose
<1> DEFINE s == RemoveAt(inbox[n], l)
           f == [i \in Nat |-> Skipping(l, i)]
<1>2. inbox[n] \in Seq(Datagram)
  BY DEF TypeOK
<1>3. /\ Len(s) = Len(inbox[n]) - 1
      /\ \A k \in 1..Len(s) : s[k] = inbox[n][Skipping(l, k)]
  BY <1>2, RemoveAtProperties
<1>4. inbox'[n] = s
  BY <1>1 DEF TypeOK
<1> HIDE DEF s
<1>5. Len(inbox[n]) \in Nat
  BY <1>2
<1>6. /\ f \in [Nat -> Nat]
      /\ \A i, j \in Nat : i < j => f[i] < f[j]
  BY DEF Skipping
<1>7. \A k \in 1..Len(s) : /\ f[k] \in 1..Len(inbox[n])
                           /\ inbox'[n][k] = inbox[n][f[k]]
  <2> SUFFICES ASSUME NEW k \in 1..Len(s)
               PROVE  f[k] \in 1..Len(inbox[n]) /\ s[k] = inbox[n][f[k]]
    BY <1>4
  <2>1. k \in Nat /\ k <= Len(inbox[n]) - 1 /\ k >= 1
    BY <1>3, <1>5
  <2>2. f[k] = Skipping(l, k)
    BY <2>1
  <2>3. Skipping(l, k) \in 1..Len(inbox[n])
    BY <1>5, <2>1 DEF Skipping
  <2> QED BY <1>3, <2>2, <2>3
<1> HIDE DEF f
<1>8. \A c \in 1..5 : \A i \in Nat : \A p \in Packets :
         At(n, c, i, p)' => IF c = 3 THEN At(n, 3, f[i], p) ELSE At(n, c, i, p)
  BY <1>4, <1>7 DEF At, Lose
<1>9. OrderedTo(n)'
  BY <1>6, <1>8, ClosedUp DEF Ordered, Lose
<1> QED BY <1>1, <1>9, OnlyLink DEF Lose

LEMMA KillOrdered ==
  ASSUME TypeOK, Ordered, NEW n \in Node, Kill(n)
  PROVE  Ordered'
<1>0. Peer(n) \in Node /\ Peer(n) # n /\ Peer(Peer(n)) = n
  BY PeerFacts
<1>1. /\ pc'[n] = "failed" /\ pc'[Peer(n)] = pc[Peer(n)]
      /\ hold'[Peer(n)] = hold[Peer(n)]
  BY <1>0 DEF Kill, TypeOK
<1>2. OrderedTo(n)'
  BY <1>1, Untouched DEF Kill, Ordered
<1>3. OrderedTo(Peer(n))'
  BY <1>0, <1>1, Untouched DEF Kill, Ordered
<1> QED BY <1>0, <1>2, <1>3 DEF Ordered, Node

LEMMA RestartOrdered ==
  ASSUME TypeOK, Ordered, NEW n \in Node, Restart(n)
  PROVE  Ordered'
<1> DEFINE a == Peer(n)
<1>0. a \in Node /\ a # n /\ Peer(a) = n
  BY PeerFacts
<1>1. PICK k \in 0..Len(inbox[n]) :
         inbox' = [inbox EXCEPT ![n] = SubSeq(inbox[n], k + 1, Len(inbox[n]))]
  BY DEF Restart
<1> DEFINE s == SubSeq(inbox[n], k + 1, Len(inbox[n]))
           f == [i \in Nat |-> i + k]
<1>2. /\ inbox[n] \in Seq(Datagram) /\ Len(inbox[n]) \in Nat /\ k \in Nat
      /\ inbox'[n] = s /\ inbox'[a] = inbox[a]
  BY <1>0, <1>1 DEF TypeOK
<1>3. /\ Len(s) = Len(inbox[n]) - k
      /\ \A i \in 1..Len(s) : s[i] = inbox[n][i + k]
  <2>1. \A j \in (k + 1)..Len(inbox[n]) : inbox[n][j] \in Datagram
    BY <1>2
  <2>2. Len(s) = Len(inbox[n]) - k
    BY <1>2
  <2>3. \A i \in 1..(Len(inbox[n]) - (k + 1) + 1) :
           s[i] = inbox[n][(k + 1) + i - 1]
    BY <1>2, <2>1, SubSeqProperties
  <2> QED BY <1>2, <2>2, <2>3
<1>4. /\ pc'[n] \notin Midway /\ pc'[a] = pc[a] /\ hold' = hold
      /\ ingress'[n] = <<>> /\ ingress'[a] = ingress[a]
      /\ output' = output /\ offered' = offered
  BY <1>0 DEF Restart, TypeOK, FirstPc, Midway
<1> HIDE DEF s
<1>5. f \in [Nat -> Nat] /\ \A i, j \in Nat : i < j => f[i] < f[j]
  BY <1>2
<1>6. \A i \in 1..Len(s) : /\ f[i] \in 1..Len(inbox[n])
                           /\ inbox'[n][i] = inbox[n][f[i]]
  <2> SUFFICES ASSUME NEW i \in 1..Len(s)
               PROVE  f[i] \in 1..Len(inbox[n]) /\ s[i] = inbox[n][f[i]]
    BY <1>2
  <2>1. i \in Nat /\ i <= Len(inbox[n]) - k /\ i >= 1
    BY <1>2, <1>3
  <2>2. f[i] = i + k
    BY <2>1
  <2>3. i + k \in 1..Len(inbox[n])
    BY <1>2, <2>1
  <2> QED BY <1>3, <2>2, <2>3
<1> HIDE DEF f
<1>7. OrderedTo(n)'
  <2>1. \A c \in 1..5 : \A i \in Nat : \A p \in Packets :
           At(n, c, i, p)' =>
             IF c = 3 THEN At(n, 3, f[i], p) ELSE At(n, c, i, p)
    BY <1>0, <1>2, <1>4, <1>6 DEF At, Midway
  <2> QED BY <1>4, <1>5, <2>1, ClosedUp DEF Ordered
<1>8. OrderedTo(a)'
  <2>1. \A c \in 1..5 : \A i \in Nat : \A p \in Packets :
           At(a, c, i, p)' => At(a, c, i, p)
    BY <1>0, <1>2, <1>4 DEF At, Midway
  <2> QED BY <1>0, <1>4, <2>1, Thinned DEF Ordered
<1> QED BY <1>0, <1>7, <1>8 DEF Ordered, Node

LEMMA SurroundingsOrdered ==
  ASSUME TypeOK, Traced, Integrity, Ordered, NEW n \in Node, Surroundings(n),
         {"duplicate", "reorder"} \cap NetFaults = {}
  PROVE  Ordered'
<1>1. "duplicate" \notin NetFaults /\ "reorder" \notin NetFaults
  OBVIOUS
<1>2. ~Duplicate(n) /\ ~Reorder(n)
  BY <1>1 DEF Duplicate, Reorder, Fault
<1>3. ASSUME NEW p \in Offers[n], Offer(n, p) PROVE Ordered'
  BY <1>3, OffersAssumption, OfferOrdered
<1>4. ASSUME NEW p \in Replayed[n], Stranger(n, p) PROVE Ordered'
  BY <1>4, OffersAssumption, StrangerOrdered
<1> QED BY <1>2, <1>3, <1>4, LoseOrdered, KillOrdered, RestartOrdered
        DEF Surroundings

-----------------------------------------------------------------------------
(* On a link that neither duplicates nor reorders, packets are written in  *)
(* the order they were offered, whatever is lost, refused, killed or       *)
(* restarted: the loops handle one packet at a time and a restart forgets  *)
(* packets but never brings one back.  The inductive invariant says it of  *)
(* the whole line, from the application's queue to the peer's output.      *)
THEOREM OrderIsKept == Spec => []InOrder
<1> DEFINE Steady == {"duplicate", "reorder"} \cap NetFaults = {}
           Inv == Steady => Ordered
<1>1. Init => Inv
  <2> SUFFICES ASSUME Init, NEW n \in Node, NEW c, NEW i, NEW p, At(n, c, i, p)
               PROVE  FALSE
    BY DEF Ordered, OrderedTo
  <2> QED BY PeerFacts DEF Init, FirstPc, At
<1>2. TypeOK /\ Traced /\ Integrity /\ Inv /\ [Next]_vars => Inv'
  <2> SUFFICES ASSUME TypeOK, Traced, Integrity, Ordered, Steady, [Next]_vars
               PROVE  Ordered'
    OBVIOUS
  <2>1. CASE UNCHANGED vars
    <3>1. \A n \in Node : OrderedTo(n)'
      BY <2>1, Untouched DEF vars, Ordered
    <3> QED BY <3>1 DEF Ordered
  <2>2. ASSUME NEW n \in Node, Process(n) \/ Surroundings(n) PROVE Ordered'
    BY <2>2, ProcessOrdered, SurroundingsOrdered
  <2> QED BY <2>1, <2>2 DEF Next
<1>3. TypeOK /\ Inv => InOrder
  <2> SUFFICES ASSUME TypeOK, Ordered, NEW n \in Node,
                      NEW i \in 1..Len(output[n]), NEW j \in 1..Len(output[n]),
                      i < j
               PROVE  Before(Peer(n), output[n][i], output[n][j])
    BY DEF InOrder, Before
  <2>1. /\ output[n][i] \in Packets /\ output[n][j] \in Packets
        /\ i \in Nat /\ j \in Nat
    BY DEF TypeOK
  <2>2. /\ At(n, 1, i, output[n][i]) /\ At(n, 1, j, output[n][j])
        /\ Ahead(1, i, 1, j) /\ 1 \in 1..5
    BY DEF At, Ahead
  <2> QED BY <2>1, <2>2 DEF Ordered, OrderedTo
<1> QED BY <1>1, <1>2, <1>3, TypeCorrect, PacketsAreTraced, PTL DEF Spec
=============================================================================
