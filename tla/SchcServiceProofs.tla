-------------------------- MODULE SchcServiceProofs --------------------------
(***************************************************************************)
(* The two nodes and the link implement the unreliable packet service, for *)
(* every set of packets, every classification, mode, limit, queue capacity *)
(* and fault bound.  A packet on its way to a node is in one of four       *)
(* places, and each step of the system is described by what it does to the *)
(* number of copies in each.                                               *)
(***************************************************************************)
EXTENDS SchcLinkProofs

(* The indices of s that hold an element of T, and their number.           *)
Places(s, T) == {i \in 1..Len(s) : s[i] \in T}
Count(s, T) == Cardinality(Places(s, T))

(* A count is a natural number.                                            *)
LEMMA CountType ==
  ASSUME NEW S, NEW s \in Seq(S), NEW T
  PROVE  IsFiniteSet(Places(s, T)) /\ Count(s, T) \in Nat
<1>1. IsFiniteSet(1..Len(s))
  BY FS_Interval
<1>2. Places(s, T) \in SUBSET (1..Len(s))
  BY DEF Places
<1>3. IsFiniteSet(Places(s, T))
  BY <1>1, <1>2, FS_Subset
<1> QED BY <1>3, FS_CardinalityType DEF Count

(* It is positive exactly when some index holds an element of the set.     *)
LEMMA CountPositive ==
  ASSUME NEW S, NEW s \in Seq(S), NEW T
  PROVE  Count(s, T) > 0 <=> \E i \in 1..Len(s) : s[i] \in T
<1>1. IsFiniteSet(Places(s, T)) /\ Count(s, T) \in Nat
  BY CountType
<1>2. Count(s, T) = 0 <=> Places(s, T) = {}
  BY <1>1, FS_EmptySet DEF Count
<1> QED BY <1>1, <1>2 DEF Places

LEMMA CountEmpty ==
  ASSUME NEW T
  PROVE  Count(<<>>, T) = 0
<1>1. Places(<<>>, T) = {}
  BY DEF Places
<1> QED BY <1>1, FS_EmptySet DEF Count

LEMMA CountAppend ==
  ASSUME NEW S, NEW s \in Seq(S), NEW e \in S, NEW T
  PROVE  Count(Append(s, e), T) = Count(s, T) + (IF e \in T THEN 1 ELSE 0)
<1>1. IsFiniteSet(Places(s, T)) /\ Count(s, T) \in Nat
  BY CountType
<1>2. /\ Len(Append(s, e)) = Len(s) + 1
      /\ \A i \in 1..Len(s) : Append(s, e)[i] = s[i]
      /\ Append(s, e)[Len(s) + 1] = e
  BY AppendProperties
<1>3. CASE e \in T
  <2>1. Places(Append(s, e), T) = Places(s, T) \cup {Len(s) + 1}
    BY <1>2, <1>3 DEF Places
  <2>2. Len(s) + 1 \notin Places(s, T)
    BY DEF Places
  <2> QED BY <1>1, <1>3, <2>1, <2>2, FS_AddElement DEF Count
<1>4. CASE e \notin T
  <2>1. Places(Append(s, e), T) = Places(s, T)
    BY <1>2, <1>4 DEF Places
  <2> QED BY <1>1, <1>4, <2>1 DEF Count
<1> QED BY <1>3, <1>4

(* A sequence that has every element of s but the one at index i.          *)
LEMMA CountWithout ==
  ASSUME NEW S, NEW s \in Seq(S), NEW i \in 1..Len(s), NEW T,
         NEW t \in Seq(S), Len(t) = Len(s) - 1,
         \A k \in 1..Len(t) : t[k] = s[Skipping(i, k)]
  PROVE  Count(s, T) = Count(t, T) + (IF s[i] \in T THEN 1 ELSE 0)
<1> DEFINE f == [k \in Places(t, T) |-> Skipping(i, k)]
           Rest == Places(s, T) \ {i}
<1>1. /\ IsFiniteSet(Places(s, T)) /\ Count(s, T) \in Nat
      /\ IsFiniteSet(Places(t, T)) /\ Count(t, T) \in Nat
  BY CountType
<1>2. f \in [Places(t, T) -> Rest]
  BY DEF Places, Skipping
<1>3. IsInjective(f)
  BY DEF IsInjective, Skipping, Places
<1>4. ASSUME NEW j \in Rest PROVE \E k \in Places(t, T) : f[k] = j
  <2>1. CASE j < i
    <3>1. Skipping(i, j) = j /\ j \in 1..Len(t) /\ s[j] \in T
      BY <2>1 DEF Places, Skipping
    <3>2. j \in Places(t, T)
      BY <3>1 DEF Places
    <3> QED BY <3>1, <3>2
  <2>2. CASE j > i
    <3>1. j - 1 \in 1..Len(t) /\ Skipping(i, j - 1) = j
      BY <2>2 DEF Places, Skipping
    <3>2. t[j - 1] = s[j]
      BY <3>1
    <3>3. j - 1 \in Places(t, T)
      BY <3>1, <3>2 DEF Places
    <3> QED BY <3>1, <3>3
  <2>3. j < i \/ j > i
    BY DEF Places
  <2> QED BY <2>1, <2>2, <2>3, Zenon
<1>5. ExistsBijection(Places(t, T), Rest)
  <2>1. f \in Bijection(Places(t, T), Rest)
    BY <1>2, <1>3, <1>4 DEF Bijection, Injection, Surjection
  <2> QED BY <2>1 DEF ExistsBijection
<1>6. Cardinality(Rest) = Count(t, T)
  BY <1>1, <1>5, FS_Bijection DEF Count
<1>7. Cardinality(Rest) = IF i \in Places(s, T) THEN Count(s, T) - 1
                          ELSE Count(s, T)
  BY <1>1, FS_RemoveElement DEF Count
<1>8. i \in Places(s, T) <=> s[i] \in T
  BY DEF Places
<1> QED BY <1>1, <1>6, <1>7, <1>8

LEMMA CountTail ==
  ASSUME NEW S, NEW s \in Seq(S), s # <<>>, NEW T
  PROVE  Count(s, T) = Count(Tail(s), T) + (IF Head(s) \in T THEN 1 ELSE 0)
<1> DEFINE t == Tail(s)
<1>1. /\ t \in Seq(S) /\ Len(t) = Len(s) - 1
      /\ 1 \in 1..Len(s) /\ Head(s) = s[1]
      /\ \A k \in 1..Len(t) : t[k] = s[Skipping(1, k)]
  BY HeadTailProperties DEF Skipping
<1> HIDE DEF t
<1>2. Count(s, T) = Count(t, T) + (IF s[1] \in T THEN 1 ELSE 0)
  BY <1>1, CountWithout
<1> QED BY <1>1, <1>2 DEF t

LEMMA CountRemoveAt ==
  ASSUME NEW S, NEW s \in Seq(S), NEW i \in 1..Len(s), NEW T
  PROVE  Count(s, T) = Count(RemoveAt(s, i), T)
                       + (IF s[i] \in T THEN 1 ELSE 0)
  BY RemoveAtProperties, CountWithout

(* A suffix has no more of any kind.                                       *)
LEMMA CountSuffix ==
  ASSUME NEW S, NEW s \in Seq(S), NEW k \in 0..Len(s), NEW T
  PROVE  Count(SubSeq(s, k + 1, Len(s)), T) <= Count(s, T)
<1> DEFINE t == SubSeq(s, k + 1, Len(s))
           f == [i \in Places(t, T) |-> i + k]
<1>1. /\ t \in Seq(S) /\ Len(t) = Len(s) - k
      /\ \A i \in 1..Len(t) : t[i] = s[i + k]
  <2>1. \A i \in (k + 1)..Len(s) : s[i] \in S
    OBVIOUS
  <2>2. /\ t \in Seq(S)
        /\ Len(t) = IF k + 1 <= Len(s) THEN Len(s) - (k + 1) + 1 ELSE 0
        /\ \A i \in 1..(Len(s) - (k + 1) + 1) : t[i] = s[(k + 1) + i - 1]
    BY <2>1, SubSeqProperties
  <2> QED BY <2>2
<1> HIDE DEF t
<1>2. f \in [Places(t, T) -> Places(s, T)]
  BY <1>1 DEF Places
<1>3. IsInjective(f)
  BY <1>1 DEF IsInjective, Places
<1>4. f \in Injection(Places(t, T), Places(s, T))
  BY <1>2, <1>3 DEF Injection
<1>5. IsFiniteSet(Places(s, T))
  BY CountType
<1>6. Cardinality(Places(t, T)) <= Cardinality(Places(s, T))
  BY <1>4, <1>5, FS_Injection
<1> QED BY <1>6 DEF Count, t

-----------------------------------------------------------------------------
(* The datagrams in n's link socket that come from its peer, and those of  *)
(* them that carry packet p.                                               *)
FromPeer(n) == {d \in Datagram : d.from = Peer(n)}
FramesOf(n, p) == {d \in FromPeer(n) : d.packet = p}

(* A packet boundary holds bare packets.                                   *)
CopiesOf(p) == {p}

(* The four places of a copy of p on its way to n.                         *)
Queued(n, p) == Count(ingress[Peer(n)], CopiesOf(p))
Sending(n, p) == IF pc[Peer(n)] = "sending" /\ hold[Peer(n)] = p THEN 1 ELSE 0
Flying(n, p) == Count(inbox[n], FramesOf(n, p))
Writing(n, p) == IF pc[n] = "writing" /\ hold[n] = p THEN 1 ELSE 0

InPlaces(n, p) == Queued(n, p) + Sending(n, p) + Flying(n, p) + Writing(n, p)

(* What the type invariant says of the places.                             *)
Placed ==
  \A m \in Node : \A q \in Packets :
     /\ Queued(m, q) \in Nat
     /\ Sending(m, q) \in {0, 1}
     /\ Flying(m, q) \in Nat
     /\ Writing(m, q) \in {0, 1}
     /\ Copies(m, q) = InPlaces(m, q)

(* The positions Copies counts are the places of the counting lemmas.      *)
LEMMA CopiesInPlaces == TypeOK => Placed
<1> SUFFICES ASSUME TypeOK, NEW m \in Node, NEW q \in Packets
             PROVE  /\ Queued(m, q) \in Nat
                    /\ Sending(m, q) \in {0, 1}
                    /\ Flying(m, q) \in Nat
                    /\ Writing(m, q) \in {0, 1}
                    /\ Copies(m, q) = InPlaces(m, q)
  BY DEF Placed
<1>1. ingress[Peer(m)] \in Seq(Packets) /\ inbox[m] \in Seq(Datagram)
  BY PeerFacts DEF TypeOK
<1>2. Queued(m, q) \in Nat /\ Flying(m, q) \in Nat
  BY <1>1, CountType DEF Queued, Flying
<1>3. Sending(m, q) \in {0, 1} /\ Writing(m, q) \in {0, 1}
  BY DEF Sending, Writing
<1>4. {i \in 1..Len(ingress[Peer(m)]) : ingress[Peer(m)][i] = q}
        = Places(ingress[Peer(m)], CopiesOf(q))
  BY DEF Places, CopiesOf
<1>5. {i \in FramesFromPeer(m) : inbox[m][i].packet = q}
        = Places(inbox[m], FramesOf(m, q))
  BY <1>1 DEF Places, FramesFromPeer, FramesOf, FromPeer
<1> QED BY <1>2, <1>3, <1>4, <1>5
        DEF Copies, InPlaces, Queued, Sending, Flying, Writing, Count

-----------------------------------------------------------------------------
(* Steps of the service a step of the system can be.                       *)

(* Copies only disappear: the service loses them, or nothing happens.      *)
LEMMA FewerCopiesIsLose ==
  ASSUME Placed, Placed', UNCHANGED <<offered, output>>,
         \A m \in Node : \A q \in Packets : InPlaces(m, q)' <= InPlaces(m, q)
  PROVE  Service!Next
<1>1. \A m \in Node : \A q \in Packets :
         Copies(m, q)' \in Nat /\ Copies(m, q)' <= Copies(m, q)
  BY DEF Placed, InPlaces
<1> QED BY <1>1 DEF Service!Next, Service!Lose

(* One more copy of p on its way to n.                                     *)
LEMMA OneMoreCopy ==
  ASSUME Placed, Placed', NEW n \in Node, NEW p \in Packets,
         \A m \in Node : \A q \in Packets :
            InPlaces(m, q)' =
              InPlaces(m, q) + (IF m = n /\ q = p THEN 1 ELSE 0)
  PROVE  [m \in Node |-> [q \in Packets |-> Copies(m, q)']] =
           [[m \in Node |-> [q \in Packets |-> Copies(m, q)]]
              EXCEPT ![n][p] = @ + 1]
<1>1. \A m \in Node : \A q \in Packets :
         Copies(m, q)' = IF m = n /\ q = p THEN Copies(m, q) + 1
                         ELSE Copies(m, q)
  BY DEF Placed, InPlaces
<1> QED BY <1>1

LEMMA OneCopyLess ==
  ASSUME Placed, Placed', NEW n \in Node, NEW p \in Packets,
         \A m \in Node : \A q \in Packets :
            InPlaces(m, q)' =
              InPlaces(m, q) - (IF m = n /\ q = p THEN 1 ELSE 0)
  PROVE  [m \in Node |-> [q \in Packets |-> Copies(m, q)']] =
           [[m \in Node |-> [q \in Packets |-> Copies(m, q)]]
              EXCEPT ![n][p] = @ - 1]
<1>1. \A m \in Node : \A q \in Packets :
         Copies(m, q)' = IF m = n /\ q = p THEN Copies(m, q) - 1
                         ELSE Copies(m, q)
  BY DEF Placed, InPlaces
<1> QED BY <1>1

-----------------------------------------------------------------------------
(* What the steps do to the four places.                                   *)

(* At the end of an operation the node holds nothing.                      *)
LEMMA ReturnPlaces ==
  ASSUME TypeOK, NEW n \in Node, NEW op \in {"outbound", "inbound"}, NEW r,
         Return(n, op, r)
  PROVE  \A m \in Node : \A q \in Packets :
            /\ Sending(m, q)' = IF m = Peer(n) THEN 0 ELSE Sending(m, q)
            /\ Writing(m, q)' = IF m = n THEN 0 ELSE Writing(m, q)
<1>1. pc'[n] \notin Midway
  BY DEF TypeOK, Return, Midway
<1>2. \A k \in Node \ {n} : pc'[k] = pc[k] /\ hold'[k] = hold[k]
  BY DEF TypeOK, Return
<1> QED BY <1>1, <1>2, PeerFacts DEF Sending, Writing, Midway

(* In the middle of one it holds exactly the packet it took.               *)
LEMMA HoldPlaces ==
  ASSUME TypeOK, NEW n \in Node, NEW p \in Packets, NEW c \in Midway,
         pc[n] \notin Midway,
         hold' = [hold EXCEPT ![n] = p], pc' = [pc EXCEPT ![n] = c]
  PROVE  \A m \in Node : \A q \in Packets :
            /\ Sending(m, q)' = Sending(m, q)
                 + (IF c = "sending" /\ m = Peer(n) /\ q = p THEN 1 ELSE 0)
            /\ Writing(m, q)' = Writing(m, q)
                 + (IF c = "writing" /\ m = n /\ q = p THEN 1 ELSE 0)
<1>1. pc'[n] = c /\ hold'[n] = p
  BY DEF TypeOK
<1>2. \A k \in Node \ {n} : pc'[k] = pc[k] /\ hold'[k] = hold[k]
  BY DEF TypeOK
<1>3. ASSUME NEW m \in Node, NEW q \in Packets
      PROVE  /\ Sending(m, q)' = Sending(m, q)
                  + (IF c = "sending" /\ m = Peer(n) /\ q = p THEN 1 ELSE 0)
             /\ Writing(m, q)' = Writing(m, q)
                  + (IF c = "writing" /\ m = n /\ q = p THEN 1 ELSE 0)
  <2>1. CASE m = n
    <3>1. Peer(m) # n /\ m # Peer(n) /\ Peer(m) \in Node
      BY <2>1, PeerFacts
    <3> QED BY <1>1, <1>2, <2>1, <3>1 DEF Sending, Writing, Midway
  <2>2. CASE m # n
    <3>1. Peer(m) = n /\ m = Peer(n)
      BY <2>2, PeerFacts DEF Node, Peer
    <3> QED BY <1>1, <1>2, <2>2, <3>1 DEF Sending, Writing, Midway
  <2> QED BY <2>1, <2>2
<1> QED BY <1>3

LEMMA UntouchedPlaces ==
  /\ ingress' = ingress =>
       \A m \in Node : \A q \in Packets : Queued(m, q)' = Queued(m, q)
  /\ inbox' = inbox =>
       \A m \in Node : \A q \in Packets : Flying(m, q)' = Flying(m, q)
  /\ pc' = pc /\ hold' = hold =>
       \A m \in Node : \A q \in Packets :
          Sending(m, q)' = Sending(m, q) /\ Writing(m, q)' = Writing(m, q)
  BY DEF Queued, Flying, Sending, Writing

(* Whatever is done to one queue leaves the other alone.                   *)
LEMMA OtherQueues ==
  ASSUME TypeOK, NEW n \in Node, NEW s
  PROVE  /\ ingress' = [ingress EXCEPT ![n] = s] =>
              \A m \in Node : \A q \in Packets :
                 Queued(m, q)' = IF m = Peer(n) THEN Count(s, CopiesOf(q))
                                 ELSE Queued(m, q)
         /\ inbox' = [inbox EXCEPT ![n] = s] =>
              \A m \in Node : \A q \in Packets :
                 Flying(m, q)' = IF m = n THEN Count(s, FramesOf(n, q))
                                 ELSE Flying(m, q)
<1>1. ASSUME ingress' = [ingress EXCEPT ![n] = s],
             NEW m \in Node, NEW q \in Packets
      PROVE  Queued(m, q)' = IF m = Peer(n) THEN Count(s, CopiesOf(q))
                             ELSE Queued(m, q)
  <2>1. ingress'[n] = s /\ \A k \in Node \ {n} : ingress'[k] = ingress[k]
    BY <1>1 DEF TypeOK
  <2> QED BY <2>1, PeerFacts DEF Queued
<1>2. ASSUME inbox' = [inbox EXCEPT ![n] = s],
             NEW m \in Node, NEW q \in Packets
      PROVE  Flying(m, q)' = IF m = n THEN Count(s, FramesOf(n, q))
                             ELSE Flying(m, q)
  <2>1. inbox'[n] = s /\ \A k \in Node \ {n} : inbox'[k] = inbox[k]
    BY <1>2 DEF TypeOK
  <2> QED BY <2>1 DEF Flying
<1> QED BY <1>1, <1>2

(* An operation that ends with nothing passed on loses at most the packet  *)
(* it held.                                                                *)
LEMMA ReturnShrinks ==
  ASSUME TypeOK, Placed, Placed', NEW n \in Node,
         NEW op \in {"outbound", "inbound"}, NEW r, Return(n, op, r),
         UNCHANGED <<ingress, inbox>>
  PROVE  \A m \in Node : \A q \in Packets : InPlaces(m, q)' <= InPlaces(m, q)
<1>1. \A m \in Node : \A q \in Packets :
         /\ Sending(m, q)' <= Sending(m, q)
         /\ Writing(m, q)' <= Writing(m, q)
         /\ Queued(m, q)' = Queued(m, q)
         /\ Flying(m, q)' = Flying(m, q)
  BY ReturnPlaces, UntouchedPlaces DEF Placed
<1> QED BY <1>1 DEF InPlaces, Placed

LEMMA OutboundReceiveShrinks ==
  ASSUME TypeOK, Placed, Placed', NEW n \in Node, OutboundReceive(n)
  PROVE  \A m \in Node : \A q \in Packets : InPlaces(m, q)' <= InPlaces(m, q)
<1> DEFINE p == Head(ingress[n])
<1>1. /\ ingress[n] \in Seq(Packets) /\ ingress[n] # <<>>
      /\ p \in Packets
      /\ inbox' = inbox
      /\ ingress' = [ingress EXCEPT ![n] = Tail(ingress[n])]
      /\ pc[n] \notin Midway
  BY DEF OutboundReceive, TypeOK, Midway
<1>2. \A q \in Packets : Queued(Peer(n), q) =
         Count(Tail(ingress[n]), CopiesOf(q)) + (IF p \in CopiesOf(q) THEN 1 ELSE 0)
  BY <1>1, CountTail, PeerFacts DEF Queued
<1> HIDE DEF p
<1>a. \A m \in Node : \A q \in Packets :
         Queued(m, q)' = IF m = Peer(n) THEN Count(Tail(ingress[n]), CopiesOf(q))
                         ELSE Queued(m, q)
  BY <1>1, OtherQueues
<1>3. \A m \in Node : \A q \in Packets :
         /\ Flying(m, q)' = Flying(m, q)
         /\ Queued(m, q)' = Queued(m, q)
                            - (IF m = Peer(n) /\ q = p THEN 1 ELSE 0)
  <2>1. \A m \in Node : \A q \in Packets : Flying(m, q)' = Flying(m, q)
    BY <1>1, UntouchedPlaces
  <2>2. \A q \in Packets : p \in CopiesOf(q) <=> q = p
    BY DEF CopiesOf
  <2>3. \A m \in Node : \A q \in Packets :
           Queued(m, q)' = Queued(m, q)
                           - (IF m = Peer(n) /\ q = p THEN 1 ELSE 0)
    BY <1>2, <1>a, <2>2, PeerFacts DEF Placed
  <2> QED BY <2>1, <2>3
<1>4. CASE hold' = [hold EXCEPT ![n] = p] /\ pc' = [pc EXCEPT ![n] = "sending"]
  <2>1. \A m \in Node : \A q \in Packets :
           /\ Sending(m, q)' = Sending(m, q)
                               + (IF m = Peer(n) /\ q = p THEN 1 ELSE 0)
           /\ Writing(m, q)' = Writing(m, q)
    <3>1. "sending" \in Midway
      BY DEF Midway
    <3>2. \A m \in Node : \A q \in Packets :
             /\ Sending(m, q)' = Sending(m, q)
                  + (IF "sending" = "sending" /\ m = Peer(n) /\ q = p
                     THEN 1 ELSE 0)
             /\ Writing(m, q)' = Writing(m, q)
                  + (IF "sending" = "writing" /\ m = n /\ q = p
                     THEN 1 ELSE 0)
      BY <1>1, <1>4, <3>1, HoldPlaces, Zenon
    <3> QED BY <3>2 DEF Placed
  <2> QED BY <1>3, <2>1 DEF InPlaces, Placed
<1>5. ASSUME NEW r, Return(n, "outbound", r)
      PROVE  \A m \in Node : \A q \in Packets : InPlaces(m, q)' <= InPlaces(m, q)
  <2>1. \A m \in Node : \A q \in Packets :
           /\ Sending(m, q)' <= Sending(m, q)
           /\ Writing(m, q)' <= Writing(m, q)
    BY <1>5, ReturnPlaces DEF Placed
  <2> QED BY <1>3, <2>1 DEF InPlaces, Placed
<1> QED BY <1>4, <1>5 DEF OutboundReceive, p

LEMMA OutboundSendShrinks ==
  ASSUME TypeOK, Placed, Placed', NEW n \in Node, OutboundSend(n)
  PROVE  \A m \in Node : \A q \in Packets : InPlaces(m, q)' <= InPlaces(m, q)
<1> DEFINE d == [from |-> n, packet |-> hold[n]]
<1>1. /\ hold[n] \in Packets /\ pc[n] = "sending"
      /\ ingress' = ingress
      /\ Return(n, "outbound", "Ok")
      /\ inbox[Peer(n)] \in Seq(Datagram)
  BY PeerFacts DEF OutboundSend, TypeOK, Midway
<1>2. d \in Datagram /\ \A q \in Packets : d \in FramesOf(Peer(n), q) <=> q = hold[n]
  BY <1>1, PeerFacts DEF Datagram, Address, FramesOf, FromPeer
<1>3. \A m \in Node : \A q \in Packets :
         /\ Queued(m, q)' = Queued(m, q)
         /\ Sending(m, q)' = IF m = Peer(n) THEN 0 ELSE Sending(m, q)
         /\ Writing(m, q)' <= Writing(m, q)
  BY <1>1, ReturnPlaces, UntouchedPlaces DEF Placed
<1>4. \A q \in Packets : Sending(Peer(n), q) = IF q = hold[n] THEN 1 ELSE 0
  BY <1>1, PeerFacts DEF Sending
<1>5. \A m \in Node : \A q \in Packets :
         Flying(m, q)' <= Flying(m, q)
                          + (IF m = Peer(n) /\ q = hold[n] THEN 1 ELSE 0)
  <2>1. CASE inbox' = inbox
    BY <2>1, UntouchedPlaces DEF Placed
  <2>2. CASE inbox' = [inbox EXCEPT ![Peer(n)] = Append(inbox[Peer(n)], d)]
    <3>1. \A q \in Packets :
             Count(Append(inbox[Peer(n)], d), FramesOf(Peer(n), q)) =
               Flying(Peer(n), q) + (IF q = hold[n] THEN 1 ELSE 0)
      BY <1>1, <1>2, CountAppend DEF Flying
    <3> HIDE DEF d
    <3>2. \A m \in Node : \A q \in Packets :
             Flying(m, q)' =
               IF m = Peer(n)
               THEN Count(Append(inbox[Peer(n)], d), FramesOf(Peer(n), q))
               ELSE Flying(m, q)
      BY <2>2, OtherQueues, PeerFacts
    <3> QED BY <3>1, <3>2, PeerFacts DEF Placed
  <2> QED BY <2>1, <2>2 DEF OutboundSend
<1> QED BY <1>3, <1>4, <1>5 DEF InPlaces, Placed

LEMMA InboundReceiveShrinks ==
  ASSUME TypeOK, Placed, Placed', NEW n \in Node, InboundReceive(n)
  PROVE  \A m \in Node : \A q \in Packets : InPlaces(m, q)' <= InPlaces(m, q)
<1> DEFINE d == Head(inbox[n])
<1>1. /\ inbox[n] \in Seq(Datagram) /\ inbox[n] # <<>>
      /\ d \in Datagram
      /\ ingress' = ingress
      /\ inbox' = [inbox EXCEPT ![n] = Tail(inbox[n])]
      /\ pc[n] \notin Midway
  BY DEF InboundReceive, TypeOK, Midway
<1>2. \A q \in Packets : Flying(n, q) =
         Count(Tail(inbox[n]), FramesOf(n, q))
         + (IF d \in FramesOf(n, q) THEN 1 ELSE 0)
  BY <1>1, CountTail DEF Flying
<1> HIDE DEF d
<1>3. \A m \in Node : \A q \in Packets :
         /\ Queued(m, q)' = Queued(m, q)
         /\ Flying(m, q)' = Flying(m, q)
              - (IF m = n /\ d \in FramesOf(n, q) THEN 1 ELSE 0)
  <2>1. \A m \in Node : \A q \in Packets :
           Flying(m, q)' = IF m = n THEN Count(Tail(inbox[n]), FramesOf(n, q))
                           ELSE Flying(m, q)
    BY <1>1, OtherQueues
  <2>2. \A m \in Node : \A q \in Packets :
           Flying(m, q)' = Flying(m, q)
              - (IF m = n /\ d \in FramesOf(n, q) THEN 1 ELSE 0)
    BY <1>2, <2>1 DEF Placed
  <2> QED BY <1>1, <2>2, UntouchedPlaces
<1>4. CASE /\ d.from = Peer(n)
           /\ hold' = [hold EXCEPT ![n] = d.packet]
           /\ pc' = [pc EXCEPT ![n] = "writing"]
  <2>1. d.packet \in Packets
    BY <1>1 DEF Datagram
  <2>2. \A q \in Packets : d \in FramesOf(n, q) <=> q = d.packet
    BY <1>1, <1>4 DEF FramesOf, FromPeer
  <2>3. \A m \in Node : \A q \in Packets :
           /\ Sending(m, q)' = Sending(m, q)
           /\ Writing(m, q)' = Writing(m, q)
                               + (IF m = n /\ q = d.packet THEN 1 ELSE 0)
    <3>1. "writing" \in Midway
      BY DEF Midway
    <3>2. \A m \in Node : \A q \in Packets :
             /\ Sending(m, q)' = Sending(m, q)
                  + (IF "writing" = "sending" /\ m = Peer(n) /\ q = d.packet
                     THEN 1 ELSE 0)
             /\ Writing(m, q)' = Writing(m, q)
                  + (IF "writing" = "writing" /\ m = n /\ q = d.packet
                     THEN 1 ELSE 0)
      BY <1>1, <1>4, <2>1, <3>1, HoldPlaces, Zenon
    <3> QED BY <3>2 DEF Placed
  <2> QED BY <1>3, <2>2, <2>3 DEF InPlaces, Placed
<1>5. ASSUME NEW r, Return(n, "inbound", r)
      PROVE  \A m \in Node : \A q \in Packets : InPlaces(m, q)' <= InPlaces(m, q)
  <2>1. \A m \in Node : \A q \in Packets :
           /\ Sending(m, q)' <= Sending(m, q)
           /\ Writing(m, q)' <= Writing(m, q)
    BY <1>5, ReturnPlaces DEF Placed
  <2> QED BY <1>3, <2>1 DEF InPlaces, Placed
<1> QED BY <1>4, <1>5 DEF InboundReceive, d

(* A write takes one copy of the packet off its way, and it is there.      *)
LEMMA InboundWriteTakesOne ==
  ASSUME TypeOK, Placed, Placed', NEW n \in Node, InboundWrite(n)
  PROVE  /\ hold[n] \in Packets
         /\ Writing(n, hold[n]) = 1
         /\ \A m \in Node : \A q \in Packets :
               InPlaces(m, q)' =
                 InPlaces(m, q) - (IF m = n /\ q = hold[n] THEN 1 ELSE 0)
<1>1. /\ hold[n] \in Packets /\ pc[n] = "writing"
      /\ ingress' = ingress /\ inbox' = inbox
      /\ Return(n, "inbound", "Ok")
  BY DEF InboundWrite, TypeOK, Midway
<1>2. \A q \in Packets :
         Sending(Peer(n), q) = 0 /\ Writing(n, q) = IF q = hold[n] THEN 1 ELSE 0
  BY <1>1, PeerFacts DEF Sending, Writing
<1>3. \A m \in Node : \A q \in Packets :
         /\ Sending(m, q)' = IF m = Peer(n) THEN 0 ELSE Sending(m, q)
         /\ Writing(m, q)' = IF m = n THEN 0 ELSE Writing(m, q)
  BY <1>1, ReturnPlaces
<1>4. \A m \in Node : \A q \in Packets :
         /\ Sending(m, q)' = Sending(m, q)
         /\ Writing(m, q)' =
              Writing(m, q) - (IF m = n /\ q = hold[n] THEN 1 ELSE 0)
  BY <1>2, <1>3 DEF Placed
<1>5. \A m \in Node : \A q \in Packets :
         Queued(m, q)' = Queued(m, q) /\ Flying(m, q)' = Flying(m, q)
  BY <1>1, UntouchedPlaces
<1> QED BY <1>1, <1>2, <1>4, <1>5 DEF InPlaces, Placed

(* An offer adds one copy, queued at the packet boundary.                  *)
LEMMA OfferAddsOne ==
  ASSUME TypeOK, Placed, Placed', NEW n \in Node, NEW p \in Packets, Offer(n, p)
  PROVE  \A m \in Node : \A q \in Packets :
            InPlaces(m, q)' =
              InPlaces(m, q) + (IF m = Peer(n) /\ q = p THEN 1 ELSE 0)
<1>1. /\ ingress[n] \in Seq(Packets)
      /\ ingress' = [ingress EXCEPT ![n] = Append(ingress[n], p)]
      /\ inbox' = inbox /\ pc' = pc /\ hold' = hold
  BY DEF Offer, TypeOK
<1>2. \A q \in Packets :
         Count(Append(ingress[n], p), CopiesOf(q)) =
           Queued(Peer(n), q) + (IF q = p THEN 1 ELSE 0)
  <2>1. \A q \in Packets : p \in CopiesOf(q) <=> q = p
    BY DEF CopiesOf
  <2> QED BY <1>1, <2>1, CountAppend, PeerFacts DEF Queued
<1>3. \A m \in Node : \A q \in Packets :
         Queued(m, q)' = IF m = Peer(n)
                         THEN Count(Append(ingress[n], p), CopiesOf(q))
                         ELSE Queued(m, q)
  BY <1>1, OtherQueues
<1>4. \A m \in Node : \A q \in Packets :
         Queued(m, q)' = Queued(m, q) + (IF m = Peer(n) /\ q = p THEN 1 ELSE 0)
  BY <1>2, <1>3 DEF Placed
<1>5. \A m \in Node : \A q \in Packets :
         /\ Flying(m, q)' = Flying(m, q)
         /\ Sending(m, q)' = Sending(m, q)
         /\ Writing(m, q)' = Writing(m, q)
  BY <1>1, UntouchedPlaces
<1> QED BY <1>4, <1>5 DEF InPlaces, Placed

(* Steps that only touch what is in flight to n: the copies follow it.     *)
LEMMA OnlyFlying ==
  ASSUME TypeOK, Placed, Placed', NEW n \in Node, NEW s,
         UNCHANGED <<ingress, pc, hold>>, inbox' = [inbox EXCEPT ![n] = s]
  PROVE  \A m \in Node : \A q \in Packets :
            /\ m = n => InPlaces(m, q)' = InPlaces(m, q) - Flying(m, q)
                                          + Count(s, FramesOf(n, q))
            /\ m # n => InPlaces(m, q)' = InPlaces(m, q)
<1>1. \A m \in Node : \A q \in Packets : Queued(m, q)' = Queued(m, q)
  BY UntouchedPlaces
<1>2. \A m \in Node : \A q \in Packets :
         Sending(m, q)' = Sending(m, q) /\ Writing(m, q)' = Writing(m, q)
  BY UntouchedPlaces
<1>3. \A m \in Node : \A q \in Packets :
         Flying(m, q)' = IF m = n THEN Count(s, FramesOf(n, q))
                         ELSE Flying(m, q)
  BY OtherQueues
<1> QED BY <1>1, <1>2, <1>3 DEF InPlaces, Placed

(* A frame that is repeated adds one copy of what it carries, if it is a   *)
(* frame of the peer.                                                      *)
LEMMA DuplicateAddsOne ==
  ASSUME TypeOK, Placed, Placed', NEW n \in Node, NEW i \in 1..Len(inbox[n]),
         UNCHANGED <<ingress, pc, hold>>,
         inbox' = [inbox EXCEPT ![n] = Append(inbox[n], inbox[n][i])]
  PROVE  /\ inbox[n][i].packet \in Packets
         /\ inbox[n][i].from = Peer(n) =>
              /\ Flying(n, inbox[n][i].packet) > 0
              /\ \A m \in Node : \A q \in Packets :
                    InPlaces(m, q)' = InPlaces(m, q)
                      + (IF m = n /\ q = inbox[n][i].packet THEN 1 ELSE 0)
         /\ inbox[n][i].from # Peer(n) =>
              \A m \in Node : \A q \in Packets :
                 InPlaces(m, q)' = InPlaces(m, q)
<1> DEFINE d == inbox[n][i]
<1>1. inbox[n] \in Seq(Datagram) /\ d \in Datagram /\ d.packet \in Packets
  <2>1. inbox[n] \in Seq(Datagram)
    BY DEF TypeOK
  <2>2. d \in Datagram
    BY <2>1
  <2> QED BY <2>1, <2>2 DEF Datagram
<1>2. \A q \in Packets :
         d \in FramesOf(n, q) <=> d.from = Peer(n) /\ q = d.packet
  BY <1>1 DEF FramesOf, FromPeer
<1>3. \A q \in Packets :
         Count(Append(inbox[n], d), FramesOf(n, q)) =
           Flying(n, q) + (IF d \in FramesOf(n, q) THEN 1 ELSE 0)
  BY <1>1, CountAppend DEF Flying
<1>4. \A m \in Node : \A q \in Packets :
         /\ m = n => InPlaces(m, q)' = InPlaces(m, q) - Flying(m, q)
                                     + Count(Append(inbox[n], d), FramesOf(n, q))
         /\ m # n => InPlaces(m, q)' = InPlaces(m, q)
  BY OnlyFlying
<1>5. d.from = Peer(n) => Flying(n, d.packet) > 0
  BY <1>1, <1>2, CountPositive DEF Flying
<1> HIDE DEF d
<1>6. \A m \in Node : \A q \in Packets :
         InPlaces(m, q)' = InPlaces(m, q)
           + (IF m = n /\ d.from = Peer(n) /\ q = d.packet THEN 1 ELSE 0)
  <2>1. ASSUME NEW m \in Node, NEW q \in Packets
        PROVE  Flying(m, q) \in Nat /\ InPlaces(m, q) \in Nat
    BY DEF InPlaces, Placed
  <2>2. ASSUME NEW q \in Packets
        PROVE  InPlaces(n, q)' = InPlaces(n, q)
                 + (IF d.from = Peer(n) /\ q = d.packet THEN 1 ELSE 0)
    BY <1>2, <1>3, <1>4, <2>1
  <2> QED BY <1>4, <2>1, <2>2
<1>7. \A m \in Node : \A q \in Packets : InPlaces(m, q) \in Nat
  BY DEF InPlaces, Placed
<1> QED BY <1>1, <1>5, <1>6, <1>7 DEF d

(* The other things the surroundings do add no copy.                       *)
LEMMA RearrangedFlying ==
  ASSUME TypeOK, Placed, Placed', NEW n \in Node, NEW s,
         UNCHANGED <<ingress, pc, hold>>, inbox' = [inbox EXCEPT ![n] = s],
         \A q \in Packets : Count(s, FramesOf(n, q)) <= Flying(n, q)
  PROVE  \A m \in Node : \A q \in Packets : InPlaces(m, q)' <= InPlaces(m, q)
<1>1. \A m \in Node : \A q \in Packets :
         /\ m = n => InPlaces(m, q)' = InPlaces(m, q) - Flying(m, q)
                                       + Count(s, FramesOf(n, q))
         /\ m # n => InPlaces(m, q)' = InPlaces(m, q)
  BY OnlyFlying
<1>2. \A m \in Node : \A q \in Packets : InPlaces(m, q) \in Nat
  BY DEF InPlaces, Placed
<1>3. \A q \in Packets :
         Flying(n, q)' = Count(s, FramesOf(n, q))
  BY OtherQueues
<1> QED BY <1>1, <1>2, <1>3 DEF Placed

LEMMA StrangerAddsNone ==
  ASSUME TypeOK, Placed, Placed', NEW n \in Node, NEW p \in Packets, Stranger(n, p)
  PROVE  \A m \in Node : \A q \in Packets : InPlaces(m, q)' <= InPlaces(m, q)
<1> DEFINE d == [from |-> "stranger", packet |-> p]
<1>1. inbox[n] \in Seq(Datagram) /\ d \in Datagram
  BY DEF TypeOK, Datagram, Address
<1>2. \A q \in Packets : d \notin FramesOf(n, q)
  BY DEF FramesOf, FromPeer, Peer
<1>3. \A q \in Packets : Count(Append(inbox[n], d), FramesOf(n, q)) <= Flying(n, q)
  BY <1>1, <1>2, CountAppend, CountType DEF Flying
<1>4. /\ UNCHANGED <<ingress, pc, hold>>
      /\ inbox' = [inbox EXCEPT ![n] = Append(inbox[n], d)]
  BY DEF Stranger
<1> HIDE DEF d
<1> QED BY <1>3, <1>4, RearrangedFlying

LEMMA LoseAddsNone ==
  ASSUME TypeOK, Placed, Placed', NEW n \in Node, Lose(n)
  PROVE  \A m \in Node : \A q \in Packets : InPlaces(m, q)' <= InPlaces(m, q)
<1>1. PICK i \in 1..Len(inbox[n]) :
         inbox' = [inbox EXCEPT ![n] = RemoveAt(inbox[n], i)]
  BY DEF Lose
<1>2. inbox[n] \in Seq(Datagram) /\ UNCHANGED <<ingress, pc, hold>>
  BY DEF TypeOK, Lose
<1>3. RemoveAt(inbox[n], i) \in Seq(Datagram)
  BY <1>2, RemoveAtProperties
<1>4. ASSUME NEW q \in Packets
      PROVE  Count(RemoveAt(inbox[n], i), FramesOf(n, q)) <= Flying(n, q)
  <2>1. /\ Flying(n, q) = Count(RemoveAt(inbox[n], i), FramesOf(n, q))
               + (IF inbox[n][i] \in FramesOf(n, q) THEN 1 ELSE 0)
        /\ Count(RemoveAt(inbox[n], i), FramesOf(n, q)) \in Nat
    BY <1>2, <1>3, CountRemoveAt, CountType DEF Flying
  <2> QED BY <2>1
<1> QED BY <1>1, <1>2, <1>4, RearrangedFlying

LEMMA ReorderAddsNone ==
  ASSUME TypeOK, Placed, Placed', NEW n \in Node, Reorder(n)
  PROVE  \A m \in Node : \A q \in Packets : InPlaces(m, q)' <= InPlaces(m, q)
<1>1. PICK i \in 1..Len(inbox[n]) :
         inbox' = [inbox EXCEPT ![n] =
                     Append(RemoveAt(inbox[n], i), inbox[n][i])]
  BY DEF Reorder
<1> DEFINE r == RemoveAt(inbox[n], i)
           d == inbox[n][i]
<1>2. inbox[n] \in Seq(Datagram) /\ UNCHANGED <<ingress, pc, hold>>
  BY DEF TypeOK, Reorder
<1>3. r \in Seq(Datagram) /\ d \in Datagram
  BY <1>2, RemoveAtProperties
<1>4. ASSUME NEW q \in Packets
      PROVE  Count(Append(r, d), FramesOf(n, q)) <= Flying(n, q)
  <2>1. /\ Flying(n, q) = Count(r, FramesOf(n, q))
                          + (IF d \in FramesOf(n, q) THEN 1 ELSE 0)
        /\ Count(r, FramesOf(n, q)) \in Nat
    BY <1>2, <1>3, CountRemoveAt, CountType DEF Flying
  <2>2. Count(Append(r, d), FramesOf(n, q)) =
          Count(r, FramesOf(n, q)) + (IF d \in FramesOf(n, q) THEN 1 ELSE 0)
    BY <1>3, CountAppend
  <2> HIDE DEF r, d
  <2> QED BY <2>1, <2>2
<1> QED BY <1>1, <1>2, <1>4, RearrangedFlying

LEMMA KillAddsNone ==
  ASSUME TypeOK, Placed, Placed', NEW n \in Node, Kill(n)
  PROVE  \A m \in Node : \A q \in Packets : InPlaces(m, q)' <= InPlaces(m, q)
<1>1. /\ ingress' = ingress /\ inbox' = inbox
      /\ pc'[n] \notin Midway
      /\ \A k \in Node \ {n} : pc'[k] = pc[k] /\ hold'[k] = hold[k]
  BY DEF Kill, TypeOK, Midway
<1>2. \A m \in Node : \A q \in Packets :
         Sending(m, q)' <= Sending(m, q) /\ Writing(m, q)' <= Writing(m, q)
  BY <1>1, PeerFacts DEF Sending, Writing, Midway
<1>3. \A m \in Node : \A q \in Packets :
         Queued(m, q)' = Queued(m, q) /\ Flying(m, q)' = Flying(m, q)
  BY <1>1, UntouchedPlaces
<1> QED BY <1>2, <1>3 DEF InPlaces, Placed

LEMMA RestartAddsNone ==
  ASSUME TypeOK, Placed, Placed', NEW n \in Node, Restart(n)
  PROVE  \A m \in Node : \A q \in Packets : InPlaces(m, q)' <= InPlaces(m, q)
<1>1. PICK k \in 0..Len(inbox[n]) :
         inbox' = [inbox EXCEPT ![n] = SubSeq(inbox[n], k + 1, Len(inbox[n]))]
  BY DEF Restart
<1>2. /\ inbox[n] \in Seq(Datagram)
      /\ ingress' = [ingress EXCEPT ![n] = <<>>]
      /\ hold' = hold
      /\ pc'[n] \notin Midway
      /\ \A j \in Node \ {n} : pc'[j] = pc[j]
  BY DEF Restart, FirstPc, TypeOK, Midway
<1>3. \A m \in Node : \A q \in Packets :
         Sending(m, q)' <= Sending(m, q) /\ Writing(m, q)' <= Writing(m, q)
  BY <1>2, PeerFacts DEF Sending, Writing, Midway
<1>4. \A m \in Node : \A q \in Packets : Queued(m, q)' <= Queued(m, q)
  <2>1. \A m \in Node : \A q \in Packets :
           Queued(m, q)' = IF m = Peer(n) THEN Count(<<>>, CopiesOf(q))
                           ELSE Queued(m, q)
    BY <1>2, OtherQueues
  <2> QED BY <2>1, CountEmpty DEF Placed
<1>5. \A m \in Node : \A q \in Packets : Flying(m, q)' <= Flying(m, q)
  <2>1. \A m \in Node : \A q \in Packets :
           Flying(m, q)' =
             IF m = n
             THEN Count(SubSeq(inbox[n], k + 1, Len(inbox[n])), FramesOf(n, q))
             ELSE Flying(m, q)
    BY <1>1, OtherQueues
  <2>2. \A q \in Packets :
           Count(SubSeq(inbox[n], k + 1, Len(inbox[n])), FramesOf(n, q))
             <= Flying(n, q)
    BY <1>2, CountSuffix DEF Flying
  <2> QED BY <2>1, <2>2 DEF Placed
<1>6. ASSUME NEW m \in Node, NEW q \in Packets
      PROVE  InPlaces(m, q)' <= InPlaces(m, q)
  <2>1. /\ Queued(m, q)' <= Queued(m, q) /\ Sending(m, q)' <= Sending(m, q)
        /\ Flying(m, q)' <= Flying(m, q) /\ Writing(m, q)' <= Writing(m, q)
    BY <1>3, <1>4, <1>5
  <2>2. /\ Queued(m, q) \in Int /\ Queued(m, q)' \in Int
        /\ Sending(m, q) \in Int /\ Sending(m, q)' \in Int
        /\ Flying(m, q) \in Int /\ Flying(m, q)' \in Int
        /\ Writing(m, q) \in Int /\ Writing(m, q)' \in Int
    BY DEF Placed
  <2> QED BY <2>1, <2>2 DEF InPlaces
<1> QED BY <1>6

-----------------------------------------------------------------------------
(* Every step of the system is a step of the service, or leaves what the   *)
(* service sees as it was.                                                 *)
LEMMA StepIsServiceStep ==
  ASSUME TypeOK, Placed, Placed', Next
  PROVE  Service!Next
<1>1. PICK n \in Node : Process(n) \/ Surroundings(n)
  BY DEF Next
<1>2. ASSUME Process(n) PROVE Service!Next
  <2>1. ASSUME NEW op \in {"outbound", "inbound"}, NEW r, Return(n, op, r),
               UNCHANGED <<offered, ingress, inbox, output>>
        PROVE  Service!Next
    BY <2>1, ReturnShrinks, FewerCopiesIsLose
  <2>2. CASE OutboundReceive(n)
    BY <2>2, OutboundReceiveShrinks, FewerCopiesIsLose DEF OutboundReceive
  <2>3. CASE OutboundSend(n)
    BY <2>3, OutboundSendShrinks, FewerCopiesIsLose DEF OutboundSend
  <2>4. CASE InboundReceive(n)
    BY <2>4, InboundReceiveShrinks, FewerCopiesIsLose DEF InboundReceive
  <2>5. CASE InboundWrite(n)
    <3>1. hold[n] \in Packets /\ Copies(n, hold[n]) > 0
      <4>1. hold[n] \in Packets /\ Writing(n, hold[n]) = 1
        BY <2>5, InboundWriteTakesOne
      <4> QED BY <4>1 DEF Placed, InPlaces
    <3>2. [m \in Node |-> [q \in Packets |-> Copies(m, q)']] =
            [[m \in Node |-> [q \in Packets |-> Copies(m, q)]]
               EXCEPT ![n][hold[n]] = @ - 1]
      BY <2>5, <3>1, InboundWriteTakesOne, OneCopyLess
    <3>3. Service!Write(n, hold[n])
      BY <2>5, <3>1, <3>2 DEF Service!Write, InboundWrite
    <3> QED BY <3>1, <3>3 DEF Service!Next
  <2>6. CASE OutboundIdle(n) \/ OutboundSendFails(n)
    BY <2>1, <2>6 DEF OutboundIdle, OutboundSendFails
  <2>7. CASE InboundIdle(n) \/ InboundWriteFails(n)
    BY <2>1, <2>7 DEF InboundIdle, InboundWriteFails
  <2>8. CASE ReceiveFails(n)
    BY <2>1, <2>8 DEF ReceiveFails
  <2> QED BY <1>2, <2>2, <2>3, <2>4, <2>5, <2>6, <2>7, <2>8 DEF Process
<1>3. ASSUME Surroundings(n) PROVE Service!Next
  <2>1. ASSUME NEW p \in Offers[n], Offer(n, p) PROVE Service!Next
    <3>1. p \in Packets
      BY OffersAssumption
    <3>2. [m \in Node |-> [q \in Packets |-> Copies(m, q)']] =
            [[m \in Node |-> [q \in Packets |-> Copies(m, q)]]
               EXCEPT ![Peer(n)][p] = @ + 1]
      <4>1. Peer(n) \in Node
        BY PeerFacts
      <4>2. \A m \in Node : \A q \in Packets :
               InPlaces(m, q)' =
                 InPlaces(m, q) + (IF m = Peer(n) /\ q = p THEN 1 ELSE 0)
        BY <2>1, <3>1, OfferAddsOne
      <4> QED BY <3>1, <4>1, <4>2, OneMoreCopy
    <3>3. Service!NeverOffered(p)
      BY <2>1 DEF Offer, Fresh, Service!NeverOffered
    <3>4. Service!Offer(n, p)
      BY <2>1, <3>2, <3>3 DEF Service!Offer, Offer
    <3> QED BY <3>1, <3>4 DEF Service!Next
  <2>2. ASSUME NEW p \in Replayed[n], Stranger(n, p) PROVE Service!Next
    <3>1. p \in Packets
      BY OffersAssumption
    <3> QED BY <2>2, <3>1, StrangerAddsNone, FewerCopiesIsLose DEF Stranger
  <2>3. CASE Duplicate(n)
    <3>1. PICK i \in 1..Len(inbox[n]) :
             inbox' = [inbox EXCEPT ![n] = Append(inbox[n], inbox[n][i])]
      BY <2>3 DEF Duplicate
    <3> DEFINE d == inbox[n][i]
    <3>2. /\ UNCHANGED <<offered, ingress, pc, hold, output>>
          /\ "duplicate" \in NetFaults
      BY <2>3 DEF Duplicate, Fault
    <3>3. CASE d.from = Peer(n)
      <4>1. d.packet \in Packets /\ Copies(n, d.packet) > 0
        <5>1. d.packet \in Packets /\ Flying(n, d.packet) > 0
          BY <3>1, <3>2, <3>3, DuplicateAddsOne
        <5> QED BY <5>1 DEF Placed, InPlaces
      <4>a. \A m \in Node : \A q \in Packets :
               InPlaces(m, q)' =
                 InPlaces(m, q) + (IF m = n /\ q = d.packet THEN 1 ELSE 0)
        BY <3>1, <3>2, <3>3, DuplicateAddsOne
      <4> HIDE DEF d
      <4>2. [m \in Node |-> [q \in Packets |-> Copies(m, q)']] =
              [[m \in Node |-> [q \in Packets |-> Copies(m, q)]]
                 EXCEPT ![n][d.packet] = @ + 1]
        BY <4>1, <4>a, OneMoreCopy
      <4>3. Service!Duplicate(n, d.packet)
        BY <3>2, <4>1, <4>2 DEF Service!Duplicate
      <4> QED BY <4>1, <4>3 DEF Service!Next
    <3>4. CASE d.from # Peer(n)
      <4>1. \A m \in Node : \A q \in Packets : InPlaces(m, q)' = InPlaces(m, q)
        BY <3>1, <3>2, <3>4, DuplicateAddsOne
      <4>2. \A m \in Node : \A q \in Packets : InPlaces(m, q)' <= InPlaces(m, q)
        BY <4>1 DEF Placed, InPlaces
      <4> QED BY <3>2, <4>2, FewerCopiesIsLose
    <3> QED BY <3>3, <3>4
  <2>4. CASE Lose(n)
    BY <2>4, LoseAddsNone, FewerCopiesIsLose DEF Lose
  <2>5. CASE Reorder(n)
    BY <2>5, ReorderAddsNone, FewerCopiesIsLose DEF Reorder
  <2>6. CASE Kill(n)
    BY <2>6, KillAddsNone, FewerCopiesIsLose DEF Kill
  <2>7. CASE Restart(n)
    BY <2>7, RestartAddsNone, FewerCopiesIsLose DEF Restart
  <2> QED BY <1>3, <2>1, <2>2, <2>3, <2>4, <2>5, <2>6, <2>7 DEF Surroundings
<1> QED BY <1>1, <1>2, <1>3

(* At the start nothing is on its way.                                     *)
LEMMA InitIsServiceInit == Init => Service!Init
<1> SUFFICES ASSUME Init PROVE Service!Init
  OBVIOUS
<1>1. TypeOK
  BY DEF Init, TypeOK, FirstPc, Running, Stopped, Midway
<1>2. ASSUME NEW m \in Node, NEW q \in Packets PROVE Copies(m, q) = 0
  <2>1. /\ ingress[Peer(m)] = <<>> /\ inbox[m] = <<>>
        /\ pc[m] \notin Midway /\ pc[Peer(m)] \notin Midway
    BY PeerFacts DEF Init, FirstPc, Midway
  <2>2. Queued(m, q) = 0 /\ Flying(m, q) = 0
    BY <2>1, CountEmpty DEF Queued, Flying
  <2>3. Sending(m, q) = 0 /\ Writing(m, q) = 0
    BY <2>1 DEF Sending, Writing, Midway
  <2> QED BY <1>1, <2>2, <2>3, CopiesInPlaces DEF Placed, InPlaces
<1>3. [m \in Node |-> [q \in Packets |-> Copies(m, q)]] =
        [m \in Node |-> [q \in Packets |-> 0]]
  BY <1>2
<1> QED BY <1>3 DEF Service!Init, Init

(* The two nodes and the link implement the unreliable packet service:     *)
(* whatever the two loops, the link and the surroundings do, a packet that *)
(* is written is a copy of an offered one on its way, taken off it; copies *)
(* appear only with an offer, or by duplication on a link that does that.  *)
THEOREM ServiceImplemented == Spec => ImplementsService
<1>1. Init => Service!Init
  BY InitIsServiceInit
<1>2. TypeOK => Placed
  BY CopiesInPlaces
<1>3. TypeOK /\ Placed /\ Placed' /\ [Next]_vars => [Service!Next]_(Service!vars)
  <2> SUFFICES ASSUME TypeOK, Placed, Placed', [Next]_vars
               PROVE  [Service!Next]_(Service!vars)
    OBVIOUS
  <2>1. CASE Next
    BY <2>1, StepIsServiceStep
  <2>2. CASE UNCHANGED vars
    BY <2>2 DEF vars, Service!vars, Copies, FramesFromPeer
  <2> QED BY <2>1, <2>2
<1> QED BY <1>1, <1>2, <1>3, TypeCorrect, PTL DEF Spec, Service!Spec, ImplementsService

(* The facts proved of the service, about the service the nodes implement. *)
Promise == INSTANCE PacketServiceProofs WITH
             Side <- Node,
             Other <- Peer,
             MayDuplicate <- "duplicate" \in NetFaults,
             given <- offered,
             transit <- [n \in Node |-> [p \in Packets |-> Copies(n, p)]],
             written <- output

(* Without duplication on the link a packet is written at most once: what  *)
(* the service promises, and so what the nodes that implement it do.       *)
THEOREM AtMostOnceHolds == Spec => []AtMostOnce
<1>1. Spec => Promise!Spec
  BY ServiceImplemented, PTL
  DEF ImplementsService, Service!Spec, Service!Init, Service!Next,
      Service!Lose, Service!Offer, Service!NeverOffered, Service!Duplicate,
      Service!Write, Service!vars, Promise!Spec, Promise!Init, Promise!Next,
      Promise!Lose, Promise!Offer, Promise!NeverOffered, Promise!Duplicate,
      Promise!Write, Promise!vars
<1>2. Promise!Opposite
  BY PeerFacts DEF Promise!Opposite
<1>3. Promise!Spec => []Promise!Inv
  BY <1>2, Promise!ServiceInvariant
<1>4. Promise!Inv => AtMostOnce
  BY DEF Promise!Inv, Promise!WrittenOnce, AtMostOnce,
         Promise!IsInjective, IsInjective
<1> QED BY <1>1, <1>3, <1>4, PTL

-----------------------------------------------------------------------------
(* The counters of the two nodes and the traffic between them.             *)

(* Frames of the peer that wait for n, packets n has written, and the one  *)
(* n has decoded and not yet written.                                      *)
Arriving(n) == Count(inbox[n], FromPeer(n))
Out(n) == Len(output[n])
Decoded(n) == IF pc[n] = "writing" THEN 1 ELSE 0

(* The traffic n must have counted: what it wrote, and what it sent that   *)
(* its peer wrote or still may.                                            *)
Covered ==
  \A n \in Node :
     ops[n] >= Out(n) + Out(Peer(n))
               + Arriving(Peer(n)) + Decoded(Peer(n))

Tallied ==
  \A m \in Node : /\ ops[m] \in Nat /\ Out(m) \in Nat
                  /\ Arriving(m) \in Nat /\ Decoded(m) \in {0, 1}
                  /\ Cardinality(FramesFromPeer(m)) = Arriving(m)

LEMMA TypesTallied == TypeOK => Tallied
<1> SUFFICES ASSUME TypeOK, NEW m \in Node
             PROVE  /\ ops[m] \in Nat /\ Out(m) \in Nat
                    /\ Arriving(m) \in Nat /\ Decoded(m) \in {0, 1}
                    /\ Cardinality(FramesFromPeer(m)) = Arriving(m)
  BY DEF Tallied
<1>1. inbox[m] \in Seq(Datagram) /\ output[m] \in Seq(Packets) /\ ops[m] \in Nat
  BY DEF TypeOK
<1>2. FramesFromPeer(m) = Places(inbox[m], FromPeer(m))
  BY <1>1 DEF FramesFromPeer, Places, FromPeer
<1>3. Arriving(m) \in Nat
  BY <1>1, CountType DEF Arriving
<1> QED BY <1>1, <1>2, <1>3, LenProperties DEF Arriving, Decoded, Count, Out

(* The traffic of a node grows by no more than its counter.                *)
LEMMA CoveredStep ==
  ASSUME Tallied, Tallied', Covered,
         NEW n \in Node, NEW a \in Node, NEW b \in {0, 1}, a = Peer(n),
         ops'[n] >= ops[n] + b, ops'[a] >= ops[a],
         Out(a)' = Out(a),
         Arriving(n)' + Decoded(n)' + Out(n)'
           <= Arriving(n) + Decoded(n) + Out(n),
         Out(n)' + Arriving(a)' + Decoded(a)'
           <= Out(n) + Arriving(a) + Decoded(a) + b
  PROVE  Covered'
<1>1. a # n /\ Peer(a) = n /\ \A m \in Node : m \in {n, a}
  BY PeerFacts DEF Node, Peer
<1>i. \A m \in Node : /\ Arriving(m) \in Int /\ Decoded(m) \in Int
                      /\ Out(m) \in Int /\ ops[m] \in Int
  BY DEF Tallied
<1>j. \A m \in Node : /\ Arriving(m)' \in Int /\ Decoded(m)' \in Int
                      /\ Out(m)' \in Int /\ ops'[m] \in Int
  BY DEF Tallied
<1>2. ops'[n] >= Out(n)' + Out(a)' + Arriving(a)' + Decoded(a)'
  <2>1. ops[n] >= Out(n) + Out(a) + Arriving(a) + Decoded(a)
    BY DEF Covered
  <2> QED BY <1>i, <1>j, <2>1
<1>3. ops'[a] >= Out(a)' + Out(n)' + Arriving(n)' + Decoded(n)'
  <2>1. ops[a] >= Out(a) + Out(n) + Arriving(n) + Decoded(n)
    BY <1>1 DEF Covered
  <2> QED BY <1>i, <1>j, <2>1
<1> QED BY <1>1, <1>2, <1>3 DEF Covered

(* What an operation does to the counters.                                 *)
LEMMA ReturnTally ==
  ASSUME TypeOK, NEW n \in Node, NEW op \in {"outbound", "inbound"}, NEW r,
         Return(n, op, r)
  PROVE  /\ ops'[n] = ops[n] + (IF r = "Ok" THEN 1 ELSE 0)
         /\ ops'[Peer(n)] = ops[Peer(n)]
         /\ Decoded(n)' = 0 /\ Decoded(Peer(n))' = Decoded(Peer(n))
<1>1. pc'[n] \notin Midway /\ pc'[Peer(n)] = pc[Peer(n)]
  BY PeerFacts DEF TypeOK, Return, Midway
<1>2. /\ ops'[n] = ops[n] + (IF r = "Ok" THEN 1 ELSE 0)
      /\ ops'[Peer(n)] = ops[Peer(n)]
  BY PeerFacts DEF TypeOK, Return
<1> QED BY <1>1, <1>2 DEF Decoded, Midway

LEMMA ArrivingStays ==
  ASSUME NEW n \in Node, inbox'[n] = inbox[n]
  PROVE  Arriving(n)' = Arriving(n)
  BY DEF Arriving

LEMMA ProcessCovered ==
  ASSUME TypeOK, Tallied, Tallied', Covered, NEW n \in Node, Process(n)
  PROVE  Covered'
<1> DEFINE a == Peer(n)
<1>0. a \in Node /\ a # n
  BY PeerFacts
<1>i. /\ Arriving(n) \in Int /\ Arriving(n)' \in Int
      /\ Arriving(a) \in Int /\ Arriving(a)' \in Int
      /\ Decoded(n) \in Int /\ Decoded(n)' \in Int
      /\ Decoded(a) \in Int /\ Decoded(a)' \in Int
      /\ Out(n) \in Int /\ Out(n)' \in Int
      /\ Out(a) \in Int /\ Out(a)' \in Int
  BY <1>0 DEF Tallied
<1>o. ASSUME NEW m \in Node, output'[m] = output[m] PROVE Out(m)' = Out(m)
  BY <1>o DEF Out
<1>1. ASSUME NEW op \in {"outbound", "inbound"}, NEW r, Return(n, op, r),
             UNCHANGED <<inbox, output>>
      PROVE  Covered'
  <2>1. /\ ops'[n] >= ops[n] + 0 /\ ops'[a] >= ops[a]
        /\ Decoded(n)' = 0 /\ Decoded(a)' = Decoded(a)
    BY <1>0, <1>1, ReturnTally DEF Tallied
  <2>2. Arriving(n)' = Arriving(n) /\ Arriving(a)' = Arriving(a)
    BY <1>0, <1>1, ArrivingStays
  <2>3. /\ Arriving(n)' + Decoded(n)' + Out(n)'
             <= Arriving(n) + Decoded(n) + Out(n)
        /\ Out(n)' + Arriving(a)' + Decoded(a)'
             <= Out(n) + Arriving(a) + Decoded(a) + 0
        /\ Out(a)' = Out(a)
    <3>1. Out(n)' = Out(n) /\ Out(a)' = Out(a)
      BY <1>0, <1>1, <1>o
    <3>2. Decoded(n) >= 0
      BY <1>0 DEF Decoded
    <3> QED BY <1>i, <2>1, <2>2, <3>1, <3>2
  <2> QED BY <1>0, <2>1, <2>3, CoveredStep
<1>2. CASE OutboundReceive(n)
  <2>1. CASE \E r : Return(n, "outbound", r)
    BY <1>1, <1>2, <2>1 DEF OutboundReceive
  <2>2. CASE pc' = [pc EXCEPT ![n] = "sending"] /\ ops' = ops
    <3>1. Decoded(n)' = 0 /\ Decoded(a)' = Decoded(a)
      BY <1>0, <2>2 DEF TypeOK, Decoded
    <3>2. Arriving(n)' = Arriving(n) /\ Arriving(a)' = Arriving(a)
      BY <1>0, <1>2, ArrivingStays DEF OutboundReceive
    <3>3. output' = output
      BY <1>2 DEF OutboundReceive
    <3>5. Out(n)' = Out(n) /\ Out(a)' = Out(a) /\ Decoded(n) >= 0
      BY <1>0, <1>o, <3>3 DEF Decoded
    <3>6. ops'[n] >= ops[n] + 0 /\ ops'[a] >= ops[a]
      BY <1>0, <2>2 DEF Tallied
    <3>4. /\ Arriving(n)' + Decoded(n)' + Out(n)'
               <= Arriving(n) + Decoded(n) + Out(n)
          /\ Out(n)' + Arriving(a)' + Decoded(a)'
               <= Out(n) + Arriving(a) + Decoded(a) + 0
      BY <1>i, <3>1, <3>2, <3>5
    <3> QED BY <1>0, <3>4, <3>5, <3>6, CoveredStep
  <2> QED BY <1>2, <2>1, <2>2 DEF OutboundReceive
<1>3. CASE OutboundSend(n)
  <2>r. Return(n, "outbound", "Ok")
    BY <1>3 DEF OutboundSend
  <2>t. /\ ops'[n] = ops[n] + 1 /\ ops'[a] = ops[a]
        /\ Decoded(n)' = 0 /\ Decoded(a)' = Decoded(a)
    BY <2>r, ReturnTally
  <2>1. /\ ops'[n] >= ops[n] + 1 /\ ops'[a] >= ops[a]
        /\ Decoded(n)' = 0 /\ Decoded(a)' = Decoded(a)
    BY <1>0, <2>t DEF Tallied
  <2>2. output' = output
    BY <1>3 DEF OutboundSend
  <2>3. Arriving(n)' = Arriving(n)
    BY <1>0, <1>3, ArrivingStays DEF OutboundSend, TypeOK
  <2>4. Arriving(a)' <= Arriving(a) + 1
    <3> DEFINE d == [from |-> n, packet |-> hold[n]]
    <3>1. CASE inbox' = inbox
      BY <1>0, <3>1, ArrivingStays DEF Tallied
    <3>2. CASE inbox' = [inbox EXCEPT ![a] = Append(inbox[a], d)]
      <4>1. d \in Datagram /\ inbox[a] \in Seq(Datagram)
        BY <1>0, <1>3 DEF OutboundSend, TypeOK, Midway, Datagram, Address
      <4>2. Count(Append(inbox[a], d), FromPeer(a)) <= Count(inbox[a], FromPeer(a)) + 1
        BY <4>1, CountAppend, CountType
      <4>3. inbox'[a] = Append(inbox[a], d)
        BY <1>0, <3>2 DEF TypeOK
      <4> QED BY <4>2, <4>3 DEF Arriving
    <3> QED BY <1>3, <3>1, <3>2 DEF OutboundSend
  <2>5. /\ Arriving(n)' + Decoded(n)' + Out(n)'
             <= Arriving(n) + Decoded(n) + Out(n)
        /\ Out(n)' + Arriving(a)' + Decoded(a)'
             <= Out(n) + Arriving(a) + Decoded(a) + 1
    <3>1. Out(n)' = Out(n) /\ Decoded(n) >= 0
      BY <1>o, <2>2 DEF Decoded
    <3> QED BY <1>i, <2>1, <2>3, <2>4, <3>1
  <2>6. Out(a)' = Out(a)
    BY <1>0, <1>o, <2>2
  <2> QED BY <1>0, <2>1, <2>5, <2>6, CoveredStep
<1>4. CASE InboundReceive(n)
  <2> DEFINE d == Head(inbox[n])
  <2>1. /\ inbox[n] \in Seq(Datagram) /\ inbox[n] # <<>> /\ d \in Datagram
        /\ inbox'[n] = Tail(inbox[n]) /\ inbox'[a] = inbox[a]
        /\ output' = output
    BY <1>0, <1>4 DEF InboundReceive, TypeOK
  <2>2. Arriving(n) = Arriving(n)' + (IF d \in FromPeer(n) THEN 1 ELSE 0)
    BY <2>1, CountTail DEF Arriving
  <2>3. Arriving(a)' = Arriving(a)
    BY <1>0, <2>1, ArrivingStays
  <2>4. /\ ops'[n] >= ops[n] + 0 /\ ops'[a] >= ops[a]
        /\ Decoded(n)' <= (IF d \in FromPeer(n) THEN 1 ELSE 0)
        /\ Decoded(a)' = Decoded(a)
    <3>1. ASSUME NEW r, Return(n, "inbound", r)
          PROVE  /\ ops'[n] >= ops[n] + 0 /\ ops'[a] >= ops[a]
                 /\ Decoded(n)' = 0 /\ Decoded(a)' = Decoded(a)
      BY <1>0, <3>1, ReturnTally DEF Tallied
    <3>2. ASSUME d.from = Peer(n), pc' = [pc EXCEPT ![n] = "writing"], ops' = ops
          PROVE  /\ ops'[n] >= ops[n] + 0 /\ ops'[a] >= ops[a]
                 /\ Decoded(n)' <= (IF d \in FromPeer(n) THEN 1 ELSE 0)
                 /\ Decoded(a)' = Decoded(a)
      <4>1. ops'[n] >= ops[n] + 0 /\ ops'[a] >= ops[a]
        BY <1>0, <3>2 DEF Tallied
      <4>2. pc'[n] = "writing" /\ pc'[a] = pc[a] /\ d \in FromPeer(n)
        BY <1>0, <2>1, <3>2 DEF FromPeer, TypeOK
      <4> QED BY <4>1, <4>2 DEF Decoded
    <3> QED BY <1>4, <3>1, <3>2 DEF InboundReceive
  <2> HIDE DEF d
  <2>5. /\ Arriving(n)' + Decoded(n)' + Out(n)'
             <= Arriving(n) + Decoded(n) + Out(n)
        /\ Out(n)' + Arriving(a)' + Decoded(a)'
             <= Out(n) + Arriving(a) + Decoded(a) + 0
    <3>1. Out(n)' = Out(n) /\ Decoded(n) >= 0
      BY <1>o, <2>1 DEF Decoded
    <3> QED BY <1>i, <2>2, <2>3, <2>4, <3>1
  <2>6. Out(a)' = Out(a)
    BY <1>0, <1>o, <2>1
  <2> QED BY <1>0, <2>4, <2>5, <2>6, CoveredStep
<1>5. CASE InboundWrite(n)
  <2>1. /\ ops'[n] >= ops[n] + 1 /\ ops'[a] >= ops[a]
        /\ Decoded(n)' = 0 /\ Decoded(a)' = Decoded(a)
    BY <1>0, <1>5, ReturnTally DEF InboundWrite, Tallied
  <2>2. Decoded(n) = 1
    BY <1>5 DEF InboundWrite, Decoded
  <2>3. Out(n)' = Out(n) + 1 /\ Out(a)' = Out(a)
    <3>1. /\ output'[n] = Append(output[n], hold[n]) /\ output'[a] = output[a]
          /\ output[n] \in Seq(Packets) /\ hold[n] \in Packets
      BY <1>0, <1>5 DEF InboundWrite, TypeOK, Midway
    <3> QED BY <1>0, <1>o, <3>1, AppendProperties DEF Out
  <2>4. Arriving(n)' = Arriving(n) /\ Arriving(a)' = Arriving(a)
    BY <1>0, <1>5, ArrivingStays DEF InboundWrite
  <2>5. /\ Arriving(n)' + Decoded(n)' + Out(n)'
             <= Arriving(n) + Decoded(n) + Out(n)
        /\ Out(n)' + Arriving(a)' + Decoded(a)'
             <= Out(n) + Arriving(a) + Decoded(a) + 1
    BY <1>i, <2>1, <2>2, <2>3, <2>4
  <2> QED BY <1>0, <2>1, <2>3, <2>5, CoveredStep
<1>6. CASE OutboundIdle(n) \/ OutboundSendFails(n)
  BY <1>1, <1>6 DEF OutboundIdle, OutboundSendFails
<1>7. CASE InboundIdle(n) \/ InboundWriteFails(n)
  BY <1>1, <1>7 DEF InboundIdle, InboundWriteFails
<1>8. CASE ReceiveFails(n)
  BY <1>1, <1>8 DEF ReceiveFails
<1> QED BY <1>2, <1>3, <1>4, <1>5, <1>6, <1>7, <1>8 DEF Process

(* What leaves the counters and the outputs alone, and adds no traffic.    *)
LEMMA FewerCovered ==
  ASSUME Tallied, Tallied', Covered, ops' = ops, output' = output,
         \A m \in Node : /\ Arriving(m)' <= Arriving(m)
                         /\ Decoded(m)' <= Decoded(m)
  PROVE  Covered'
<1> SUFFICES ASSUME NEW n \in Node
             PROVE  ops'[n] >= Out(n)' + Out(Peer(n))'
                               + Arriving(Peer(n))' + Decoded(Peer(n))'
  BY DEF Covered
<1> DEFINE a == Peer(n)
<1>1. a \in Node
  BY PeerFacts
<1>2. Out(n)' = Out(n) /\ Out(a)' = Out(a) /\ ops'[n] = ops[n]
  BY DEF Out
<1>3. ops[n] >= Out(n) + Out(a) + Arriving(a) + Decoded(a)
  BY DEF Covered
<1>4. /\ ops[n] \in Int /\ Out(n) \in Int /\ Out(a) \in Int
      /\ Arriving(a) \in Int /\ Arriving(a)' \in Int
      /\ Decoded(a) \in Int /\ Decoded(a)' \in Int
  BY <1>1 DEF Tallied
<1>5. Arriving(a)' <= Arriving(a) /\ Decoded(a)' <= Decoded(a)
  BY <1>1
<1> HIDE DEF a
<1>6. ops'[n] >= Out(n)' + Out(a)' + Arriving(a)' + Decoded(a)'
  BY <1>2, <1>3, <1>4, <1>5
<1> QED BY <1>6 DEF a

LEMMA SurroundingsCovered ==
  ASSUME TypeOK, Tallied, Tallied', Covered, NEW n \in Node, Surroundings(n),
         "duplicate" \notin NetFaults, restarts' = 0
  PROVE  Covered'
<1>1. ASSUME NEW s \in Seq(Datagram), inbox' = [inbox EXCEPT ![n] = s],
             Count(s, FromPeer(n)) <= Count(inbox[n], FromPeer(n))
      PROVE  \A m \in Node : Arriving(m)' <= Arriving(m)
  <2> SUFFICES ASSUME NEW m \in Node PROVE Arriving(m)' <= Arriving(m)
    OBVIOUS
  <2>1. CASE m = n
    BY <1>1, <2>1 DEF TypeOK, Arriving
  <2>2. CASE m # n
    <3>1. inbox'[m] = inbox[m]
      BY <1>1, <2>2 DEF TypeOK
    <3> QED BY <3>1, ArrivingStays DEF Tallied
  <2> QED BY <2>1, <2>2
<1>2. ASSUME inbox' = inbox
      PROVE  \A m \in Node : Arriving(m)' <= Arriving(m)
  BY <1>2, ArrivingStays DEF Tallied
<1>3. ASSUME pc' = pc
      PROVE  \A m \in Node : Decoded(m)' <= Decoded(m)
  BY <1>3 DEF Decoded
<1>t. inbox[n] \in Seq(Datagram)
  BY DEF TypeOK
<1>4. ASSUME NEW p \in Offers[n], Offer(n, p) PROVE Covered'
  BY <1>2, <1>3, <1>4, FewerCovered DEF Offer
<1>5. ASSUME NEW p \in Replayed[n], Stranger(n, p) PROVE Covered'
  <2> DEFINE d == [from |-> "stranger", packet |-> p]
  <2>1. d \in Datagram /\ d \notin FromPeer(n)
    BY OffersAssumption DEF Datagram, Address, FromPeer, Peer
  <2>2. Append(inbox[n], d) \in Seq(Datagram)
    BY <1>t, <2>1
  <2>3. Count(Append(inbox[n], d), FromPeer(n)) <= Count(inbox[n], FromPeer(n))
    BY <1>t, <2>1, CountAppend, CountType
  <2>4. inbox' = [inbox EXCEPT ![n] = Append(inbox[n], d)]
    BY <1>5 DEF Stranger
  <2>5. \A m \in Node : Arriving(m)' <= Arriving(m)
    BY <1>1, <2>2, <2>3, <2>4
  <2> QED BY <1>3, <1>5, <2>5, FewerCovered DEF Stranger
<1>6. CASE Lose(n)
  <2>1. PICK i \in 1..Len(inbox[n]) :
           inbox' = [inbox EXCEPT ![n] = RemoveAt(inbox[n], i)]
    BY <1>6 DEF Lose
  <2> DEFINE s == RemoveAt(inbox[n], i)
  <2>2. s \in Seq(Datagram)
    BY <1>t, RemoveAtProperties
  <2>3. /\ Count(inbox[n], FromPeer(n))
             = Count(s, FromPeer(n)) + (IF inbox[n][i] \in FromPeer(n) THEN 1 ELSE 0)
        /\ Count(s, FromPeer(n)) \in Nat
    BY <1>t, <2>2, CountRemoveAt, CountType
  <2>4. Count(s, FromPeer(n)) <= Count(inbox[n], FromPeer(n))
    BY <2>3
  <2> HIDE DEF s
  <2>5. \A m \in Node : Arriving(m)' <= Arriving(m)
    BY <1>1, <2>1, <2>2, <2>4 DEF s
  <2> QED BY <1>3, <1>6, <2>5, FewerCovered DEF Lose
<1>7. CASE Duplicate(n)
  BY <1>7 DEF Duplicate, Fault
<1>8. CASE Reorder(n)
  <2>1. PICK i \in 1..Len(inbox[n]) :
           inbox' = [inbox EXCEPT ![n] =
                       Append(RemoveAt(inbox[n], i), inbox[n][i])]
    BY <1>8 DEF Reorder
  <2> DEFINE s == RemoveAt(inbox[n], i)
             d == inbox[n][i]
  <2>2. s \in Seq(Datagram) /\ d \in Datagram
    BY <1>t, RemoveAtProperties
  <2>3. Append(s, d) \in Seq(Datagram)
    BY <2>2
  <2>4. /\ Count(inbox[n], FromPeer(n))
             = Count(s, FromPeer(n)) + (IF d \in FromPeer(n) THEN 1 ELSE 0)
        /\ Count(Append(s, d), FromPeer(n))
             = Count(s, FromPeer(n)) + (IF d \in FromPeer(n) THEN 1 ELSE 0)
        /\ Count(Append(s, d), FromPeer(n)) \in Nat
    BY <1>t, <2>2, <2>3, CountRemoveAt, CountAppend, CountType
  <2>5. Count(Append(s, d), FromPeer(n)) <= Count(inbox[n], FromPeer(n))
    BY <2>4
  <2> HIDE DEF s, d
  <2>6. \A m \in Node : Arriving(m)' <= Arriving(m)
    BY <1>1, <2>1, <2>3, <2>5 DEF s, d
  <2> QED BY <1>3, <1>8, <2>6, FewerCovered DEF Reorder
<1>9. CASE Kill(n)
  <2>1. \A m \in Node : pc'[m] = "writing" => pc[m] = "writing"
    BY <1>9 DEF Kill, TypeOK
  <2>2. \A m \in Node : Decoded(m)' <= Decoded(m)
    BY <2>1 DEF Decoded
  <2> QED BY <1>2, <1>9, <2>2, FewerCovered DEF Kill
<1>10. CASE Restart(n)
  BY <1>10 DEF Restart, TypeOK
<1> QED BY <1>4, <1>5, <1>6, <1>7, <1>8, <1>9, <1>10 DEF Surroundings

(* The operation counters never fall behind the traffic: as long as the    *)
(* link duplicates nothing and no process was restarted, what a node wrote *)
(* and what its peer wrote, or still may, was counted by the node.  The    *)
(* conjunct about restarts makes the invariant inductive: a restart, which *)
(* forgets the counter, leaves it true for ever.                           *)
THEOREM CountersCoverTraffic == Spec => []SuccessesCoverTraffic
<1> DEFINE Inv == "duplicate" \notin NetFaults /\ restarts = 0 => Covered
<1>1. Init => Inv
  <2> SUFFICES ASSUME Init PROVE Covered
    OBVIOUS
  <2>1. \A m \in Node : /\ ops[m] = 0 /\ Out(m) = 0
                        /\ Arriving(m) = 0 /\ Decoded(m) = 0
    <3> SUFFICES ASSUME NEW m \in Node
                 PROVE  /\ ops[m] = 0 /\ Out(m) = 0
                        /\ Arriving(m) = 0 /\ Decoded(m) = 0
      OBVIOUS
    <3>1. inbox[m] = <<>> /\ output[m] = <<>> /\ ops[m] = 0
          /\ pc[m] # "writing"
      BY DEF Init, FirstPc
    <3> QED BY <3>1, CountEmpty DEF Out, Arriving, Decoded
  <2> QED BY <2>1, PeerFacts DEF Covered
<1>2. TypeOK /\ TypeOK' /\ Inv /\ [Next]_vars => Inv'
  <2> SUFFICES ASSUME TypeOK, TypeOK', Inv, [Next]_vars,
                      "duplicate" \notin NetFaults, restarts' = 0
               PROVE  Covered'
    OBVIOUS
  <2>1. Tallied /\ Tallied'
    BY TypesTallied, PTL
  <2>2. restarts = 0
    <3>1. ASSUME NEW n \in Node, Process(n) PROVE restarts' = restarts
      BY <3>1 DEF Process, OutboundReceive, OutboundIdle, OutboundSend,
                  OutboundSendFails, InboundReceive, InboundIdle,
                  InboundWrite, InboundWriteFails, ReceiveFails
    <3>2. ASSUME NEW n \in Node, Surroundings(n)
          PROVE  restarts' \in {restarts, restarts + 1}
      BY <3>2 DEF Surroundings, Offer, Stranger, Lose, Duplicate, Reorder,
                  Kill, Restart
    <3>3. restarts' \in {restarts, restarts + 1}
      BY <3>1, <3>2 DEF Next, vars
    <3> QED BY <3>3 DEF TypeOK
  <2>3. Covered
    BY <2>2
  <2>4. CASE UNCHANGED vars
    BY <2>3, <2>4 DEF vars, Covered, Out, Arriving, Decoded
  <2>5. ASSUME NEW n \in Node, Process(n) \/ Surroundings(n) PROVE Covered'
    BY <2>1, <2>3, <2>5, ProcessCovered, SurroundingsCovered
  <2> QED BY <2>4, <2>5 DEF Next
<1>3. TypeOK /\ Inv => SuccessesCoverTraffic
  <2> SUFFICES ASSUME TypeOK, Covered, NEW n \in Node
               PROVE  ops[n] >= Len(output[n])
                        + Len(output[Peer(n)])
                        + Cardinality(FramesFromPeer(Peer(n)))
                        + (IF pc[Peer(n)] = "writing" THEN 1 ELSE 0)
    BY DEF SuccessesCoverTraffic
  <2>1. Tallied
    BY TypesTallied
  <2> QED BY <2>1, PeerFacts DEF Covered, Tallied, Out, Decoded
<1> QED BY <1>1, <1>2, <1>3, TypeCorrect, PTL DEF Spec
=============================================================================
