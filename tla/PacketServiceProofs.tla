------------------------ MODULE PacketServiceProofs ------------------------
(***************************************************************************)
(* What follows from the packet service alone, whatever implements it: a   *)
(* packet that is written was offered on the other side and, if nothing    *)
(* duplicates copies, is written once.                                     *)
(***************************************************************************)
EXTENDS PacketService, SequenceTheorems, TLAPS

GivenOn(s) == {given[s][i] : i \in 1..Len(given[s])}
WrittenOn(s) == {written[s][i] : i \in 1..Len(written[s])}

(* The other side of the other side is the side one started from.          *)
Opposite == \A s \in Side : Other(s) \in Side /\ Other(Other(s)) = s

TypeOK ==
  /\ given \in [Side -> Seq(Packets)]
  /\ transit \in [Side -> [Packets -> Nat]]
  /\ written \in [Side -> Seq(Packets)]

(* What is on its way to a side, or written there, was offered on the      *)
(* opposite one.                                                           *)
Offered ==
  \A s \in Side :
     /\ \A p \in Packets : transit[s][p] > 0 => p \in GivenOn(Other(s))
     /\ WrittenOn(s) \subseteq GivenOn(Other(s))

(* Without duplication a packet has one copy at most, and none once it is  *)
(* written.                                                                *)
OneCopy ==
  ~MayDuplicate =>
    \A s \in Side : \A p \in Packets :
       /\ transit[s][p] <= 1
       /\ p \in WrittenOn(s) => transit[s][p] = 0

(* Without duplication no packet is written twice.                         *)
WrittenOnce ==
  ~MayDuplicate => \A s \in Side : IsInjective(written[s])

Inv == TypeOK /\ Offered /\ OneCopy /\ WrittenOnce

-----------------------------------------------------------------------------
(* Appending adds one element to those a sequence holds.                   *)
LEMMA ElementsOfAppend ==
  ASSUME NEW S, NEW q \in Seq(S), NEW e \in S
  PROVE  /\ {Append(q, e)[i] : i \in 1..Len(Append(q, e))}
              = {q[i] : i \in 1..Len(q)} \cup {e}
         /\ IsInjective(q) /\ e \notin {q[i] : i \in 1..Len(q)}
              => IsInjective(Append(q, e))
<1>1. /\ Append(q, e) \in Seq(S)
      /\ Len(Append(q, e)) = Len(q) + 1 /\ Len(q) \in Nat
      /\ \A i \in 1..Len(q) : Append(q, e)[i] = q[i]
      /\ Append(q, e)[Len(q) + 1] = e
  BY AppendProperties, LenProperties
<1>2. DOMAIN q = 1..Len(q) /\ DOMAIN Append(q, e) = 1..(Len(q) + 1)
  BY <1>1, LenProperties
<1> DEFINE a == Append(q, e)
<1> HIDE DEF a
<1>3. {a[i] : i \in 1..(Len(q) + 1)} = {q[i] : i \in 1..Len(q)} \cup {e}
  BY <1>1 DEF a
<1>4. ASSUME IsInjective(q), e \notin {q[i] : i \in 1..Len(q)}
      PROVE  IsInjective(a)
  BY <1>1, <1>2, <1>4 DEF IsInjective, a
<1> QED BY <1>1, <1>3, <1>4 DEF a

LEMMA InvInit ==
  ASSUME Opposite
  PROVE  Init => Inv
<1> SUFFICES ASSUME Init PROVE Inv
  OBVIOUS
<1>1. TypeOK
  BY DEF Init, TypeOK
<1>2. \A s \in Side : WrittenOn(s) = {} /\ \A p \in Packets : transit[s][p] = 0
  <2>1. \A s \in Side : written[s] = <<>>
    BY DEF Init
  <2>2. \A s \in Side : WrittenOn(s) = {}
    <3>1. 1..Len(<<>>) = {}
      OBVIOUS
    <3> QED BY <2>1, <3>1 DEF WrittenOn
  <2> QED BY <2>2 DEF Init
<1>3. \A s \in Side : IsInjective(written[s])
  BY DEF Init, IsInjective
<1> QED BY <1>1, <1>2, <1>3 DEF Inv, Offered, OneCopy, WrittenOnce

LEMMA InvOffer ==
  ASSUME Opposite, Inv, NEW s \in Side, NEW p \in Packets, Offer(s, p)
  PROVE  Inv'
<1>1. /\ given' = [given EXCEPT ![s] = Append(given[s], p)]
      /\ transit' = [transit EXCEPT ![Other(s)][p] = transit[Other(s)][p] + 1]
      /\ written' = written
      /\ Other(s) \in Side /\ Other(Other(s)) = s
  BY DEF Offer, Opposite
<1>2. TypeOK'
  BY <1>1 DEF Inv, TypeOK
<1>3. /\ GivenOn(s)' = GivenOn(s) \cup {p}
      /\ \A r \in Side \ {s} : GivenOn(r)' = GivenOn(r)
  <2>1. given[s] \in Seq(Packets) /\ given'[s] = Append(given[s], p)
    BY <1>1 DEF Inv, TypeOK
  <2>2. \A r \in Side \ {s} : given'[r] = given[r]
    BY <1>1 DEF Inv, TypeOK
  <2>3. GivenOn(s)' = GivenOn(s) \cup {p}
    BY <2>1, ElementsOfAppend DEF GivenOn
  <2> QED BY <2>2, <2>3 DEF GivenOn
<1>4. \A r \in Side : WrittenOn(r)' = WrittenOn(r)
  BY <1>1 DEF WrittenOn
<1>5. \A r \in Side : p \notin GivenOn(r)
  BY DEF Offer, NeverOffered, GivenOn
<1>6. transit[Other(s)][p] = 0 /\ p \notin WrittenOn(Other(s))
  BY <1>1, <1>5 DEF Inv, Offered, TypeOK
<1>7. \A r \in Side : \A q \in Packets :
         transit'[r][q] = IF r = Other(s) /\ q = p THEN 1 ELSE transit[r][q]
  BY <1>1, <1>6 DEF Inv, TypeOK
<1>8. \A r \in Side : Other(r) \in Side /\ (r # Other(s) => Other(r) # s)
  BY DEF Opposite
<1>9. Offered'
  BY <1>1, <1>3, <1>4, <1>7, <1>8 DEF Inv, Offered
<1>10. OneCopy'
  BY <1>4, <1>6, <1>7 DEF Inv, OneCopy
<1>11. WrittenOnce'
  BY <1>1 DEF Inv, WrittenOnce
<1> QED BY <1>2, <1>9, <1>10, <1>11 DEF Inv

LEMMA InvLose ==
  ASSUME Inv, Lose
  PROVE  Inv'
<1>1. \A s \in Side : \A p \in Packets :
         /\ transit'[s][p] <= transit[s][p]
         /\ transit[s][p] \in Nat /\ transit'[s][p] \in Nat
  BY DEF Lose, Inv, TypeOK
<1>2. \A s \in Side : GivenOn(s)' = GivenOn(s) /\ WrittenOn(s)' = WrittenOn(s)
  BY DEF Lose, GivenOn, WrittenOn
<1>3. TypeOK' /\ WrittenOnce'
  BY DEF Lose, Inv, TypeOK, WrittenOnce
<1>4. Offered'
  BY <1>1, <1>2 DEF Lose, Inv, Offered, GivenOn
<1>5. OneCopy'
  BY <1>1, <1>2 DEF Inv, OneCopy
<1> QED BY <1>3, <1>4, <1>5 DEF Inv

(* A second copy of what is already on its way.                            *)
LEMMA InvDuplicate ==
  ASSUME Inv, NEW s \in Side, NEW p \in Packets, Duplicate(s, p)
  PROVE  Inv'
<1>1. \A r \in Side : \A q \in Packets :
         /\ transit[r][q] \in Nat
         /\ transit'[r][q] = IF r = s /\ q = p THEN transit[r][q] + 1
                             ELSE transit[r][q]
  BY DEF Duplicate, Inv, TypeOK
<1>2. \A r \in Side : GivenOn(r)' = GivenOn(r) /\ WrittenOn(r)' = WrittenOn(r)
  BY DEF Duplicate, GivenOn, WrittenOn
<1>3. TypeOK'
  BY DEF Duplicate, Inv, TypeOK
<1>4. Offered'
  <2>1. transit[s][p] > 0
    BY DEF Duplicate
  <2>2. \A r \in Side : GivenOn(Other(r))' = GivenOn(Other(r))
    BY DEF Duplicate, GivenOn
  <2> QED BY <1>1, <1>2, <2>1, <2>2 DEF Inv, Offered
<1>5. OneCopy' /\ WrittenOnce'
  BY DEF Duplicate, OneCopy, WrittenOnce
<1> QED BY <1>3, <1>4, <1>5 DEF Inv

LEMMA InvWrite ==
  ASSUME Inv, NEW s \in Side, NEW p \in Packets, Write(s, p)
  PROVE  Inv'
<1>1. /\ transit[s][p] > 0 /\ given' = given
      /\ written[s] \in Seq(Packets)
      /\ written'[s] = Append(written[s], p)
      /\ \A r \in Side \ {s} : written'[r] = written[r]
      /\ \A r \in Side : \A q \in Packets :
            /\ transit[r][q] \in Nat
            /\ transit'[r][q] = IF r = s /\ q = p THEN transit[r][q] - 1
                                ELSE transit[r][q]
  BY DEF Write, Inv, TypeOK
<1>2. TypeOK'
  BY <1>1 DEF Write, Inv, TypeOK
<1>3. /\ WrittenOn(s)' = WrittenOn(s) \cup {p}
      /\ \A r \in Side \ {s} : WrittenOn(r)' = WrittenOn(r)
  <2>1. WrittenOn(s)' = WrittenOn(s) \cup {p}
    BY <1>1, ElementsOfAppend DEF WrittenOn
  <2> QED BY <1>1, <2>1 DEF WrittenOn
<1>4. Offered'
  <2>1. \A r \in Side : GivenOn(Other(r))' = GivenOn(Other(r))
    BY <1>1 DEF GivenOn
  <2> QED BY <1>1, <1>3, <2>1 DEF Inv, Offered
<1>5. ASSUME ~MayDuplicate
      PROVE  /\ transit[s][p] = 1 /\ p \notin WrittenOn(s)
             /\ transit'[s][p] = 0
  BY <1>1, <1>5 DEF Inv, OneCopy
<1>6. OneCopy'
  BY <1>1, <1>3, <1>5 DEF Inv, OneCopy
<1>7. WrittenOnce'
  <2> SUFFICES ASSUME ~MayDuplicate, NEW r \in Side
               PROVE  IsInjective(written'[r])
    BY DEF WrittenOnce
  <2>1. CASE r = s
    <3>1. IsInjective(written[s])
      BY DEF Inv, WrittenOnce
    <3>2. p \notin {written[s][i] : i \in 1..Len(written[s])}
      BY <1>5 DEF WrittenOn
    <3>3. IsInjective(Append(written[s], p))
      BY <1>1, <3>1, <3>2, ElementsOfAppend
    <3> QED BY <1>1, <2>1, <3>3
  <2>2. CASE r # s
    BY <1>1, <2>2 DEF Inv, WrittenOnce
  <2> QED BY <2>1, <2>2
<1> QED BY <1>2, <1>4, <1>6, <1>7 DEF Inv

(* The packet service writes only what was offered on the opposite side,   *)
(* and writes it once unless it duplicates.                                *)
THEOREM ServiceInvariant ==
  ASSUME Opposite
  PROVE  Spec => []Inv
<1>1. Init => Inv
  BY InvInit
<1>2. Inv /\ [Next]_vars => Inv'
  <2>1. ASSUME Inv, UNCHANGED vars PROVE Inv'
    <3>1. given' = given /\ transit' = transit /\ written' = written
      BY <2>1 DEF vars
    <3>2. TypeOK' /\ WrittenOnce'
      BY <2>1, <3>1 DEF Inv, TypeOK, WrittenOnce
    <3>3. \A s \in Side : /\ GivenOn(Other(s))' = GivenOn(Other(s))
                          /\ WrittenOn(s)' = WrittenOn(s)
      BY <3>1 DEF GivenOn, WrittenOn
    <3>4. Offered' /\ OneCopy'
      BY <2>1, <3>1, <3>3 DEF Inv, Offered, OneCopy
    <3> QED BY <3>2, <3>4 DEF Inv
  <2> QED BY <2>1, InvOffer, InvLose, InvDuplicate, InvWrite DEF Next
<1> QED BY <1>1, <1>2, PTL DEF Spec
=============================================================================
