---------------------------- MODULE PacketService ----------------------------
(***************************************************************************)
(* What the pair of nodes promises to the applications on both sides: an   *)
(* unreliable, unordered packet service.  A packet offered on one side     *)
(* becomes one copy in transit to the other; a copy in transit may be      *)
(* lost, may be duplicated if the link duplicates, or is written once.     *)
(* Nothing else is ever written.                                           *)
(***************************************************************************)
EXTENDS Naturals, Sequences

CONSTANTS
  Side,          \* the two sides of the service
  Packets,       \* packets that may be offered
  Other(_),      \* the side opposite to a side
  MayDuplicate   \* whether a copy in transit may be duplicated

VARIABLES
  given,    \* given[s]: packets offered on side s, in order
  transit,  \* transit[s][p]: copies of p on their way to side s
  written   \* written[s]: packets written on side s, in order

vars == <<given, transit, written>>

Init ==
  /\ given = [s \in Side |-> <<>>]
  /\ transit = [s \in Side |-> [p \in Packets |-> 0]]
  /\ written = [s \in Side |-> <<>>]

NeverOffered(p) ==
  \A s \in Side : \A i \in 1..Len(given[s]) : given[s][i] # p

Offer(s, p) ==
  /\ NeverOffered(p)
  /\ given' = [given EXCEPT ![s] = Append(@, p)]
  /\ transit' = [transit EXCEPT ![Other(s)][p] = @ + 1]
  /\ UNCHANGED written

(* Any copies may be lost at once: a full queue loses one, a process that  *)
(* stops loses all that wait for it on both sides.                         *)
Lose ==
  /\ transit' \in [Side -> [Packets -> Nat]]
  /\ \A s \in Side : \A p \in Packets : transit'[s][p] <= transit[s][p]
  /\ UNCHANGED <<given, written>>

Duplicate(s, p) ==
  /\ MayDuplicate
  /\ transit[s][p] > 0
  /\ transit' = [transit EXCEPT ![s][p] = @ + 1]
  /\ UNCHANGED <<given, written>>

Write(s, p) ==
  /\ transit[s][p] > 0
  /\ transit' = [transit EXCEPT ![s][p] = @ - 1]
  /\ written' = [written EXCEPT ![s] = Append(@, p)]
  /\ UNCHANGED given

Next ==
  \/ Lose
  \/ \E s \in Side : \E p \in Packets :
       Offer(s, p) \/ Duplicate(s, p) \/ Write(s, p)

Spec == Init /\ [][Next]_vars
=============================================================================
