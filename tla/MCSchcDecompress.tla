-------------------------- MODULE MCSchcDecompress --------------------------
(***************************************************************************)
(* Instances of SchcDecompress.                                            *)
(***************************************************************************)
EXTENDS SchcDecompress, MCRules

(* Two rules under every pair of short IDs that the loader accepts.        *)
ShortIds == {[value |-> v, len |-> n] : v \in 0..3, n \in 1..2}

IdPairs ==
  {rs \in {<<Wrap(a.value, a.len), Directed(b.value, b.len, "up")>> :
             a \in ShortIds, b \in ShortIds} : Loads(rs)}

MixedRuleSets ==
  {<<HeaderOnly(0, 2), WithPayload(1, 2), Wrap(5, 3)>>,
   <<Wrap(0, 1), AnyPorts(2, 2), WithPayload(3, 2)>>,
   <<Fragment(7, 3), Directed(0, 1, "up"), Directed(2, 2, "down")>>,
   <<CoapFirst(0, 1), EchoCarried(2, 2), ErrorCarried(6, 3)>>}
  \cup IdPairs

(* Datagrams: every three bits that select a rule, a first residue bit     *)
(* pattern, and bodies that end in many zeros, in one, or in none; what    *)
(* residues ask for and a byte more or less, and none at all.              *)
Repeated(n, byte) == [i \in 1..(8 * n) |-> byte[((i - 1) % 8) + 1]]

Bodies ==
  {BitsOf(top, 3) \o BitsOf(fill, 5) \o Repeated(n, Byte(fill)) :
     top \in 0..7, fill \in {0, 20, 31}, n \in {0, 1, 2, 3, 5, 8}}

Arrivals ==
  Bodies \cup {b \o Zeros(8) : b \in Bodies} \cup OddPackets
=============================================================================
