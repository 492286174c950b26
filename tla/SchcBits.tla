------------------------------ MODULE SchcBits ------------------------------
(***************************************************************************)
(* Bit strings, most significant bit first, as the bit reader, the bit     *)
(* writer and field values see them, and the outcome of a fallible step.   *)
(***************************************************************************)
EXTENDS Naturals, FiniteSets, SequencesExt

Bit == {0, 1}
Bits == Seq(Bit)

(* The number a bit string denotes, and the n-bit string that denotes v.   *)
Number(s) ==
  LET n[i \in 0..Len(s)] == IF i = 0 THEN 0 ELSE 2 * n[i - 1] + s[i]
  IN n[Len(s)]

BitsOf(v, n) == [i \in 1..n |-> (v \div 2^(n - i)) % 2]

Zeros(n) == [i \in 1..n |-> 0]

Bytes(n) == (n + 7) \div 8

(* What follows position pos, and the n bits that follow it.               *)
From(s, pos) == SubSeq(s, pos + 1, Len(s))
Slice(s, pos, n) == SubSeq(s, pos + 1, pos + n)

(* Result<T>: a value, or the error that ends the step.                    *)
Ok(v) == [ok |-> TRUE, value |-> v]
Err(e) == [ok |-> FALSE, error |-> e]

(* The ? of the code: go on with the value, or end with the error.         *)
Then(result, Step(_)) == IF result.ok THEN Step(result.value) ELSE result

(* read_bits and read_bytes_padded: the next n of the readable bits and    *)
(* the reader position after them.                                         *)
(*                                                                         *)
(* Mutant: missing bits are read as zeros.                                 *)
ReadPadded(bits, pos, n) ==
  Ok([bits |-> Slice(bits \o Zeros(n), pos, n), pos |-> pos + n])

Read(bits, pos, n) ==
  IF n > Len(bits) - pos
  THEN Err("BitOutOfBounds")
  ELSE Ok([bits |-> Slice(bits, pos, n), pos |-> pos + n])
=============================================================================
