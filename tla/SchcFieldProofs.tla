-------------------------- MODULE SchcFieldProofs ---------------------------
(***************************************************************************)
(* Lemmas about bit strings, rule IDs and the field codec: what the        *)
(* operators of SchcBits, SchcRule and SchcField return, preserve and      *)
(* bound, for bit strings of every length.  Proofs by induction apply a    *)
(* set of naturals closed under successor, as no theorem here may take an  *)
(* operator as a parameter.                                                *)
(***************************************************************************)
EXTENDS SchcField, Integers, SequenceTheorems, FiniteSetTheorems,
        WellFoundedInduction, TLAPS

(* Every nonempty set of naturals has a least element: what a proof by     *)
(* induction on a bound needs.                                             *)
LEMMA LeastElement ==
  ASSUME NEW T, T \subseteq Nat, T # {}
  PROVE  \E x \in T : \A y \in T : x <= y
<1> DEFINE R == StrictSubsetOrdering(Nat)
           I == {1..x : x \in T}
<1>1. IsWellFoundedOn(R, FiniteSubsetsOf(Nat))
  BY FS_StrictSubsetOrderingWellFounded
<1>2. I \subseteq FiniteSubsetsOf(Nat) /\ I # {}
  <2>1. ASSUME NEW x \in T PROVE 1..x \in SUBSET Nat /\ IsFiniteSet(1..x)
    BY FS_Interval
  <2> QED BY <2>1 DEF FiniteSubsetsOf
<1> HIDE DEF R
<1>3. \E i \in I : \A j \in I : ~ (<<j, i>> \in R)
  BY <1>1, <1>2, WFMin
<1>4. PICK x \in T : \A j \in I : <<j, 1..x>> \notin R
  BY <1>3
<1>5. ASSUME NEW y \in T, y < x PROVE FALSE
  <2>1. <<1..y, 1..x>> \notin R
    BY <1>4
  <2>2. ~ (1..y \subseteq 1..x /\ 1..y # 1..x)
    BY <2>1 DEF R, StrictSubsetOrdering
  <2>3. x \in 1..x /\ x \notin 1..y /\ 1..y \subseteq 1..x
    BY <1>5
  <2> QED BY <2>2, <2>3
<1> QED BY <1>5

(* Min picks an element of the set.                                        *)
LEMMA MinMember ==
  ASSUME NEW S, S \subseteq Nat, S # {}
  PROVE  Min(S) \in S
BY LeastElement DEF Min

LEMMA SetInduction ==
  ASSUME NEW S, 0 \in S, \A n \in Nat : n \in S => n + 1 \in S
  PROVE  Nat \subseteq S
<1> DEFINE T == Nat \ S
<1> SUFFICES ASSUME T # {} PROVE FALSE
  OBVIOUS
<1>1. PICK n \in T : \A m \in T : n <= m
  BY LeastElement
<1>2. n # 0 /\ n - 1 \in Nat /\ n - 1 \notin T
  BY <1>1
<1> QED BY <1>1, <1>2

-----------------------------------------------------------------------------
(* Powers of two.                                                          *)

(* The subsets of 0..n are those of 0..(n - 1), without n and with it.     *)
LEMMA PowerNext ==
  ASSUME NEW n \in Nat
  PROVE  2^(n + 1) = 2 * 2^n /\ 2^n \in Nat /\ 2^(n + 1) \in Nat
<1> DEFINE A == 1..n
           B == 1..(n + 1)
           P == SUBSET A
           Q == {X \cup {n + 1} : X \in P}
           f == [X \in P |-> X \cup {n + 1}]
<1>1. /\ IsFiniteSet(A) /\ Cardinality(A) = n
      /\ IsFiniteSet(B) /\ Cardinality(B) = n + 1
  BY FS_Interval
<1>2. /\ IsFiniteSet(P) /\ Cardinality(P) = 2^n
      /\ IsFiniteSet(SUBSET B) /\ Cardinality(SUBSET B) = 2^(n + 1)
  BY <1>1, FS_SUBSET
<1>3. f \in Bijection(P, Q)
  <2>1. f \in [P -> Q] /\ \A Y \in Q : \E X \in P : f[X] = Y
    OBVIOUS
  <2>2. ASSUME NEW X \in P, NEW Y \in P, f[X] = f[Y] PROVE X = Y
    <3>1. X \cup {n + 1} = Y \cup {n + 1} /\ n + 1 \notin A
      BY <2>2
    <3> QED BY <3>1
  <2> QED BY <2>1, <2>2 DEF Bijection, Injection, Surjection, IsInjective
<1>4. IsFiniteSet(Q) /\ Cardinality(Q) = 2^n
  BY <1>2, <1>3, FS_Bijection DEF ExistsBijection
<1>5. SUBSET B = P \cup Q /\ P \cap Q = {}
  <2>1. ASSUME NEW X \in SUBSET B PROVE X \in P \cup Q
    <3>1. CASE n + 1 \notin X
      BY <3>1
    <3>2. CASE n + 1 \in X
      <4>1. X = (X \ {n + 1}) \cup {n + 1} /\ X \ {n + 1} \in P
        BY <3>2
      <4> QED BY <4>1
    <3> QED BY <3>1, <3>2
  <2>2. P \cup Q \subseteq SUBSET B
    <3>1. A \subseteq B /\ n + 1 \in B
      OBVIOUS
    <3> QED BY <3>1
  <2>3. P \cap Q = {}
    <3>1. n + 1 \notin A
      OBVIOUS
    <3> QED BY <3>1
  <2> QED BY <2>1, <2>2, <2>3
<1> HIDE DEF P, Q, A, B, f
<1>6. Cardinality(SUBSET B) = Cardinality(P) + Cardinality(Q)
  <2>1. Cardinality(P \cup Q)
          = Cardinality(P) + Cardinality(Q) - Cardinality(P \cap Q)
    BY <1>2, <1>4, FS_Union
  <2>2. Cardinality(P \cap Q) = 0
    BY <1>5, FS_EmptySet
  <2>3. Cardinality(P) \in Nat /\ Cardinality(Q) \in Nat
    BY <1>2, <1>4, FS_CardinalityType
  <2>4. Cardinality(SUBSET B) = Cardinality(P \cup Q)
    BY <1>5
  <2> DEFINE u == Cardinality(P \cup Q)
             i == Cardinality(P \cap Q)
             p == Cardinality(P)
             q == Cardinality(Q)
  <2> HIDE DEF u, i, p, q
  <2>5. u = p + q - i /\ i = 0 /\ p \in Nat /\ q \in Nat
    BY <2>1, <2>2, <2>3 DEF u, i, p, q
  <2>6. u = p + q
    BY <2>5
  <2> QED BY <2>4, <2>6 DEF u, p, q
<1>7. 2^n \in Nat /\ 2^(n + 1) \in Nat
  BY <1>2, FS_CardinalityType
<1> QED BY <1>2, <1>4, <1>6, <1>7

LEMMA PowerPositive == \A n \in Nat : 2^n \in Nat /\ 2^n > n
<1> DEFINE S == {n \in Nat : 2^n \in Nat /\ 2^n > n}
<1>1. 0 \in S
  OBVIOUS
<1>2. ASSUME NEW n \in Nat, n \in S PROVE n + 1 \in S
  <2>1. 2^(n + 1) = 2 * 2^n /\ 2^n \in Nat /\ 2^n > n
    BY <1>2, PowerNext
  <2> DEFINE p == 2^n
  <2> HIDE DEF p
  <2>2. 2 * p > n + 1 /\ 2 * p \in Nat
    <3>1. p \in Nat /\ p > n
      BY <2>1 DEF p
    <3> QED BY <3>1
  <2> QED BY <2>1, <2>2 DEF p
<1> HIDE DEF S
<1>3. Nat \subseteq S
  BY <1>1, <1>2, SetInduction
<1> QED BY <1>3 DEF S

LEMMA PowerSum == \A a, b \in Nat : 2^(a + b) = 2^a * 2^b
<1> SUFFICES ASSUME NEW a \in Nat PROVE \A b \in Nat : 2^(a + b) = 2^a * 2^b
  OBVIOUS
<1> DEFINE S == {b \in Nat : 2^(a + b) = 2^a * 2^b}
<1>1. 0 \in S
  <2>1. 2^a \in Nat /\ 2^0 = 1 /\ a + 0 = a
    BY PowerPositive
  <2> QED BY <2>1
<1>2. ASSUME NEW b \in Nat, b \in S PROVE b + 1 \in S
  <2>1. 2^(a + b) = 2^a * 2^b
    BY <1>2
  <2>2. 2^(b + 1) = 2 * 2^b
    BY PowerNext
  <2>3. 2^((a + b) + 1) = 2 * 2^(a + b)
    BY PowerNext
  <2>4. 2^a \in Nat /\ 2^b \in Nat /\ a + (b + 1) = (a + b) + 1
    BY PowerPositive
  <2> DEFINE p == 2^a
             q == 2^b
  <2>5. 2 * (p * q) = p * (2 * q)
    <3> HIDE DEF p, q
    <3> SUFFICES ASSUME p \in Nat, q \in Nat PROVE 2 * (p * q) = p * (2 * q)
      BY <2>4 DEF p, q
    <3> QED OBVIOUS
  <2>6. 2^(a + (b + 1)) = 2^a * 2^(b + 1)
    BY <2>1, <2>2, <2>3, <2>4, <2>5
  <2> QED BY <2>6
<1> HIDE DEF S
<1>3. Nat \subseteq S
  BY <1>1, <1>2, SetInduction
<1> QED BY <1>3 DEF S

LEMMA HalvedPower ==
  ASSUME NEW v \in Nat, NEW n \in Nat
  PROVE  /\ v \div 2^n \in Nat
         /\ v \div 2^(n + 1) = (v \div 2^n) \div 2
         /\ v \div 2^n = 2 * (v \div 2^(n + 1)) + ((v \div 2^n) % 2)
<1> DEFINE p == 2^n
           q == 2^(n + 1)
           a == v \div p
<1>1. q = 2 * p /\ p \in Nat /\ p > 0
  BY PowerNext, PowerPositive
<1> HIDE DEF p, q
<1>2. a \in Nat
  BY <1>1
<1>3. v \div q = a \div 2
  <2>1. v \div (p * 2) = (v \div p) \div 2
    BY <1>1
  <2>2. q = p * 2
    BY <1>1
  <2> QED BY <2>1, <2>2
<1>4. a = 2 * (a \div 2) + (a % 2)
  <2> HIDE DEF a
  <2> QED BY <1>2
<1> QED BY <1>2, <1>3, <1>4 DEF p, q, a

-----------------------------------------------------------------------------
(* Bit strings and the numbers they denote.                                *)

(* Number is what the recurrence says it is: there is one function that    *)
(* obeys it.                                                               *)
Recurs(f, s, n) ==
  /\ f \in [0..n -> Nat]
  /\ f[0] = 0
  /\ \A i \in 1..n : f[i] = 2 * f[i - 1] + s[i]

LEMMA RecurrenceSolved ==
  ASSUME NEW s \in Bits
  PROVE  \A n \in 0..Len(s) : \E f : Recurs(f, s, n)
<1> DEFINE S == {n \in Nat : n <= Len(s) => \E f : Recurs(f, s, n)}
<1>1. 0 \in S
  <2> DEFINE f == [i \in 0..0 |-> 0]
  <2>1. Recurs(f, s, 0)
    BY DEF Recurs
  <2> QED BY <2>1
<1>2. ASSUME NEW n \in Nat, n \in S PROVE n + 1 \in S
  <2> SUFFICES ASSUME n + 1 <= Len(s) PROVE \E f : Recurs(f, s, n + 1)
    OBVIOUS
  <2>1. Len(s) \in Nat /\ n <= Len(s)
    BY DEF Bits
  <2>2. PICK f : Recurs(f, s, n)
    BY <1>2, <2>1
  <2>3. s[n + 1] \in Nat
    BY <2>1 DEF Bits, Bit
  <2> DEFINE g == [i \in 0..(n + 1) |->
                     IF i = n + 1 THEN 2 * f[n] + s[n + 1] ELSE f[i]]
  <2>4. g \in [0..(n + 1) -> Nat]
    BY <2>2, <2>3 DEF Recurs
  <2>5. g[0] = 0
    BY <2>2 DEF Recurs
  <2>6. ASSUME NEW i \in 1..(n + 1) PROVE g[i] = 2 * g[i - 1] + s[i]
    <3>1. CASE i = n + 1
      BY <3>1
    <3>2. CASE i # n + 1
      <4>1. i \in 1..n /\ i - 1 \in 0..n
        BY <3>2
      <4>2. g[i] = f[i] /\ g[i - 1] = f[i - 1]
        BY <4>1
      <4> QED BY <4>1, <4>2, <2>2 DEF Recurs
    <3> QED BY <3>1, <3>2
  <2>7. Recurs(g, s, n + 1)
    <3> HIDE DEF g
    <3> QED BY <2>4, <2>5, <2>6 DEF Recurs
  <2> QED BY <2>7
<1> HIDE DEF S
<1>3. Nat \subseteq S
  BY <1>1, <1>2, SetInduction
<1>4. ASSUME NEW n \in 0..Len(s) PROVE \E f : Recurs(f, s, n)
  <2>1. n \in Nat /\ n <= Len(s)
    BY DEF Bits
  <2> QED BY <2>1, <1>3 DEF S
<1> QED BY <1>4

LEMMA NumberByDigits ==
  ASSUME NEW s \in Bits
  PROVE  \E f : Recurs(f, s, Len(s)) /\ Number(s) = f[Len(s)]
<1>1. Len(s) \in Nat
  BY DEF Bits
<1>2. PICK f : Recurs(f, s, Len(s))
  BY <1>1, RecurrenceSolved
<1> DEFINE Def(n) == n = [i \in 0..Len(s) |->
                            IF i = 0 THEN 0 ELSE 2 * n[i - 1] + s[i]]
           h == CHOOSE n : Def(n)
<1>3. Def(f)
  BY <1>2 DEF Recurs
<1>4. Def(h)
  BY <1>3
<1>5. h = f
  <2> DEFINE S == {i \in Nat : i <= Len(s) => h[i] = f[i]}
  <2>1. 0 \in S
    BY <1>2, <1>4, <1>1 DEF Recurs
  <2>2. ASSUME NEW i \in Nat, i \in S PROVE i + 1 \in S
    <3> SUFFICES ASSUME i + 1 <= Len(s) PROVE h[i + 1] = f[i + 1]
      OBVIOUS
    <3>1. i + 1 \in 0..Len(s) /\ i + 1 # 0 /\ (i + 1) - 1 = i /\ i <= Len(s)
      BY <1>1
    <3>2. h[i + 1] = 2 * h[i] + s[i + 1]
      BY <3>1, <1>4
    <3>3. f[i + 1] = 2 * f[i] + s[i + 1]
      BY <3>1, <1>3
    <3> QED BY <3>1, <3>2, <3>3, <2>2
  <2>3. Nat \subseteq S
    <3> HIDE DEF S, h
    <3> QED BY <2>1, <2>2, SetInduction
  <2>4. \A i \in 0..Len(s) : h[i] = f[i]
    BY <2>3, <1>1
  <2>5. DOMAIN h = 0..Len(s) /\ h = [i \in 0..Len(s) |-> h[i]]
    BY <1>4
  <2>6. f = [i \in 0..Len(s) |-> f[i]]
    BY <1>2 DEF Recurs
  <2> HIDE DEF h
  <2> QED BY <2>4, <2>5, <2>6
<1>6. Number(s) = h[Len(s)]
  BY DEF Number
<1> QED BY <1>2, <1>5, <1>6

LEMMA NumberType == \A s \in Bits : Number(s) \in Nat
<1> TAKE s \in Bits
<1>1. Len(s) \in Nat
  BY DEF Bits
<1>2. PICK f : Recurs(f, s, Len(s)) /\ Number(s) = f[Len(s)]
  BY NumberByDigits
<1> QED BY <1>1, <1>2 DEF Recurs

LEMMA BitsOfType ==
  ASSUME NEW v \in Nat, NEW n \in Nat
  PROVE  /\ BitsOf(v, n) \in Bits
         /\ Len(BitsOf(v, n)) = n
         /\ \A i \in 1..n : BitsOf(v, n)[i] = (v \div 2^(n - i)) % 2
<1>1. ASSUME NEW i \in 1..n PROVE (v \div 2^(n - i)) % 2 \in Bit
  <2>1. n - i \in Nat
    OBVIOUS
  <2> DEFINE a == v \div 2^(n - i)
  <2>2. a \in Nat
    BY <2>1, HalvedPower
  <2> HIDE DEF a
  <2>3. a % 2 \in Bit
    BY <2>2 DEF Bit
  <2> QED BY <2>3 DEF a
<1>2. BitsOf(v, n) \in [1..n -> Bit]
  BY <1>1 DEF BitsOf
<1>3. BitsOf(v, n) \in Bits /\ Len(BitsOf(v, n)) = n
  BY <1>2 DEF Bits
<1> QED BY <1>3 DEF BitsOf

(* The number of the bits of a number that fits is that number.            *)
LEMMA NumberOfBits ==
  ASSUME NEW v \in Nat, NEW n \in Nat, v < 2^n
  PROVE  Number(BitsOf(v, n)) = v
<1> DEFINE s == BitsOf(v, n)
<1>1. s \in Bits /\ Len(s) = n /\ \A i \in 1..n : s[i] = (v \div 2^(n - i)) % 2
  BY BitsOfType
<1> HIDE DEF s
<1>2. PICK f : Recurs(f, s, n) /\ Number(s) = f[n]
  BY <1>1, NumberByDigits
<1> DEFINE S == {i \in Nat : i <= n => f[i] = v \div 2^(n - i)}
<1>3. 0 \in S
  <2>1. n - 0 = n /\ f[0] = 0
    BY <1>2 DEF Recurs
  <2>2. v \div 2^n = 0
    <3>1. 2^n \in Nat
      BY PowerPositive
    <3> QED BY <3>1
  <2> QED BY <2>1, <2>2
<1>4. ASSUME NEW i \in Nat, i \in S PROVE i + 1 \in S
  <2> SUFFICES ASSUME i + 1 <= n PROVE f[i + 1] = v \div 2^(n - (i + 1))
    OBVIOUS
  <2> DEFINE k == n - (i + 1)
  <2>1. k \in Nat /\ k + 1 = n - i /\ i <= n /\ i + 1 \in 1..n /\ (i + 1) - 1 = i
    OBVIOUS
  <2>2. f[i] = v \div 2^(k + 1)
    BY <1>4, <2>1
  <2>3. f[i + 1] = 2 * f[i] + s[i + 1]
    BY <1>2, <2>1 DEF Recurs
  <2>4. s[i + 1] = (v \div 2^k) % 2
    BY <1>1, <2>1
  <2> HIDE DEF k
  <2>5. v \div 2^k = 2 * (v \div 2^(k + 1)) + ((v \div 2^k) % 2)
    BY <2>1, HalvedPower
  <2>6. f[i + 1] = v \div 2^k
    BY <2>2, <2>3, <2>4, <2>5, Zenon
  <2> QED BY <2>6 DEF k
<1> HIDE DEF S
<1>5. n \in S
  BY <1>3, <1>4, SetInduction
<1>6. f[n] = v \div 2^0
  <2>1. n - n = 0
    OBVIOUS
  <2> QED BY <1>5, <2>1 DEF S
<1>7. v \div 2^0 = v
  OBVIOUS
<1> QED BY <1>2, <1>6, <1>7 DEF s

-----------------------------------------------------------------------------
(* Parts of a bit string.                                                  *)
LEMMA PartType ==
  ASSUME NEW s \in Bits, NEW m \in Nat, NEW n \in Nat, m + n <= Len(s)
  PROVE  /\ Slice(s, m, n) \in Bits
         /\ Len(Slice(s, m, n)) = n
         /\ \A i \in 1..n : Slice(s, m, n)[i] = s[m + i]
<1>1. Len(s) \in Nat
  BY DEF Bits
<1>2. \A i \in (m + 1)..(m + n) : s[i] \in Bit
  BY <1>1 DEF Bits
<1>3. /\ SubSeq(s, m + 1, m + n) \in Seq(Bit)
      /\ Len(SubSeq(s, m + 1, m + n))
           = IF m + 1 <= m + n THEN (m + n) - (m + 1) + 1 ELSE 0
      /\ \A i \in 1..((m + n) - (m + 1) + 1) :
           SubSeq(s, m + 1, m + n)[i] = s[(m + 1) + i - 1]
  BY <1>2, SubSeqProperties
<1>4. (m + n) - (m + 1) + 1 = n /\ (m + 1 <= m + n \/ n = 0)
  OBVIOUS
<1>5. \A i \in 1..n : (m + 1) + i - 1 = m + i
  OBVIOUS
<1> QED BY <1>3, <1>4, <1>5 DEF Slice, Bits

LEMMA PrefixType ==
  ASSUME NEW s \in Bits, NEW n \in Nat, n <= Len(s)
  PROVE  /\ SubSeq(s, 1, n) = Slice(s, 0, n)
         /\ SubSeq(s, 1, n) \in Bits
         /\ Len(SubSeq(s, 1, n)) = n
         /\ \A i \in 1..n : SubSeq(s, 1, n)[i] = s[i]
<1>1. 0 + 1 = 1 /\ 0 + n = n /\ \A i \in 1..n : 0 + i = i
  OBVIOUS
<1>2. SubSeq(s, 1, n) = Slice(s, 0, n)
  BY <1>1 DEF Slice
<1>3. /\ Slice(s, 0, n) \in Bits
      /\ Len(Slice(s, 0, n)) = n
      /\ \A i \in 1..n : Slice(s, 0, n)[i] = s[0 + i]
  BY PartType
<1> QED BY <1>1, <1>2, <1>3

LEMMA FromType ==
  ASSUME NEW s \in Bits, NEW m \in Nat, m <= Len(s)
  PROVE  /\ From(s, m) = Slice(s, m, Len(s) - m)
         /\ From(s, m) \in Bits
         /\ Len(From(s, m)) = Len(s) - m
         /\ \A i \in 1..(Len(s) - m) : From(s, m)[i] = s[m + i]
<1> DEFINE n == Len(s) - m
<1>1. n \in Nat /\ m + n = Len(s)
  BY DEF Bits
<1>2. From(s, m) = Slice(s, m, n)
  BY <1>1 DEF From, Slice
<1> HIDE DEF n
<1>3. /\ Slice(s, m, n) \in Bits
      /\ Len(Slice(s, m, n)) = n
      /\ \A i \in 1..n : Slice(s, m, n)[i] = s[m + i]
  BY <1>1, PartType
<1> QED BY <1>2, <1>3 DEF n

LEMMA SameBits ==
  ASSUME NEW s \in Bits, NEW t \in Bits, Len(s) = Len(t),
         \A i \in 1..Len(s) : s[i] = t[i]
  PROVE  s = t
BY SeqEqual DEF Bits

LEMMA PrefixBits ==
  ASSUME NEW s \in Bits, NEW t \in Bits
  PROVE  IsPrefix(s, t) <=>
           Len(s) <= Len(t) /\ \A i \in 1..Len(s) : s[i] = t[i]
<1>1. Len(s) \in Nat /\ Len(t) \in Nat
  BY DEF Bits
<1>2. CASE ~(Len(s) <= Len(t))
  BY <1>2 DEF IsPrefix
<1>3. CASE Len(s) <= Len(t)
  <2>1. /\ SubSeq(s, 1, Len(s)) \in Bits
        /\ Len(SubSeq(s, 1, Len(s))) = Len(s)
        /\ \A i \in 1..Len(s) : SubSeq(s, 1, Len(s))[i] = s[i]
    BY <1>1, PrefixType
  <2>2. /\ SubSeq(t, 1, Len(s)) \in Bits
        /\ Len(SubSeq(t, 1, Len(s))) = Len(s)
        /\ \A i \in 1..Len(s) : SubSeq(t, 1, Len(s))[i] = t[i]
    BY <1>1, <1>3, PrefixType
  <2>3. ASSUME \A i \in 1..Len(s) : s[i] = t[i]
        PROVE  SubSeq(s, 1, Len(s)) = SubSeq(t, 1, Len(s))
    BY <2>1, <2>2, <2>3, SameBits
  <2>4. ASSUME SubSeq(s, 1, Len(s)) = SubSeq(t, 1, Len(s)), NEW i \in 1..Len(s)
        PROVE  s[i] = t[i]
    BY <2>1, <2>2, <2>4
  <2> QED BY <1>3, <2>3, <2>4 DEF IsPrefix
<1> QED BY <1>2, <1>3

LEMMA ConcatBits ==
  ASSUME NEW s \in Bits, NEW t \in Bits
  PROVE  /\ s \o t \in Bits
         /\ Len(s \o t) = Len(s) + Len(t)
         /\ \A i \in 1..Len(s) : (s \o t)[i] = s[i]
         /\ \A i \in 1..Len(t) : (s \o t)[Len(s) + i] = t[i]
<1>1. Len(s) \in Nat /\ Len(t) \in Nat
  BY DEF Bits
<1>2. /\ s \o t \in Seq(Bit)
      /\ Len(s \o t) = Len(s) + Len(t)
      /\ \A i \in 1..(Len(s) + Len(t)) :
           (s \o t)[i] = IF i <= Len(s) THEN s[i] ELSE t[i - Len(s)]
  BY ConcatProperties DEF Bits
<1>3. ASSUME NEW i \in 1..Len(s) PROVE (s \o t)[i] = s[i]
  BY <1>1, <1>2
<1>4. ASSUME NEW i \in 1..Len(t) PROVE (s \o t)[Len(s) + i] = t[i]
  <2>1. /\ Len(s) + i \in 1..(Len(s) + Len(t)) /\ ~(Len(s) + i <= Len(s))
        /\ (Len(s) + i) - Len(s) = i
    BY <1>1
  <2> QED BY <1>2, <2>1
<1> QED BY <1>2, <1>3, <1>4 DEF Bits

LEMMA ZerosType ==
  ASSUME NEW n \in Nat
  PROVE  Zeros(n) \in Bits /\ Len(Zeros(n)) = n /\ \A i \in 1..n : Zeros(n)[i] = 0
<1>1. Zeros(n) \in [1..n -> Bit]
  BY DEF Zeros, Bit
<1> QED BY <1>1 DEF Bits, Zeros

(* What was read before the end stays the same when more bits follow.      *)
LEMMA ReadWithin ==
  ASSUME NEW bits \in Bits, NEW pos \in Nat, pos <= Len(bits), NEW n \in Nat
  PROVE  /\ Read(bits, pos, n).ok \in BOOLEAN
         /\ Read(bits, pos, n).ok <=> pos + n <= Len(bits)
         /\ Read(bits, pos, n).ok =>
              /\ Read(bits, pos, n).value.bits = Slice(bits, pos, n)
              /\ Read(bits, pos, n).value.bits \in Bits
              /\ Len(Read(bits, pos, n).value.bits) = n
              /\ Read(bits, pos, n).value.pos = pos + n
<1>1. Len(bits) \in Nat
  BY DEF Bits
<1>2. CASE n > Len(bits) - pos
  <2>1. Read(bits, pos, n) = Err("BitOutOfBounds")
    BY <1>2 DEF Read
  <2> QED BY <2>1, <1>1, <1>2 DEF Err
<1>3. CASE ~(n > Len(bits) - pos)
  <2>1. Read(bits, pos, n) = Ok([bits |-> Slice(bits, pos, n), pos |-> pos + n])
    BY <1>3 DEF Read
  <2>2. pos + n <= Len(bits)
    BY <1>1, <1>3
  <2> QED BY <2>1, <2>2, PartType DEF Ok
<1> QED BY <1>2, <1>3

LEMMA ReadFurther ==
  ASSUME NEW bits \in Bits, NEW more \in Bits, IsPrefix(bits, more),
         NEW pos \in Nat, pos <= Len(bits), NEW n \in Nat, Read(bits, pos, n).ok
  PROVE  Read(more, pos, n) = Read(bits, pos, n)
<1>1. Len(bits) \in Nat /\ Len(more) \in Nat
  BY DEF Bits
<1>2. Len(bits) <= Len(more) /\ \A i \in 1..Len(bits) : bits[i] = more[i]
  BY PrefixBits
<1>3. pos + n <= Len(bits) /\ pos + n <= Len(more) /\ pos <= Len(more)
  <2>1. pos + n <= Len(bits)
    BY ReadWithin
  <2> QED BY <1>1, <1>2, <2>1
<1>4. Slice(more, pos, n) = Slice(bits, pos, n)
  <2>1. /\ Slice(bits, pos, n) \in Bits
        /\ Len(Slice(bits, pos, n)) = n
        /\ \A i \in 1..n : Slice(bits, pos, n)[i] = bits[pos + i]
    BY <1>3, PartType
  <2>2. /\ Slice(more, pos, n) \in Bits
        /\ Len(Slice(more, pos, n)) = n
        /\ \A i \in 1..n : Slice(more, pos, n)[i] = more[pos + i]
    BY <1>3, PartType
  <2>3. \A i \in 1..n : bits[pos + i] = more[pos + i]
    BY <1>1, <1>2, <1>3
  <2> QED BY <2>1, <2>2, <2>3, SameBits
<1>5. ~(n > Len(bits) - pos) /\ ~(n > Len(more) - pos)
  BY <1>1, <1>3
<1> QED BY <1>4, <1>5 DEF Read

(* Bits that stand in the string where the reader is are what it reads.    *)
LEMMA ReadBack ==
  ASSUME NEW bits \in Bits, NEW part \in Bits, NEW pos \in Nat,
         pos + Len(part) <= Len(bits),
         \A i \in 1..Len(part) : bits[pos + i] = part[i]
  PROVE  Read(bits, pos, Len(part)) = Ok([bits |-> part, pos |-> pos + Len(part)])
<1>1. Len(bits) \in Nat /\ Len(part) \in Nat
  BY DEF Bits
<1>2. Slice(bits, pos, Len(part)) = part
  <2>1. /\ Slice(bits, pos, Len(part)) \in Bits
        /\ Len(Slice(bits, pos, Len(part))) = Len(part)
        /\ \A i \in 1..Len(part) : Slice(bits, pos, Len(part))[i] = bits[pos + i]
    BY <1>1, PartType
  <2> QED BY <2>1, SameBits
<1>3. ~(Len(part) > Len(bits) - pos)
  BY <1>1
<1> QED BY <1>2, <1>3 DEF Read

-----------------------------------------------------------------------------
(* The length prefix.                                                      *)

(* The bits of part stand in bits from position pos on.                    *)
StandsIn(bits, pos, part) ==
  /\ pos + Len(part) <= Len(bits)
  /\ \A i \in 1..Len(part) : bits[pos + i] = part[i]

LEMMA CarriesBoth ==
  ASSUME NEW bits \in Bits, NEW pos \in Nat, NEW a \in Bits, NEW b \in Bits,
         StandsIn(bits, pos, a \o b)
  PROVE  StandsIn(bits, pos, a) /\ StandsIn(bits, pos + Len(a), b)
<1>1. Len(bits) \in Nat /\ Len(a) \in Nat /\ Len(b) \in Nat
  BY DEF Bits
<1>2. /\ Len(a \o b) = Len(a) + Len(b)
      /\ \A i \in 1..Len(a) : (a \o b)[i] = a[i]
      /\ \A i \in 1..Len(b) : (a \o b)[Len(a) + i] = b[i]
  BY ConcatBits
<1>3. /\ pos + (Len(a) + Len(b)) <= Len(bits)
      /\ \A i \in 1..(Len(a) + Len(b)) : bits[pos + i] = (a \o b)[i]
  BY <1>2 DEF StandsIn
<1>4. pos + Len(a) <= Len(bits) /\ (pos + Len(a)) + Len(b) <= Len(bits)
  BY <1>1, <1>3
<1>5. ASSUME NEW i \in 1..Len(a) PROVE bits[pos + i] = a[i]
  <2>1. i \in 1..(Len(a) + Len(b))
    BY <1>1
  <2> QED BY <2>1, <1>2, <1>3
<1>6. ASSUME NEW i \in 1..Len(b) PROVE bits[(pos + Len(a)) + i] = b[i]
  <2>1. Len(a) + i \in 1..(Len(a) + Len(b)) /\ (pos + Len(a)) + i = pos + (Len(a) + i)
    BY <1>1
  <2> QED BY <2>1, <1>2, <1>3
<1> QED BY <1>4, <1>5, <1>6 DEF StandsIn

LEMMA CarriesRead ==
  ASSUME NEW bits \in Bits, NEW pos \in Nat, NEW part \in Bits,
         StandsIn(bits, pos, part)
  PROVE  Read(bits, pos, Len(part)) = Ok([bits |-> part, pos |-> pos + Len(part)])
BY ReadBack DEF StandsIn

LEMMA PrefixCarried ==
  ASSUME NEW bits \in Bits, NEW more \in Bits, IsPrefix(bits, more)
  PROVE  StandsIn(more, 0, bits)
<1>1. Len(bits) \in Nat /\ Len(more) \in Nat
  BY DEF Bits
<1>2. Len(bits) <= Len(more) /\ \A i \in 1..Len(bits) : bits[i] = more[i]
  BY PrefixBits
<1>3. \A i \in 1..Len(bits) : 0 + i = i
  BY <1>1
<1>4. 0 + Len(bits) = Len(bits)
  BY <1>1
<1> QED BY <1>2, <1>3, <1>4 DEF StandsIn

(* A number in as many bits as it takes is read as it was written.         *)
Fits(v, n) == v < 2^n

LEMMA BitsOfLen == \A v, n \in Nat : BitsOf(v, n) \in Bits /\ Len(BitsOf(v, n)) = n
BY BitsOfType

LEMMA NumberRead ==
  ASSUME NEW bits \in Bits, NEW pos \in Nat, NEW v \in Nat, NEW n \in Nat,
         Fits(v, n), StandsIn(bits, pos, BitsOf(v, n))
  PROVE  /\ Read(bits, pos, n).ok
         /\ Read(bits, pos, n).value.pos = pos + n
         /\ Number(Read(bits, pos, n).value.bits) = v
<1>1. BitsOf(v, n) \in Bits /\ Len(BitsOf(v, n)) = n
  BY BitsOfLen
<1>2. Read(bits, pos, n) = Ok([bits |-> BitsOf(v, n), pos |-> pos + n])
  BY <1>1, CarriesRead
<1>3. Number(BitsOf(v, n)) = v
  BY NumberOfBits DEF Fits
<1> QED BY <1>2, <1>3 DEF Ok

(* The widths of the length prefix.                                        *)
LEMMA PrefixFits ==
  /\ \A v \in Nat : Fits(v, 4) <=> v < 16
  /\ \A v \in Nat : Fits(v, 8) <=> v < 256
  /\ \A v \in Nat : Fits(v, 16) <=> v < 65536
BY DEF Fits

(* A length prefix is read as the number that was written.                 *)
LEMMA ShortRead ==
  ASSUME NEW bits \in Bits, NEW pos \in Nat, NEW v \in Nat, v < 16,
         StandsIn(bits, pos, BitsOf(v, 4))
  PROVE  /\ Read(bits, pos, 4).ok
         /\ Read(bits, pos, 4).value.pos = pos + 4
         /\ Number(Read(bits, pos, 4).value.bits) = v
BY NumberRead, PrefixFits

LEMMA MediumRead ==
  ASSUME NEW bits \in Bits, NEW pos \in Nat, NEW v \in Nat, v < 256,
         StandsIn(bits, pos, BitsOf(v, 8))
  PROVE  /\ Read(bits, pos, 8).ok
         /\ Read(bits, pos, 8).value.pos = pos + 8
         /\ Number(Read(bits, pos, 8).value.bits) = v
BY NumberRead, PrefixFits

LEMMA LongRead ==
  ASSUME NEW bits \in Bits, NEW pos \in Nat, NEW v \in Nat, v < 65536,
         StandsIn(bits, pos, BitsOf(v, 16))
  PROVE  /\ Read(bits, pos, 16).ok
         /\ Read(bits, pos, 16).value.pos = pos + 16
         /\ Number(Read(bits, pos, 16).value.bits) = v
BY NumberRead, PrefixFits

(* A bit string of n bits.                                                 *)
Wide(s, n) == s \in Bits /\ Len(s) = n

LEMMA BitsOfWide == \A v, n \in Nat : Wide(BitsOf(v, n), n)
BY BitsOfLen DEF Wide

LEMMA TwoParts ==
  ASSUME NEW a, NEW b, NEW m \in Nat, NEW n \in Nat, Wide(a, m), Wide(b, n)
  PROVE  /\ Wide(a \o b, m + n)
         /\ \A bits \in Bits, pos \in Nat :
              StandsIn(bits, pos, a \o b) =>
                StandsIn(bits, pos, a) /\ StandsIn(bits, pos + m, b)
BY ConcatBits, CarriesBoth DEF Wide

(* A length prefix is read as the number that was written.                 *)
Announced(n, w) ==
  /\ w \in Bits
  /\ \A bits \in Bits, pos \in Nat :
       StandsIn(bits, pos, w) =>
         ReadPrefix(bits, pos) = Ok([n |-> n, pos |-> pos + Len(w)])

LEMMA Announces ==
  ASSUME NEW n, NEW w, NEW k \in Nat, Wide(w, k),
         \A bits \in Bits, pos \in Nat :
           StandsIn(bits, pos, w) => ReadPrefix(bits, pos) = Ok([n |-> n, pos |-> pos + k])
  PROVE  Announced(n, w)
BY DEF Announced, Wide

LEMMA ShortPrefix ==
  ASSUME NEW n \in Nat, n < 15
  PROVE  Announced(n, BitsOf(n, 4))
<1>1. Wide(BitsOf(n, 4), 4)
  BY BitsOfWide
<1>2. ASSUME NEW bits \in Bits, NEW pos \in Nat, StandsIn(bits, pos, BitsOf(n, 4))
      PROVE  ReadPrefix(bits, pos) = Ok([n |-> n, pos |-> pos + 4])
  <2>0. n < 16
    OBVIOUS
  <2>1. /\ Read(bits, pos, 4).ok
        /\ Read(bits, pos, 4).value.pos = pos + 4
        /\ Number(Read(bits, pos, 4).value.bits) = n
    BY <1>2, <2>0, ShortRead
  <2> QED BY <2>1 DEF ReadPrefix
<1> QED BY <1>1, <1>2, Announces

LEMMA MediumPrefix ==
  ASSUME NEW n \in Nat, n < 255
  PROVE  Announced(n, BitsOf(15, 4) \o BitsOf(n, 8))
<1> DEFINE a == BitsOf(15, 4)
           b == BitsOf(n, 8)
<1>1. Wide(a, 4) /\ Wide(b, 8)
  BY BitsOfWide
<1> HIDE DEF a, b
<1>2. /\ Wide(a \o b, 4 + 8)
      /\ \A bits \in Bits, pos \in Nat :
           StandsIn(bits, pos, a \o b) =>
             StandsIn(bits, pos, a) /\ StandsIn(bits, pos + 4, b)
  BY <1>1, TwoParts
<1>3. ASSUME NEW bits \in Bits, NEW pos \in Nat, StandsIn(bits, pos, a \o b)
      PROVE  ReadPrefix(bits, pos) = Ok([n |-> n, pos |-> pos + 12])
  <2>1. StandsIn(bits, pos, a) /\ StandsIn(bits, pos + 4, b)
    BY <1>2, <1>3
  <2>2. Read(bits, pos, 4).ok /\ Number(Read(bits, pos, 4).value.bits) = 15
    <3>1. 15 \in Nat /\ 15 < 16
      OBVIOUS
    <3> QED BY <3>1, <2>1, ShortRead DEF a
  <2>3. /\ Read(bits, pos + 4, 8).ok
        /\ Read(bits, pos + 4, 8).value.pos = (pos + 4) + 8
        /\ Number(Read(bits, pos + 4, 8).value.bits) = n
    <3>1. n < 256 /\ pos + 4 \in Nat
      OBVIOUS
    <3> QED BY <3>1, <2>1, MediumRead DEF b
  <2>4. (pos + 4) + 8 = pos + 12
    OBVIOUS
  <2> QED BY <2>2, <2>3, <2>4 DEF ReadPrefix
<1>4. Wide(a \o b, 12)
  BY <1>2
<1>5. Announced(n, a \o b)
  BY <1>3, <1>4, Announces
<1> QED BY <1>5 DEF a, b

LEMMA LongPrefix ==
  ASSUME NEW n \in Nat, n < 65536
  PROVE  Announced(n, BitsOf(15, 4) \o BitsOf(255, 8) \o BitsOf(n, 16))
<1> DEFINE a == BitsOf(15, 4)
           b == BitsOf(255, 8)
           c == BitsOf(n, 16)
<1>1. Wide(a, 4)
  BY BitsOfWide
<1>2. Wide(b, 8)
  BY BitsOfWide
<1>3. Wide(c, 16)
  BY BitsOfWide
<1> HIDE DEF a, b, c
<1>4. /\ Wide(a \o b, 4 + 8)
      /\ \A bits \in Bits, pos \in Nat :
           StandsIn(bits, pos, a \o b) =>
             StandsIn(bits, pos, a) /\ StandsIn(bits, pos + 4, b)
  BY <1>1, <1>2, TwoParts
<1>5. Wide(a \o b, 12)
  BY <1>4
<1>6. /\ Wide((a \o b) \o c, 12 + 16)
      /\ \A bits \in Bits, pos \in Nat :
           StandsIn(bits, pos, (a \o b) \o c) =>
             StandsIn(bits, pos, a \o b) /\ StandsIn(bits, pos + 12, c)
  BY <1>3, <1>5, TwoParts
<1>7. ASSUME NEW bits \in Bits, NEW pos \in Nat, StandsIn(bits, pos, (a \o b) \o c)
      PROVE  ReadPrefix(bits, pos) = Ok([n |-> n, pos |-> pos + 28])
  <2>1. StandsIn(bits, pos, a \o b) /\ StandsIn(bits, pos + 12, c)
    BY <1>6, <1>7
  <2>2. StandsIn(bits, pos, a) /\ StandsIn(bits, pos + 4, b)
    BY <2>1, <1>4
  <2>3. Read(bits, pos, 4).ok /\ Number(Read(bits, pos, 4).value.bits) = 15
    <3>1. 15 \in Nat /\ 15 < 16
      OBVIOUS
    <3> QED BY <3>1, <2>2, ShortRead DEF a
  <2>4. Read(bits, pos + 4, 8).ok /\ Number(Read(bits, pos + 4, 8).value.bits) = 255
    <3>1. 255 \in Nat /\ 255 < 256 /\ pos + 4 \in Nat
      OBVIOUS
    <3> QED BY <3>1, <2>2, MediumRead DEF b
  <2>5. /\ Read(bits, pos + 12, 16).ok
        /\ Read(bits, pos + 12, 16).value.pos = (pos + 12) + 16
        /\ Number(Read(bits, pos + 12, 16).value.bits) = n
    <3>1. pos + 12 \in Nat
      OBVIOUS
    <3> QED BY <3>1, <2>1, LongRead DEF c
  <2>6. (pos + 12) + 16 = pos + 28
    OBVIOUS
  <2> QED BY <2>3, <2>4, <2>5, <2>6 DEF ReadPrefix
<1>8. Wide((a \o b) \o c, 28)
  BY <1>6
<1>9. Announced(n, (a \o b) \o c)
  BY <1>7, <1>8, Announces
<1> QED BY <1>9 DEF a, b, c

LEMMA PrefixReadBack ==
  ASSUME NEW n \in Nat, WritePrefix(n).ok
  PROVE  Announced(n, WritePrefix(n).value)
<1>1. CASE n <= 14
  <2>1. WritePrefix(n) = Ok(BitsOf(n, 4)) /\ n < 15
    BY <1>1 DEF WritePrefix
  <2> QED BY <2>1, ShortPrefix DEF Ok
<1>2. CASE n > 14 /\ n <= 254
  <2>1. WritePrefix(n) = Ok(BitsOf(15, 4) \o BitsOf(n, 8)) /\ n < 255
    BY <1>2 DEF WritePrefix
  <2> QED BY <2>1, MediumPrefix DEF Ok
<1>3. CASE n > 254 /\ n <= 65535
  <2>1. /\ WritePrefix(n) = Ok(BitsOf(15, 4) \o BitsOf(255, 8) \o BitsOf(n, 16))
        /\ n < 65536
    BY <1>3 DEF WritePrefix
  <2> QED BY <2>1, LongPrefix DEF Ok
<1>4. CASE n > 65535
  <2>1. WritePrefix(n) = Err("InvalidResidue")
    BY <1>4 DEF WritePrefix
  <2> QED BY <2>1 DEF Err
<1> QED BY <1>1, <1>2, <1>3, <1>4

(* A reader position within the readable bits, and what a read from there  *)
(* leaves: the bits asked for, a position within again, and the same when  *)
(* more bits follow.                                                       *)
Reaches(bits, pos) == pos \in Nat /\ pos <= Len(bits)

Extends(more, bits) == more \in Bits /\ IsPrefix(bits, more)

LEMMA ReadTaken ==
  ASSUME NEW bits \in Bits, NEW pos, Reaches(bits, pos), NEW n \in Nat,
         Read(bits, pos, n).ok
  PROVE  /\ Read(bits, pos, n).value.bits \in Bits
         /\ Number(Read(bits, pos, n).value.bits) \in Nat
         /\ Read(bits, pos, n).value.pos = pos + n
         /\ Reaches(bits, pos + n)
         /\ \A more : Extends(more, bits) => Read(more, pos, n) = Read(bits, pos, n)
<1>1. pos \in Nat /\ pos <= Len(bits) /\ pos + n \in Nat
  BY DEF Reaches
<1>2. /\ Read(bits, pos, n).value.bits \in Bits
      /\ Read(bits, pos, n).value.pos = pos + n
      /\ pos + n <= Len(bits)
  BY <1>1, ReadWithin
<1>3. ASSUME NEW more, Extends(more, bits) PROVE Read(more, pos, n) = Read(bits, pos, n)
  BY <1>1, <1>3, ReadFurther DEF Extends
<1> QED BY <1>1, <1>2, <1>3, NumberType DEF Reaches

LEMMA PrefixTaken ==
  ASSUME NEW bits \in Bits, NEW pos, Reaches(bits, pos), ReadPrefix(bits, pos).ok
  PROVE  /\ ReadPrefix(bits, pos).value.n \in Nat
         /\ Reaches(bits, ReadPrefix(bits, pos).value.pos)
         /\ \A more : Extends(more, bits) => ReadPrefix(more, pos) = ReadPrefix(bits, pos)
<1> DEFINE short == Read(bits, pos, 4)
           medium == Read(bits, pos + 4, 8)
           long == Read(bits, pos + 12, 16)
           length(r) == Ok([n |-> Number(r.value.bits), pos |-> r.value.pos])
           Same(more) == /\ Read(more, pos, 4) = short
                         /\ medium.ok => Read(more, pos + 4, 8) = medium
                         /\ medium.ok /\ long.ok => Read(more, pos + 12, 16) = long
<1>1. short.ok
  BY DEF ReadPrefix
<1>2. /\ Number(short.value.bits) \in Nat /\ short.value.pos = pos + 4
      /\ Reaches(bits, pos + 4)
      /\ \A more : Extends(more, bits) => Read(more, pos, 4) = short
  BY <1>1, ReadTaken
<1>3. ASSUME medium.ok
      PROVE  /\ Number(medium.value.bits) \in Nat
             /\ medium.value.pos = (pos + 4) + 8
             /\ Reaches(bits, (pos + 4) + 8)
             /\ \A more : Extends(more, bits) => Read(more, pos + 4, 8) = medium
  BY <1>2, <1>3, ReadTaken
<1>4. pos \in Nat /\ (pos + 4) + 8 = pos + 12
  BY DEF Reaches
<1>5. ASSUME medium.ok, long.ok
      PROVE  /\ Number(long.value.bits) \in Nat
             /\ long.value.pos = (pos + 12) + 16
             /\ Reaches(bits, (pos + 12) + 16)
             /\ \A more : Extends(more, bits) => Read(more, pos + 12, 16) = long
  <2>1. Reaches(bits, pos + 12)
    BY <1>3, <1>4, <1>5
  <2> QED BY <2>1, <1>5, ReadTaken
<1>6. ASSUME NEW more, Extends(more, bits) PROVE Same(more)
  BY <1>2, <1>3, <1>5, <1>6
<1>7. CASE Number(short.value.bits) < 15
  <2>1. ReadPrefix(bits, pos) = length(short)
    BY <1>1, <1>7 DEF ReadPrefix
  <2>2. ASSUME NEW more, Extends(more, bits)
        PROVE  ReadPrefix(more, pos) = length(short)
    <3>1. Read(more, pos, 4) = short
      BY <1>6, <2>2
    <3> QED BY <3>1, <1>1, <1>7 DEF ReadPrefix
  <2>3. length(short).value = [n |-> Number(short.value.bits), pos |-> pos + 4]
    BY <1>2 DEF Ok
  <2> QED BY <2>1, <2>2, <2>3, <1>2
<1>8. CASE ~(Number(short.value.bits) < 15) /\ Number(medium.value.bits) < 255
  <2>1. medium.ok
    BY <1>1, <1>8 DEF ReadPrefix
  <2>2. ReadPrefix(bits, pos) = length(medium)
    BY <1>1, <1>8, <2>1 DEF ReadPrefix
  <2>3. ASSUME NEW more, Extends(more, bits)
        PROVE  ReadPrefix(more, pos) = length(medium)
    <3>1. Read(more, pos, 4) = short /\ Read(more, pos + 4, 8) = medium
      BY <1>6, <2>1, <2>3
    <3> QED BY <3>1, <1>1, <1>8, <2>1 DEF ReadPrefix
  <2>4. length(medium).value = [n |-> Number(medium.value.bits), pos |-> (pos + 4) + 8]
    BY <1>3, <2>1 DEF Ok
  <2>5. Number(medium.value.bits) \in Nat /\ Reaches(bits, (pos + 4) + 8)
    BY <1>3, <2>1
  <2> QED BY <2>2, <2>3, <2>4, <2>5
<1>9. CASE ~(Number(short.value.bits) < 15) /\ ~(Number(medium.value.bits) < 255)
  <2>1. medium.ok
    BY <1>1, <1>9 DEF ReadPrefix
  <2>2. long.ok
    BY <1>1, <1>9, <2>1 DEF ReadPrefix
  <2>3. ReadPrefix(bits, pos) = length(long)
    BY <1>1, <1>9, <2>1, <2>2 DEF ReadPrefix
  <2>4. ASSUME NEW more, Extends(more, bits)
        PROVE  ReadPrefix(more, pos) = length(long)
    <3>1. /\ Read(more, pos, 4) = short /\ Read(more, pos + 4, 8) = medium
          /\ Read(more, pos + 12, 16) = long
      BY <1>6, <2>1, <2>2, <2>4
    <3> QED BY <3>1, <1>1, <1>9, <2>1, <2>2 DEF ReadPrefix
  <2>5. length(long).value = [n |-> Number(long.value.bits), pos |-> (pos + 12) + 16]
    BY <1>5, <2>1, <2>2 DEF Ok
  <2>6. Number(long.value.bits) \in Nat /\ Reaches(bits, (pos + 12) + 16)
    BY <1>5, <2>1, <2>2
  <2> QED BY <2>3, <2>4, <2>5, <2>6
<1> QED BY <1>7, <1>8, <1>9

-----------------------------------------------------------------------------
(* One field entry.                                                        *)
LEMMA BytesType ==
  ASSUME NEW n \in Nat
  PROVE  Bytes(n) \in Nat /\ 8 * Bytes(n) \in Nat /\ n <= 8 * Bytes(n)
BY DEF Bytes

(* A target as a value of n bits has n bits, and is the target when that   *)
(* has n bits itself.                                                      *)
LEMMA ValueType ==
  ASSUME NEW t \in Bits, NEW n \in Nat, BytesAsValue(t, n).ok
  PROVE  BytesAsValue(t, n).value \in Bits /\ Len(BytesAsValue(t, n).value) = n
<1> DEFINE room == 8 * Bytes(n)
           pad == Zeros(room - Len(t))
           wide == t \o pad
           excess == Len(t) - n
<1>1. room \in Nat /\ n <= room
  BY BytesType
<1>2. Len(t) \in Nat
  BY DEF Bits
<1>3. ~(Len(t) > room)
  BY DEF BytesAsValue, Err
<1> HIDE DEF room
<1>4. CASE n > 64
  <2>1. room - Len(t) \in Nat
    BY <1>1, <1>2, <1>3
  <2>2. pad \in Bits /\ Len(pad) = room - Len(t)
    BY <2>1, ZerosType
  <2> HIDE DEF pad
  <2>3. wide \in Bits /\ Len(wide) = Len(t) + (room - Len(t))
    BY <2>2, ConcatBits
  <2> HIDE DEF wide
  <2>4. n <= Len(wide)
    BY <1>1, <1>2, <2>3
  <2>5. BytesAsValue(t, n) = Ok(SubSeq(wide, 1, n))
    BY <1>3, <1>4 DEF BytesAsValue, Err, wide, pad, room
  <2>6. SubSeq(wide, 1, n) \in Bits /\ Len(SubSeq(wide, 1, n)) = n
    BY <2>3, <2>4, PrefixType
  <2> QED BY <2>5, <2>6 DEF Ok
<1>5. CASE ~(n > 64) /\ excess <= 0
  <2>1. BytesAsValue(t, n) = Ok(Zeros(n - Len(t)) \o t)
    BY <1>3, <1>5 DEF BytesAsValue, room
  <2>2. n - Len(t) \in Nat
    BY <1>2, <1>5
  <2>3. Zeros(n - Len(t)) \in Bits /\ Len(Zeros(n - Len(t))) = n - Len(t)
    BY <2>2, ZerosType
  <2>4. /\ Zeros(n - Len(t)) \o t \in Bits
        /\ Len(Zeros(n - Len(t)) \o t) = (n - Len(t)) + Len(t)
    BY <2>3, ConcatBits
  <2>5. (n - Len(t)) + Len(t) = n
    BY <1>2
  <2> QED BY <2>1, <2>4, <2>5 DEF Ok
<1>6. CASE ~(n > 64) /\ ~(excess <= 0)
  <2>1. BytesAsValue(t, n) = Ok(From(t, excess))
    BY <1>3, <1>6 DEF BytesAsValue, Err, room
  <2>2. excess \in Nat /\ excess <= Len(t) /\ Len(t) - excess = n
    BY <1>2, <1>6
  <2> HIDE DEF excess
  <2>3. From(t, excess) \in Bits /\ Len(From(t, excess)) = Len(t) - excess
    BY <2>2, FromType
  <2> QED BY <2>1, <2>2, <2>3 DEF Ok
<1> QED BY <1>4, <1>5, <1>6

LEMMA ValueOfOwnWidth ==
  ASSUME NEW t \in Bits
  PROVE  BytesAsValue(t, Len(t)) = Ok(t)
<1> DEFINE n == Len(t)
           room == 8 * Bytes(n)
           pad == Zeros(room - Len(t))
           wide == t \o pad
<1>1. n \in Nat
  BY DEF Bits
<1>2. room \in Nat /\ n <= room /\ room - n \in Nat
  <2>1. room \in Nat /\ n <= room
    BY <1>1, BytesType
  <2> HIDE DEF room, n
  <2> QED BY <1>1, <2>1
<1>3. pad \in Bits /\ Len(pad) = room - n /\ \A i \in 1..(room - n) : pad[i] = 0
  BY <1>2, ZerosType
<1>4. CASE n > 64
  <2>1. /\ wide \in Bits /\ Len(wide) = n + (room - n)
        /\ \A i \in 1..n : wide[i] = t[i]
        /\ \A i \in 1..(room - n) : wide[n + i] = 0
    <3> HIDE DEF pad, room
    <3>1. /\ wide \in Bits /\ Len(wide) = Len(t) + Len(pad)
          /\ \A i \in 1..Len(t) : wide[i] = t[i]
          /\ \A i \in 1..Len(pad) : wide[Len(t) + i] = pad[i]
      BY <1>3, ConcatBits
    <3> HIDE DEF wide
    <3> QED BY <3>1, <1>3
  <2>2. ~(1 \in {wide[i] : i \in (n + 1)..room})
    <3> SUFFICES ASSUME NEW i \in (n + 1)..room PROVE wide[i] # 1
      OBVIOUS
    <3> HIDE DEF room, wide, n
    <3>1. i - n \in 1..(room - n) /\ n + (i - n) = i
      BY <1>1, <1>2
    <3> QED BY <2>1, <3>1
  <2>3. BytesAsValue(t, n) = Ok(SubSeq(wide, 1, n))
    <3>1. ~(Len(t) > room)
      <4> HIDE DEF room
      <4> QED BY <1>1, <1>2
    <3> QED BY <3>1, <2>2, <1>4 DEF BytesAsValue
  <2>4. SubSeq(wide, 1, n) = t
    <3>1. n <= Len(wide)
      <4> HIDE DEF room, wide, n
      <4> QED BY <1>1, <1>2, <2>1
    <3>2. /\ SubSeq(wide, 1, n) \in Bits /\ Len(SubSeq(wide, 1, n)) = n
          /\ \A i \in 1..n : SubSeq(wide, 1, n)[i] = wide[i]
      <4> HIDE DEF wide
      <4> QED BY <1>1, <2>1, <3>1, PrefixType
    <3> HIDE DEF wide
    <3> QED BY <2>1, <3>2, SameBits
  <2> QED BY <2>3, <2>4
<1>5. CASE ~(n > 64)
  <2>1. Len(t) - n <= 0 /\ n - Len(t) = 0
    BY <1>1
  <2>2. ~(Len(t) > room)
    <3> HIDE DEF room
    <3> QED BY <1>1, <1>2
  <2>3. BytesAsValue(t, n) = Ok(Zeros(n - Len(t)) \o t)
    BY <2>1, <2>2, <1>5 DEF BytesAsValue
  <2>4. Zeros(0) = <<>>
    BY ZerosType DEF Bits
  <2>5. <<>> \o t = t
    BY ConcatEmptySeq DEF Bits
  <2> QED BY <2>1, <2>3, <2>4, <2>5
<1> QED BY <1>4, <1>5

(* The index of a mapping value fits in the bits that are sent for it.     *)
LEMMA IndexFits ==
  ASSUME NEW count \in Nat
  PROVE  /\ IndexBits(count) \in Nat
         /\ \A i \in 1..count : i - 1 \in Nat /\ Fits(i - 1, IndexBits(count))
<1>1. CASE count <= 1
  <2>1. IndexBits(count) = 0
    BY <1>1 DEF IndexBits
  <2>2. ASSUME NEW i \in 1..count PROVE i - 1 = 0
    BY <1>1
  <2>3. Fits(0, 0)
    BY DEF Fits
  <2> QED BY <2>1, <2>2, <2>3
<1>2. CASE count > 1
  <2> DEFINE T == {b \in Nat : 2^b > count - 1}
  <2>1. count \in T
    <3>1. 2^count \in Nat /\ 2^count > count
      BY PowerPositive
    <3> DEFINE p == 2^count
    <3> HIDE DEF p
    <3>2. p > count - 1
      BY <3>1 DEF p
    <3> QED BY <3>2 DEF p
  <2>2. PICK b \in T : \A c \in T : b <= c
    BY <2>1, LeastElement
  <2>3. b # 0
    <3>1. ~(2^0 > count - 1)
      BY <1>2
    <3> QED BY <2>2, <3>1
  <2>4. b \in 1..count /\ b - 1 \in Nat
    BY <2>1, <2>2, <2>3
  <2>5. ~(2^(b - 1) > count - 1)
    BY <2>2, <2>4
  <2>6. 2^b > count - 1 /\ 2^(b - 1) <= count - 1
    <3>1. 2^(b - 1) \in Nat
      BY <2>4, PowerPositive
    <3> DEFINE p == 2^(b - 1)
    <3> HIDE DEF p
    <3>2. p <= count - 1
      BY <2>5, <3>1 DEF p
    <3> QED BY <2>2, <3>2 DEF p
  <2> DEFINE Good(x) == 2^x > count - 1 /\ 2^(x - 1) <= count - 1
             k == CHOOSE x \in 1..count : Good(x)
  <2>7. k \in 1..count /\ Good(k)
    BY <2>4, <2>6
  <2>8. IndexBits(count) = k
    <3>1. ~(count <= 1)
      BY <1>2
    <3> QED BY <3>1, Zenon DEF IndexBits
  <2> HIDE DEF k
  <2>9. ASSUME NEW i \in 1..count PROVE i - 1 \in Nat /\ Fits(i - 1, k)
    <3>1. k \in Nat /\ 2^k > count - 1
      BY <2>7
    <3>2. 2^k \in Nat
      BY <3>1, PowerPositive
    <3> DEFINE p == 2^k
    <3> HIDE DEF p
    <3>3. i - 1 < p
      BY <3>1, <3>2 DEF p
    <3> QED BY <3>3 DEF p, Fits
  <2> QED BY <2>7, <2>8, <2>9
<1> QED BY <1>1, <1>2

(* The first and the last of some positions.                               *)
LEMMA FirstPosition ==
  ASSUME NEW S, S \subseteq Nat, S # {}
  PROVE  Min(S) \in S /\ \A x \in S : Min(S) <= x
<1>1. \E x \in S : \A y \in S : x <= y
  BY LeastElement
<1> QED BY <1>1 DEF Min

LEMMA LastPosition ==
  ASSUME NEW n \in Nat, NEW S, S \subseteq 1..n, S # {}
  PROVE  Max(S) \in S
<1> DEFINE T == {n - x : x \in S}
<1>1. T \subseteq Nat /\ T # {}
  OBVIOUS
<1>2. PICK m \in T : \A y \in T : m <= y
  BY <1>1, LeastElement
<1>3. PICK x \in S : m = n - x
  BY <1>2
<1>4. ASSUME NEW y \in S PROVE x >= y
  <2>1. n - x <= n - y
    BY <1>2, <1>3
  <2>2. x \in Nat /\ y \in Nat
    OBVIOUS
  <2> QED BY <2>1, <2>2
<1>5. \E z \in S : \A y \in S : z >= y
  BY <1>3, <1>4
<1> QED BY <1>5 DEF Max

LEMMA ResolveType ==
  ASSUME NEW store \in Seq(StoredFields), NEW length \in [kind: LengthKinds, n: Nat],
         length.kind \notin {"bytes", "bits"}, Resolve(length, store).ok
  PROVE  Resolve(length, store).value \in Nat
<1> DEFINE known == {i \in 1..Len(store) : store[i].index = length.n}
           tkl == {i \in 1..Len(store) : store[i].field = "coap-tkl"}
<1>0. ASSUME NEW i \in 1..Len(store) PROVE Number(store[i].value) \in Nat
  <2>1. store[i] \in StoredFields
    BY ElementOfSeq
  <2>2. store[i].value \in Bits
    BY <2>1 DEF StoredFields
  <2> QED BY <2>2, NumberType
<1>1. CASE length.kind = "fixed"
  BY <1>1 DEF Resolve, Ok
<1>2. CASE length.kind = "token"
  <2>1. tkl # {}
    BY <1>2 DEF Resolve, Err
  <2>2. Max(tkl) \in 1..Len(store)
    <3>1. Len(store) \in Nat /\ tkl \subseteq 1..Len(store)
      BY LenProperties
    <3> HIDE DEF tkl
    <3>2. Max(tkl) \in tkl
      BY <2>1, <3>1, LastPosition
    <3> QED BY <3>1, <3>2
  <2>3. Resolve(length, store) = Ok(8 * Number(store[Max(tkl)].value))
    BY <1>2, <2>1 DEF Resolve
  <2> HIDE DEF tkl
  <2>4. Number(store[Max(tkl)].value) \in Nat
    BY <1>0, <2>2
  <2> QED BY <2>3, <2>4 DEF Ok
<1>3. CASE length.kind = "function"
  BY <1>3 DEF Resolve, Err
<1>4. CASE length.kind \in {"previous", "previous-bits"}
  <2>1. known # {}
    BY <1>4 DEF Resolve, Err
  <2>2. Min(known) \in 1..Len(store)
    <3>1. Len(store) \in Nat /\ known \subseteq 1..Len(store)
      BY LenProperties
    <3> HIDE DEF known
    <3>2. known \subseteq Nat
      BY <3>1
    <3>3. Min(known) \in known
      BY <2>1, <3>2, FirstPosition
    <3> QED BY <3>1, <3>3
  <2> DEFINE m == Number(store[Min(known)].value)
  <2>3. m \in Nat
    <3> HIDE DEF known
    <3> QED BY <1>0, <2>2
  <2>4. Resolve(length, store) = Ok(m * (IF length.kind = "previous" THEN 8 ELSE 1))
    BY <1>4, <2>1 DEF Resolve, Err
  <2> HIDE DEF m
  <2>5. m * (IF length.kind = "previous" THEN 8 ELSE 1) \in Nat
    BY <2>3
  <2> QED BY <2>4, <2>5 DEF Ok
<1> QED BY <1>1, <1>2, <1>3, <1>4 DEF LengthKinds

-----------------------------------------------------------------------------
(* What an outcome holds.                                                  *)
LEMMA Outcomes ==
  /\ \A v : Ok(v).ok /\ Ok(v).value = v
  /\ \A e : ~Err(e).ok
  /\ \A n, pos : /\ Ok([n |-> n, pos |-> pos]).value.n = n
                 /\ Ok([n |-> n, pos |-> pos]).value.pos = pos
  /\ \A v, pos : /\ Ok([value |-> v, pos |-> pos]).value.value = v
                 /\ Ok([value |-> v, pos |-> pos]).value.pos = pos
BY DEF Ok, Err

(* Decoding one field stays within the readable bits, yields a bit string, *)
(* and yields the same one when more bits follow.                          *)
Decodable(entry) ==
  /\ entry \in FieldEntries
  /\ ValidEntry(entry)
  /\ entry.field # Marker
  /\ entry.action # "compute"

LEMMA EntryFacts ==
  ASSUME NEW entry, Decodable(entry)
  PROVE  /\ entry.target.values \in Seq(Bits)
         /\ entry.matching.n \in Nat
         /\ entry.length \in [kind: LengthKinds, n: Nat]
         /\ entry.action \in Actions \ {"compute"}
         /\ entry.action \in {"not-sent", "lsb"} => Target(entry) \in Bits
         /\ entry.matching.kind \in {"equal", "msb"} => Target(entry) \in Bits
         /\ entry.action = "device-iid" => entry.field = "ipv6-deviid"
         /\ entry.action = "app-iid" => entry.field = "ipv6-appiid"
<1>1. /\ entry.target.values \in Seq(Bits)
      /\ entry.matching.n \in Nat
      /\ entry.length \in [kind: LengthKinds, n: Nat]
      /\ entry.action \in Actions
      /\ entry.target.kind = "bytes" => Len(entry.target.values) = 1
  BY DEF Decodable, FieldEntries
<1>2. ASSUME entry.target.kind = "bytes" PROVE Target(entry) \in Bits
  <2>1. 1 \in 1..Len(entry.target.values)
    <3>1. Len(entry.target.values) = 1
      BY <1>1, <1>2
    <3> QED BY <3>1
  <2> QED BY <2>1, <1>1, ElementOfSeq DEF Target
<1>3. /\ entry.action \in {"not-sent", "lsb"} => entry.target.kind = "bytes"
      /\ entry.matching.kind \in {"equal", "msb"} => entry.target.kind = "bytes"
      /\ entry.action = "device-iid" => entry.field = "ipv6-deviid"
      /\ entry.action = "app-iid" => entry.field = "ipv6-appiid"
  BY DEF Decodable, ValidEntry
<1> QED BY <1>1, <1>2, <1>3 DEF Decodable

LEMMA LengthTaken ==
  ASSUME NEW entry, Decodable(entry), NEW bits \in Bits, NEW pos, Reaches(bits, pos),
         NEW store \in Seq(StoredFields), DecodeLength(entry, bits, pos, store).ok
  PROVE  /\ DecodeLength(entry, bits, pos, store).value.n \in Nat
         /\ Reaches(bits, DecodeLength(entry, bits, pos, store).value.pos)
         /\ \A more : Extends(more, bits) =>
              DecodeLength(entry, more, pos, store) = DecodeLength(entry, bits, pos, store)
<1> DEFINE at(n) == Ok([n |-> n, pos |-> pos])
           prefix == ReadPrefix(bits, pos)
           unit == IF entry.length.kind = "bytes" THEN 8 ELSE 1
           known == Resolve(entry.length, store)
<1>1. CASE Variable(entry) /\ entry.action = "not-sent"
  <2>1. \A b : DecodeLength(entry, b, pos, store) = at(Len(Target(entry)))
    BY <1>1 DEF DecodeLength
  <2> DEFINE k == Len(Target(entry))
  <2>2. k \in Nat
    BY <1>1, EntryFacts DEF Bits
  <2> HIDE DEF k
  <2> QED BY <2>1, <2>2, Outcomes
<1>2. CASE Variable(entry) /\ entry.action = "mapping-sent"
  <2>1. \A b : DecodeLength(entry, b, pos, store) = at(0)
    BY <1>2 DEF DecodeLength
  <2>2. at(0).value = [n |-> 0, pos |-> pos]
    BY Outcomes
  <2>3. DecodeLength(entry, bits, pos, store).value.n = 0
    BY <2>1, <2>2
  <2>4. DecodeLength(entry, bits, pos, store).value.pos = pos
    BY <2>1, <2>2
  <2> QED BY <2>1, <2>3, <2>4
<1>3. CASE Variable(entry) /\ entry.action \notin {"not-sent", "mapping-sent"}
  <2>1. \A b : DecodeLength(entry, b, pos, store) =
                 IF ReadPrefix(b, pos).ok
                 THEN Ok([ReadPrefix(b, pos).value EXCEPT !.n = unit * @])
                 ELSE ReadPrefix(b, pos)
    BY <1>3 DEF DecodeLength
  <2>2. prefix.ok
    BY <2>1
  <2>3. /\ prefix.value.n \in Nat
        /\ Reaches(bits, prefix.value.pos)
        /\ \A more : Extends(more, bits) => ReadPrefix(more, pos) = prefix
    BY <2>2, PrefixTaken
  <2>4. prefix.value = [n |-> prefix.value.n, pos |-> prefix.value.pos]
    BY <2>2 DEF ReadPrefix, Ok
  <2> DEFINE q == prefix.value
  <2>5. DecodeLength(entry, bits, pos, store)
          = Ok([n |-> unit * q.n, pos |-> q.pos])
    <3> HIDE DEF prefix
    <3>1. [q EXCEPT !.n = unit * @] = [n |-> unit * q.n, pos |-> q.pos]
      BY <2>4
    <3> QED BY <2>1, <2>2, <3>1 DEF prefix
  <2>6. unit * q.n \in Nat
    <3> HIDE DEF q
    <3> QED BY <2>3 DEF q
  <2>7. ASSUME NEW more, Extends(more, bits)
        PROVE  DecodeLength(entry, more, pos, store) = DecodeLength(entry, bits, pos, store)
    BY <2>1, <2>3, <2>7
  <2> HIDE DEF unit, prefix
  <2> QED BY <2>3, <2>5, <2>6, <2>7, Outcomes
<1>4. CASE ~Variable(entry)
  <2>1. \A b : DecodeLength(entry, b, pos, store)
                 = IF known.ok THEN at(known.value) ELSE known
    BY <1>4 DEF DecodeLength
  <2>2. known.ok
    BY <2>1
  <2>3. known.value \in Nat
    <3>1. entry.length.kind \notin {"bytes", "bits"}
      BY <1>4 DEF Variable
    <3> QED BY <2>2, <3>1, EntryFacts, ResolveType
  <2> HIDE DEF known
  <2> QED BY <2>1, <2>2, <2>3, Outcomes
<1> QED BY <1>1, <1>2, <1>3, <1>4

LEMMA ValueTaken ==
  ASSUME NEW entry, Decodable(entry), NEW bits \in Bits, NEW pos, Reaches(bits, pos),
         NEW n \in Nat, DecodeValue(entry, n, bits, pos).ok
  PROVE  /\ DecodeValue(entry, n, bits, pos).value.value \in Bits
         /\ Reaches(bits, DecodeValue(entry, n, bits, pos).value.pos)
         /\ \A more : Extends(more, bits) =>
              DecodeValue(entry, n, more, pos) = DecodeValue(entry, n, bits, pos)
<1> DEFINE t == BytesAsValue(Target(entry), n)
<1>1. CASE entry.action = "not-sent"
  <2>1. \A b : DecodeValue(entry, n, b, pos)
                 = IF t.ok THEN Ok([value |-> t.value, pos |-> pos]) ELSE t
    BY <1>1 DEF DecodeValue, DecodeNotSent
  <2>2. t.ok
    BY <2>1
  <2>3. t.value \in Bits
    BY <1>1, <2>2, EntryFacts, ValueType
  <2> HIDE DEF t
  <2> QED BY <2>1, <2>2, <2>3, Outcomes
<1>2. CASE entry.action = "value-sent"
  <2> DEFINE r(b) == Read(b, pos, n)
  <2>1. \A b : DecodeValue(entry, n, b, pos)
                 = IF r(b).ok THEN Ok([value |-> r(b).value.bits, pos |-> r(b).value.pos])
                   ELSE r(b)
    BY <1>2 DEF DecodeValue
  <2>2. r(bits).ok
    BY <2>1
  <2>3. /\ r(bits).value.bits \in Bits /\ Reaches(bits, r(bits).value.pos)
        /\ \A more : Extends(more, bits) => r(more) = r(bits)
    BY <2>2, ReadTaken
  <2> HIDE DEF r
  <2>4. DecodeValue(entry, n, bits, pos)
          = Ok([value |-> r(bits).value.bits, pos |-> r(bits).value.pos])
    BY <2>1, <2>2
  <2>5. ASSUME NEW more, Extends(more, bits)
        PROVE  DecodeValue(entry, n, more, pos) = DecodeValue(entry, n, bits, pos)
    <3>1. r(more) = r(bits)
      BY <2>3, <2>5
    <3>2. DecodeValue(entry, n, more, pos)
            = Ok([value |-> r(more).value.bits, pos |-> r(more).value.pos])
      BY <2>1, <2>2, <3>1
    <3> QED BY <2>4, <3>1, <3>2
  <2> QED BY <2>3, <2>4, <2>5, Outcomes
<1>3. CASE entry.action = "mapping-sent"
  <2> DEFINE values == entry.target.values
             k == IndexBits(Len(values))
             r(b) == Read(b, pos, k)
             index(b) == Number(r(b).value.bits) + 1
  <2>0. values \in Seq(Bits) /\ Len(values) \in Nat
    BY EntryFacts
  <2>1. \A b : DecodeValue(entry, n, b, pos)
                 = IF ~r(b).ok THEN r(b)
                   ELSE IF index(b) > Len(values) THEN Err("InvalidResidue")
                   ELSE Ok([value |-> values[index(b)], pos |-> r(b).value.pos])
    BY <1>3 DEF DecodeValue, DecodeMapping
  <2>2. r(bits).ok
    BY <2>1
  <2>3. k \in Nat
    <3> HIDE DEF values
    <3> QED BY <2>0, IndexFits
  <2>4. /\ Number(r(bits).value.bits) \in Nat /\ Reaches(bits, r(bits).value.pos)
        /\ \A more : Extends(more, bits) => r(more) = r(bits)
    <3> HIDE DEF k
    <3> QED BY <2>2, <2>3, ReadTaken
  <2> HIDE DEF r, values
  <2>5. ~(index(bits) > Len(values))
    BY <2>1, <2>2, Outcomes
  <2>6. index(bits) \in 1..Len(values)
    <3>1. index(bits) \in Nat /\ index(bits) >= 1
      BY <2>4
    <3> HIDE DEF index
    <3> QED BY <2>0, <2>5, <3>1
  <2>7. values[index(bits)] \in Bits
    <3> HIDE DEF index
    <3> QED BY <2>0, <2>6, ElementOfSeq
  <2>8. \A more : Extends(more, bits) => index(more) = index(bits)
    BY <2>4
  <2> HIDE DEF index
  <2>9. DecodeValue(entry, n, bits, pos)
          = Ok([value |-> values[index(bits)], pos |-> r(bits).value.pos])
    BY <2>1, <2>2, <2>5
  <2>10. ASSUME NEW more, Extends(more, bits)
         PROVE  DecodeValue(entry, n, more, pos) = DecodeValue(entry, n, bits, pos)
    <3>1. r(more) = r(bits) /\ index(more) = index(bits)
      BY <2>4, <2>8, <2>10
    <3>2. DecodeValue(entry, n, more, pos)
            = Ok([value |-> values[index(more)], pos |-> r(more).value.pos])
      BY <2>1, <2>2, <2>5, <3>1
    <3> QED BY <2>9, <3>1, <3>2
  <2> QED BY <2>4, <2>7, <2>9, <2>10, Outcomes
<1>4. CASE entry.action = "lsb"
  <2> DEFINE m == entry.matching.n
             r(b) == Read(b, pos, n - m)
             top == SubSeq(t.value, 1, m)
  <2>1. \A b : DecodeValue(entry, n, b, pos)
                 = IF m > n THEN Err("InvalidBitLength")
                   ELSE IF ~t.ok THEN t
                   ELSE IF ~r(b).ok THEN r(b)
                   ELSE Ok([value |-> top \o r(b).value.bits, pos |-> r(b).value.pos])
    BY <1>4 DEF DecodeValue, DecodeLsb
  <2>2. ~(m > n) /\ t.ok /\ r(bits).ok
    <3> HIDE DEF m, t, r
    <3>1. DecodeValue(entry, n, bits, pos).ok
      OBVIOUS
    <3>2. CASE m > n
      BY <2>1, <3>1, <3>2, Outcomes
    <3>3. CASE ~(m > n) /\ ~t.ok
      BY <2>1, <3>1, <3>3
    <3>4. CASE ~(m > n) /\ t.ok /\ ~r(bits).ok
      BY <2>1, <3>1, <3>4
    <3> QED BY <3>2, <3>3, <3>4
  <2>3. m \in Nat /\ n - m \in Nat
    <3>1. m \in Nat
      BY EntryFacts
    <3> HIDE DEF m
    <3> QED BY <2>2, <3>1
  <2>4. /\ r(bits).value.bits \in Bits /\ Reaches(bits, r(bits).value.pos)
        /\ \A more : Extends(more, bits) => r(more) = r(bits)
    <3> HIDE DEF m
    <3>1. (n - m) \in Nat /\ Read(bits, pos, n - m).ok
      BY <2>2, <2>3
    <3>2. /\ Read(bits, pos, n - m).value.bits \in Bits
          /\ Reaches(bits, pos + (n - m))
          /\ Read(bits, pos, n - m).value.pos = pos + (n - m)
          /\ \A more : Extends(more, bits) =>
               Read(more, pos, n - m) = Read(bits, pos, n - m)
      BY <3>1, ReadTaken
    <3> QED BY <3>2
  <2>5. t.value \in Bits /\ Len(t.value) = n
    BY <1>4, <2>2, EntryFacts, ValueType
  <2>6. top \in Bits
    <3> HIDE DEF t, m
    <3>1. m <= Len(t.value)
      BY <2>2, <2>3, <2>5
    <3> QED BY <2>3, <2>5, <3>1, PrefixType
  <2>7. top \o r(bits).value.bits \in Bits
    <3> HIDE DEF top, r
    <3> QED BY <2>4, <2>6, ConcatBits
  <2> HIDE DEF top, r, m, t
  <2>8. DecodeValue(entry, n, bits, pos)
          = Ok([value |-> top \o r(bits).value.bits, pos |-> r(bits).value.pos])
    BY <2>1, <2>2
  <2>9. ASSUME NEW more, Extends(more, bits)
        PROVE  DecodeValue(entry, n, more, pos) = DecodeValue(entry, n, bits, pos)
    BY <2>1, <2>4, <2>9
  <2> DEFINE w == top \o r(bits).value.bits
             q == r(bits).value.pos
  <2>10. w \in Bits /\ Reaches(bits, q)
    BY <2>4, <2>7
  <2>11. DecodeValue(entry, n, bits, pos) = Ok([value |-> w, pos |-> q])
    BY <2>8
  <2> HIDE DEF w, q
  <2> QED BY <2>9, <2>10, <2>11, Outcomes
<1>5. CASE entry.action \in {"device-iid", "app-iid"}
  <2> DEFINE v == BytesAsValue(Provider[entry.field], n)
  <2>1. \A b : DecodeValue(entry, n, b, pos) = DecodeIid(entry, n, pos)
    BY <1>5 DEF DecodeValue
  <2>2. Provider # NoProvider
    BY <2>1 DEF DecodeIid, Err
  <2>3. /\ v.ok
        /\ DecodeIid(entry, n, pos) = Ok([value |-> v.value, pos |-> pos])
    <3>1. \/ DecodeIid(entry, n, pos) = Err("InvalidResidue")
          \/ /\ v.ok
             /\ DecodeIid(entry, n, pos) = Ok([value |-> v.value, pos |-> pos])
          \/ /\ ~v.ok
             /\ DecodeIid(entry, n, pos) = v
      BY <2>2 DEF DecodeIid
    <3> HIDE DEF v
    <3> QED BY <2>1, <3>1, Outcomes
  <2>4. entry.field \in IidFields
    BY <1>5, EntryFacts DEF IidFields
  <2>5. Provider[entry.field] \in Bits
    BY <2>2, <2>4, ProviderAssumption
  <2>6. v.value \in Bits
    BY <2>3, <2>5, ValueType
  <2> HIDE DEF v
  <2> QED BY <2>1, <2>3, <2>6, Outcomes
<1>6. entry.action \in Actions \ {"compute"}
  BY EntryFacts
<1> QED BY <1>1, <1>2, <1>3, <1>4, <1>5, <1>6 DEF Actions

(* Decoding a field takes bits that are there, and what it yields does not *)
(* depend on the bits behind those it took.                                *)
LEMMA FieldTaken ==
  ASSUME NEW entry, Decodable(entry), NEW bits \in Bits, NEW pos, Reaches(bits, pos),
         NEW store \in Seq(StoredFields), DecodeField(entry, bits, pos, store).ok
  PROVE  /\ DecodeField(entry, bits, pos, store).value.value \in Bits
         /\ Reaches(bits, DecodeField(entry, bits, pos, store).value.pos)
         /\ \A more : Extends(more, bits) =>
              DecodeField(entry, more, pos, store) = DecodeField(entry, bits, pos, store)
<1> DEFINE length(b) == DecodeLength(entry, b, pos, store)
           decoded(b) == DecodeValue(entry, length(b).value.n, b, length(b).value.pos)
           odd(b) == /\ decoded(b).ok
                     /\ entry.field = "coap-tkl"
                     /\ Len(decoded(b).value.value) > 64
<1>1. \A b : DecodeField(entry, b, pos, store)
               = IF ~length(b).ok THEN length(b)
                 ELSE IF odd(b) THEN Err("InvalidBitLength") ELSE decoded(b)
  BY DEF DecodeField
<1>2. length(bits).ok
  BY <1>1
<1>3. /\ length(bits).value.n \in Nat
      /\ Reaches(bits, length(bits).value.pos)
      /\ \A more : Extends(more, bits) => length(more) = length(bits)
  BY <1>2, LengthTaken
<1>4. ~odd(bits) /\ decoded(bits).ok
  <2>1. CASE odd(bits)
    <3> HIDE DEF odd, length
    <3> QED BY <1>1, <1>2, <2>1, Outcomes
  <2>2. CASE ~odd(bits)
    <3> HIDE DEF odd, decoded
    <3> QED BY <1>1, <1>2, <2>2
  <2> QED BY <2>1, <2>2
<1>5. /\ decoded(bits).value.value \in Bits
      /\ Reaches(bits, decoded(bits).value.pos)
      /\ \A more : Extends(more, bits) =>
           DecodeValue(entry, length(bits).value.n, more, length(bits).value.pos)
             = decoded(bits)
  <2> HIDE DEF length
  <2> QED BY <1>3, <1>4, ValueTaken
<1>6. ASSUME NEW more, Extends(more, bits)
      PROVE  length(more) = length(bits) /\ decoded(more) = decoded(bits)
  <2> HIDE DEF length
  <2> QED BY <1>3, <1>5, <1>6
<1>7. DecodeField(entry, bits, pos, store) = decoded(bits)
  <2> HIDE DEF odd, decoded, length
  <2> QED BY <1>1, <1>2, <1>4
<1>8. ASSUME NEW more, Extends(more, bits)
      PROVE  DecodeField(entry, more, pos, store) = decoded(bits)
  <2>1. length(more).ok /\ ~odd(more) /\ decoded(more) = decoded(bits)
    <3> HIDE DEF decoded, length
    <3> QED BY <1>2, <1>4, <1>6, <1>8
  <2> HIDE DEF odd, decoded, length
  <2> QED BY <1>1, <2>1
<1> HIDE DEF decoded
<1> QED BY <1>5, <1>7, <1>8

-----------------------------------------------------------------------------
(* Errors.  The steps that code and decode a field report none of the      *)
(* errors that a rule set, or all attempts together, give rise to.         *)
StepErrors ==
  {"BitOutOfBounds", "InvalidResidue", "InvalidBitLength", "Packet",
   "UnknownSid"}

Plain(outcome) == outcome.ok \/ outcome.error \in StepErrors

LEMMA PlainOutcomes ==
  /\ \A v : Plain(Ok(v))
  /\ \A e \in StepErrors : Plain(Err(e))
BY DEF Plain, Ok, Err

LEMMA PlainErrors ==
  /\ Plain(Err("BitOutOfBounds")) /\ Plain(Err("InvalidResidue"))
  /\ Plain(Err("InvalidBitLength")) /\ Plain(Err("Packet"))
  /\ Plain(Err("UnknownSid"))
BY PlainOutcomes DEF StepErrors

LEMMA ReadPlain == \A bits, from, n : Plain(Read(bits, from, n))
<1> TAKE bits, from, n
<1>1. CASE n > Len(bits) - from
  BY <1>1, PlainErrors DEF Read
<1>2. CASE ~(n > Len(bits) - from)
  BY <1>2, PlainOutcomes DEF Read
<1> QED BY <1>1, <1>2

LEMMA PrefixPlain == \A bits, from : Plain(ReadPrefix(bits, from))
<1> TAKE bits, from
<1> DEFINE short == Read(bits, from, 4)
           medium == Read(bits, from + 4, 8)
           long == Read(bits, from + 12, 16)
           length(r) == Ok([n |-> Number(r.value.bits), pos |-> r.value.pos])
<1>1. ReadPrefix(bits, from) \in {short, medium, long,
                                 length(short), length(medium), length(long)}
  BY DEF ReadPrefix
<1>2. Plain(short) /\ Plain(medium) /\ Plain(long)
  BY ReadPlain
<1>3. \A r : Plain(length(r))
  BY PlainOutcomes
<1> HIDE DEF short, medium, long, length
<1> QED BY <1>1, <1>2, <1>3

LEMMA ValuePlain == \A target, n : Plain(BytesAsValue(target, n))
<1> TAKE target, n
<1> DEFINE room == 8 * Bytes(n)
           wide == target \o Zeros(room - Len(target))
           excess == Len(target) - n
<1>1. \/ BytesAsValue(target, n) = Err("InvalidResidue")
      \/ BytesAsValue(target, n) = Err("InvalidBitLength")
      \/ \E v : BytesAsValue(target, n) = Ok(v)
  BY DEF BytesAsValue
<1> QED BY <1>1, PlainErrors, PlainOutcomes

LEMMA ResolvePlain ==
  ASSUME NEW length, length.kind \in LengthKinds \ {"bytes", "bits"}, NEW store
  PROVE  Plain(Resolve(length, store))
<1>1. length.kind \in {"fixed", "token", "previous", "previous-bits", "function"}
  BY DEF LengthKinds
<1>2. \/ Resolve(length, store) = Err("InvalidResidue")
      \/ Resolve(length, store) = Err("InvalidBitLength")
      \/ \E v : Resolve(length, store) = Ok(v)
  BY <1>1 DEF Resolve
<1> QED BY <1>2, PlainErrors, PlainOutcomes
=============================================================================
