---------------------------- MODULE ChecksumProofs ----------------------------
(***************************************************************************)
(* What the checksum loop of PacketFrames computes, for sequences of words *)
(* of any length.  Induction goes by the least counterexample: the theorem *)
(* on well-founded relations takes a set, not an operator.                 *)
(***************************************************************************)
EXTENDS PacketFrames, SequenceTheorems, WellFoundedInduction, TLAPS

-----------------------------------------------------------------------------
(* Induction and recursion *)

\* A set of numbers with 0, and with n + 1 where n is in it, has all of them.
LEMMA Every ==
  ASSUME NEW S, 0 \in S, \A n \in Nat : n \in S => n + 1 \in S
  PROVE  Nat \subseteq S
<1> SUFFICES ASSUME Nat \ S # {} PROVE FALSE
  OBVIOUS
<1> DEFINE R == OpToRel(<, Nat)
<1>1. \A m, n \in Nat : m < n => <<m, n>> \in R
  BY DEF OpToRel
<1>2. IsWellFoundedOn(R, Nat)
  BY NatLessThanWellFounded
<1> HIDE DEF R
<1>3. PICK n \in Nat \ S : \A m \in Nat \ S : ~(<<m, n>> \in R)
  BY <1>2, WFMin
<1>4. n # 0 /\ n - 1 \in Nat /\ n - 1 < n /\ (n - 1) + 1 = n
  BY <1>3
<1> QED BY <1>1, <1>3, <1>4

\* g starts at 0, and step takes it from each index up to n to the next.
Runs(g, step, n) == /\ g \in [0 .. n -> Nat] /\ g[0] = 0
                    /\ \A i \in 1 .. n : g[i] = step[<<g[i - 1], i>>]

\* There is such a function for every n.
LEMMA Recursion ==
  ASSUME NEW step \in [Nat \X Nat -> Nat], NEW n \in Nat
  PROVE  \E g : Runs(g, step, n)
<1> DEFINE S == {m \in Nat : \E g : Runs(g, step, m)}
<1>1. 0 \in S
  <2>1. Runs([i \in 0 .. 0 |-> 0], step, 0)
    BY DEF Runs
  <2> QED BY <2>1
<1>2. ASSUME NEW m \in Nat, m \in S PROVE m + 1 \in S
  <2>1. PICK g : Runs(g, step, m)
    BY <1>2
  <2> DEFINE h == [i \in 0 .. m + 1 |-> IF i = m + 1 THEN step[<<g[m], m + 1>>] ELSE g[i]]
  <2>2. g \in [0 .. m -> Nat] /\ g[m] \in Nat /\ step[<<g[m], m + 1>>] \in Nat
    BY <2>1 DEF Runs
  <2>3. h \in [0 .. m + 1 -> Nat] /\ h[0] = 0
    BY <2>1, <2>2 DEF Runs
  <2>4. ASSUME NEW i \in 1 .. m + 1 PROVE h[i] = step[<<h[i - 1], i>>]
    <3>1. CASE i = m + 1
      <4>1. i - 1 = m /\ m \in 0 .. m + 1 /\ m # m + 1
        BY <3>1
      <4>2. h[m + 1] = step[<<g[m], m + 1>>] /\ h[m] = g[m]
        BY <4>1
      <4> QED BY <3>1, <4>1, <4>2
    <3>2. CASE i # m + 1
      <4>1. i \in 1 .. m /\ i - 1 \in 0 .. m /\ i \in 0 .. m
        BY <3>2
      <4> QED BY <2>1, <4>1 DEF Runs
    <3> QED BY <3>1, <3>2
  <2> HIDE DEF h
  <2>5. Runs(h, step, m + 1)
    BY <2>3, <2>4 DEF Runs
  <2> QED BY <2>5
<1> HIDE DEF S
<1>3. Nat \subseteq S
  BY <1>1, <1>2, Every
<1> QED BY <1>3 DEF S

-----------------------------------------------------------------------------
(* The loop *)

\* The constant's value as two bounds: Zenon writes a large number out in unary, so the
\* proofs name it where they can.
LEMMA Ones == Ones16 \in Nat /\ Ones16 <= 65535 /\ Ones16 >= 65535
BY DEF Ones16

\* Adding a word to a total that fits 16 bits, with the carry, takes 2^16 - 1 off or nothing.
LEMMA Carries16 ==
  ASSUME NEW t \in 0 .. Ones16, NEW w \in 0 .. Ones16
  PROVE  /\ FoldCarry(t + w) \in 0 .. Ones16
         /\ FoldCarry(t + w) = t + w \/ FoldCarry(t + w) + Ones16 = t + w
<1>1. PICK n \in Nat : n = t + w /\ n <= 131070
  BY Ones
<1>2. PICK r \in Nat, d \in Nat : r = n % 65536 /\ d = n \div 65536
  OBVIOUS
<1>3. r + 65536 * d = n /\ r <= 65535
  BY <1>2
<1>4. d = 0 \/ d = 1
  BY <1>1, <1>3
<1>5. FoldCarry(t + w) = r + d
  BY <1>1, <1>2 DEF FoldCarry
<1> QED BY <1>1, <1>3, <1>4, <1>5, Ones

\* Both sums are the functions their definitions say.
LEMMA TotalsDef ==
  ASSUME NEW words \in Seq(Nat)
  PROVE  /\ Totals(words)[0] = 0
         /\ \A i \in 1 .. Len(words) : Totals(words)[i] = FoldCarry(Totals(words)[i - 1] + words[i])
<1> DEFINE step == [p \in Nat \X Nat |-> IF p[2] \in 1 .. Len(words)
                                         THEN FoldCarry(p[1] + words[p[2]]) ELSE 0]
<1>1. \A n \in Nat : FoldCarry(n) \in Nat
  BY DEF FoldCarry
<1>2. Len(words) \in Nat /\ \A i \in 1 .. Len(words) : words[i] \in Nat
  OBVIOUS
<1>3. step \in [Nat \X Nat -> Nat]
  <2> SUFFICES ASSUME NEW a \in Nat, NEW i \in Nat
               PROVE  (IF i \in 1 .. Len(words) THEN FoldCarry(a + words[i]) ELSE 0) \in Nat
    OBVIOUS
  <2>1. i \in 1 .. Len(words) => a + words[i] \in Nat
    BY <1>2
  <2> QED BY <1>1, <2>1
<1>4. PICK g : Runs(g, step, Len(words))
  BY <1>2, <1>3, Recursion
<1>5. g = [i \in 0 .. Len(words) |-> IF i = 0 THEN 0 ELSE FoldCarry(g[i - 1] + words[i])]
  <2>1. ASSUME NEW i \in 1 .. Len(words) PROVE g[i] = FoldCarry(g[i - 1] + words[i])
    <3>1. g[i - 1] \in Nat /\ i \in Nat
      BY <1>2, <1>4 DEF Runs
    <3> QED BY <1>4, <3>1 DEF Runs
  <2> QED BY <1>4, <2>1 DEF Runs
<1>6. Totals(words) = [i \in 0 .. Len(words) |-> IF i = 0 THEN 0
                                                 ELSE FoldCarry(Totals(words)[i - 1] + words[i])]
  BY <1>5 DEF Totals
<1> QED BY <1>2, <1>6

LEMMA SumsDef ==
  ASSUME NEW words \in Seq(Nat)
  PROVE  /\ Sums(words)[0] = 0
         /\ \A i \in 1 .. Len(words) : Sums(words)[i] = Sums(words)[i - 1] + words[i]
<1> DEFINE step == [p \in Nat \X Nat |-> IF p[2] \in 1 .. Len(words)
                                         THEN p[1] + words[p[2]] ELSE 0]
<1>1. Len(words) \in Nat /\ \A i \in 1 .. Len(words) : words[i] \in Nat
  OBVIOUS
<1>2. step \in [Nat \X Nat -> Nat]
  BY <1>1
<1>3. PICK g : Runs(g, step, Len(words))
  BY <1>1, <1>2, Recursion
<1>4. g = [i \in 0 .. Len(words) |-> IF i = 0 THEN 0 ELSE g[i - 1] + words[i]]
  <2>1. ASSUME NEW i \in 1 .. Len(words) PROVE g[i] = g[i - 1] + words[i]
    <3>1. g[i - 1] \in Nat /\ i \in Nat
      BY <1>1, <1>3 DEF Runs
    <3> QED BY <1>3, <3>1 DEF Runs
  <2> QED BY <1>3, <2>1 DEF Runs
<1>5. Sums(words) = [i \in 0 .. Len(words) |-> IF i = 0 THEN 0 ELSE Sums(words)[i - 1] + words[i]]
  BY <1>4 DEF Sums
<1> QED BY <1>1, <1>5

\* a is b and a multiple of 2^16 - 1.
Exceeds(a, b) == \E k \in Nat : a = b + 65535 * k

\* A word added to both keeps that, with the carry or without.
LEMMA ExceedsStep ==
  ASSUME NEW a \in Nat, NEW b \in 0 .. Ones16, NEW w \in 0 .. Ones16, Exceeds(a, b)
  PROVE  FoldCarry(b + w) \in 0 .. Ones16 /\ Exceeds(a + w, FoldCarry(b + w))
<1>1. PICK k \in Nat : a = b + 65535 * k
  BY SMT DEF Exceeds
<1>2. PICK n \in Nat : n = FoldCarry(b + w) /\ n \in 0 .. Ones16 /\ (n = b + w \/ n + Ones16 = b + w)
  BY Carries16
<1>3. CASE n = b + w
  <2>1. a + w = n + 65535 * k
    BY <1>1, <1>3, SMT
  <2> QED BY <1>2, <2>1, SMT DEF Exceeds
<1>4. CASE n + Ones16 = b + w
  <2>1. PICK m \in Nat : m = k + 1
    OBVIOUS
  <2>2. a + w = n + 65535 * m
    BY <1>1, <1>4, <2>1, Ones, SMT
  <2> QED BY <1>2, <2>2, SMT DEF Exceeds
<1> QED BY <1>2, <1>3, <1>4

\* The loop's total fits 16 bits, and the plain sum exceeds it by a multiple of 2^16 - 1.
THEOREM TotalIsSum ==
  ASSUME NEW words \in Seq(0 .. Ones16)
  PROVE  LET t == Totals(words)[Len(words)]
             s == Sums(words)[Len(words)]
         IN  t \in 0 .. Ones16 /\ s \in Nat /\ Exceeds(s, t)
<1>0. words \in Seq(Nat)
  <2>1. 0 .. Ones16 \subseteq Nat
    OBVIOUS
  <2> QED BY <2>1, SeqMonotonic
<1> DEFINE Agree(i) == /\ Totals(words)[i] \in 0 .. Ones16 /\ Sums(words)[i] \in Nat
                       /\ Exceeds(Sums(words)[i], Totals(words)[i])
           S == {i \in Nat : i <= Len(words) => Agree(i)}
<1>1. Agree(0)
  <2>1. Exceeds(0, 0)
    <3>1. 0 = 0 + 65535 * 0
      BY SMT
    <3> QED BY <3>1, SMT DEF Exceeds
  <2>2. 0 \in 0 .. Ones16
    BY Ones, SMT
  <2> QED BY <1>0, <2>1, <2>2, TotalsDef, SumsDef
<1>2. ASSUME NEW i \in Nat, i + 1 <= Len(words), Agree(i) PROVE Agree(i + 1)
  <2>1. i + 1 \in 1 .. Len(words) /\ (i + 1) - 1 = i
    BY <1>2
  <2>2. words[i + 1] \in 0 .. Ones16
    BY <2>1, ElementOfSeq
  <2>3. /\ Totals(words)[i + 1] = FoldCarry(Totals(words)[i] + words[i + 1])
        /\ Sums(words)[i + 1] = Sums(words)[i] + words[i + 1]
    BY <1>0, <2>1, TotalsDef, SumsDef
  <2>4. PICK s \in Nat, u \in 0 .. Ones16, w \in 0 .. Ones16 :
               s = Sums(words)[i] /\ u = Totals(words)[i] /\ w = words[i + 1]
    BY <1>2, <2>2
  <2>5. FoldCarry(u + w) \in 0 .. Ones16 /\ Exceeds(s + w, FoldCarry(u + w))
    BY <1>2, <2>4, ExceedsStep
  <2>6. s + w \in Nat
    OBVIOUS
  <2> QED BY <2>3, <2>4, <2>5, <2>6
<1> HIDE DEF Agree
<1>3. Nat \subseteq S
  <2>1. 0 \in S
    BY <1>1
  <2>2. ASSUME NEW i \in Nat, i \in S PROVE i + 1 \in S
    <3>1. i + 1 <= Len(words) => i <= Len(words)
      OBVIOUS
    <3> QED BY <1>2, <2>2, <3>1
  <2> HIDE DEF S
  <2> QED BY <2>1, <2>2, Every
<1>4. Agree(Len(words))
  <2>1. Len(words) \in Nat /\ Len(words) <= Len(words)
    OBVIOUS
  <2> QED BY <1>3, <2>1
<1> QED BY <1>4 DEF Agree

\* A word that is c larger makes the sum c larger.
LEMMA SumWith ==
  ASSUME NEW v \in Seq(Nat), NEW w \in Seq(Nat), Len(w) = Len(v), NEW j \in 1 .. Len(v),
         NEW c \in Nat, w[j] = v[j] + c,
         \A i \in 1 .. Len(v) : i # j => w[i] = v[i]
  PROVE  Sums(w)[Len(w)] = Sums(v)[Len(v)] + c
<1> DEFINE Ahead(i) == /\ Sums(v)[i] \in Nat
                       /\ Sums(w)[i] = Sums(v)[i] + (IF i < j THEN 0 ELSE c)
           S == {i \in Nat : i <= Len(v) => Ahead(i)}
<1>1. Ahead(0)
  BY SumsDef
<1>2. ASSUME NEW i \in Nat, i + 1 <= Len(v), Ahead(i) PROVE Ahead(i + 1)
  <2>1. i + 1 \in 1 .. Len(v) /\ (i + 1) - 1 = i
    BY <1>2
  <2>2. /\ Sums(v)[i + 1] = Sums(v)[i] + v[i + 1]
        /\ Sums(w)[i + 1] = Sums(w)[i] + w[i + 1]
    BY <2>1, SumsDef
  <2>3. PICK s \in Nat, x \in Nat, y \in Nat : s = Sums(v)[i] /\ x = v[i + 1] /\ y = w[i + 1]
    BY <1>2, <2>1, ElementOfSeq
  <2>4. CASE i + 1 = j
    <3>1. y = x + c /\ i < j /\ ~(i + 1 < j)
      BY <2>3, <2>4
    <3>2. Sums(w)[i] = s
      <4>1. s + 0 = s
        OBVIOUS
      <4> QED BY <1>2, <2>3, <3>1, <4>1
    <3>3. Sums(v)[i + 1] = s + x /\ Sums(w)[i + 1] = s + y
      BY <2>2, <2>3, <3>2
    <3> QED BY <3>1, <3>3
  <2>5. CASE i + 1 # j
    <3>1. y = x /\ (i + 1 < j <=> i < j)
      BY <2>1, <2>3, <2>5
    <3>2. Sums(v)[i + 1] = s + x /\ Sums(w)[i + 1] = s + (IF i < j THEN 0 ELSE c) + x
      BY <1>2, <2>2, <2>3, <3>1
    <3> QED BY <3>1, <3>2
  <2> QED BY <2>4, <2>5
<1> HIDE DEF Ahead
<1>3. Nat \subseteq S
  <2>1. 0 \in S
    BY <1>1
  <2>2. ASSUME NEW i \in Nat, i \in S PROVE i + 1 \in S
    <3>1. i + 1 <= Len(v) => i <= Len(v)
      OBVIOUS
    <3> QED BY <1>2, <2>2, <3>1
  <2> HIDE DEF S
  <2> QED BY <2>1, <2>2, Every
<1>4. Ahead(Len(v))
  <2>1. Len(v) \in Nat /\ Len(v) <= Len(v)
    OBVIOUS
  <2> QED BY <1>3, <2>1
<1>5. ~(Len(v) < j)
  OBVIOUS
<1> QED BY <1>4, <1>5 DEF Ahead

\* The sum the kernel looks for.
Verified(words) == Sums(words)[Len(words)] > 0 /\ Sums(words)[Len(words)] % 65535 = 0

\* The words of a message whose blank word was filled with the inverted total sum up
\* to a multiple of 2^16 - 1.
LEMMA Verifies ==
  ASSUME NEW v \in Seq(0 .. Ones16), NEW w \in Seq(0 .. Ones16), Len(w) = Len(v),
         NEW j \in 1 .. Len(v), v[j] = 0, w[j] = Ones16 - Totals(v)[Len(v)],
         \A i \in 1 .. Len(v) : i # j => w[i] = v[i]
  PROVE  Verified(w)
<1>1. PICK t \in 0 .. Ones16 : t = Totals(v)[Len(v)]
  BY TotalIsSum
<1>2. PICK s \in Nat : s = Sums(v)[Len(v)] /\ Exceeds(s, t)
  BY <1>1, TotalIsSum
<1>3. v \in Seq(Nat) /\ w \in Seq(Nat)
  <2>1. 0 .. Ones16 \subseteq Nat
    OBVIOUS
  <2> QED BY <2>1, SeqMonotonic
<1>4. Ones16 - t \in Nat /\ w[j] = v[j] + (Ones16 - t)
  BY <1>1, Ones, SMT
<1>5. Sums(w)[Len(w)] = s + (Ones16 - t)
  BY <1>2, <1>3, <1>4, SumWith
<1>6. s + (Ones16 - t) > 0 /\ (s + (Ones16 - t)) % 65535 = 0
  <2>1. PICK k \in Nat : s = t + 65535 * k
    BY <1>2 DEF Exceeds
  <2>2. PICK m \in Nat : m = k + 1 /\ m > 0
    OBVIOUS
  <2>3. s + (Ones16 - t) = 65535 * m
    BY <2>1, <2>2, Ones, SMT
  <2>4. 65535 * m > 0 /\ (65535 * m) % 65535 = 0
    BY <2>2, SMT
  <2> QED BY <2>3, <2>4, SMT
<1> QED BY <1>5, <1>6, SMT DEF Verified
=============================================================================
