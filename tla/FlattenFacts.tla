---------------------------- MODULE FlattenFacts ----------------------------
(***************************************************************************)
(* What the proofs need to know of SequencesExt's FlattenSeq, the operator *)
(* behind Concat: it concatenates sequences over R into a sequence over R. *)
(* FlattenSeq is a recursive function, so the facts rest on induction over *)
(* the natural numbers, stated here for sets.                              *)
(***************************************************************************)
EXTENDS Integers, Sequences, SequencesExt, SequenceTheorems,
        NaturalsInduction, WellFoundedInduction, TLAPS

LessThan == {pair \in Nat \X Nat : pair[1] < pair[2]}

\* A set of natural numbers that is not empty has a least member.
LEMMA LeastNumber ==
    ASSUME NEW T, T \subseteq Nat, T # {}
    PROVE  \E x \in T : \A y \in T : x <= y
<1>1. IsWellFoundedOn(LessThan, Nat)
  BY NatLessThanWellFounded DEF OpToRel, LessThan
<1>2. PICK x \in T : \A y \in T : ~(<<y, x>> \in LessThan)
  BY <1>1, WFMin
<1>3. ASSUME NEW y \in T PROVE x <= y
  <2>1. <<y, x>> \in Nat \X Nat /\ y \in Nat /\ x \in Nat
    OBVIOUS
  <2>2. ~(<<y, x>>[1] < <<y, x>>[2])
    BY <1>2, <2>1, Zenon DEF LessThan
  <2> QED BY <2>1, <2>2
<1> QED BY <1>3

\* Induction, for a set that is closed under the successor.
LEMMA SetInduction ==
    ASSUME NEW S, 0 \in S, \A n \in Nat : n \in S => n + 1 \in S
    PROVE  Nat \subseteq S
<1> SUFFICES ASSUME Nat \ S # {} PROVE FALSE
  OBVIOUS
<1>1. PICK m \in Nat \ S : \A y \in Nat \ S : m <= y
  BY LeastNumber
<1>2. m # 0 /\ m - 1 \in Nat
  BY <1>1
<1>3. m - 1 \in S
  BY <1>1, <1>2
<1> QED BY <1>1, <1>2, <1>3

\* The equation of the function that FlattenSeq computes.
Flattens(f, seqs, n) ==
    \A i \in 1..n : f[i] = IF i = 1 THEN seqs[i] ELSE f[i - 1] \o seqs[i]

\* The equation has a solution on every prefix.
LEMMA FlattenSolvable ==
    ASSUME NEW R, NEW seqs \in Seq(Seq(R))
    PROVE  \E f \in [1..Len(seqs) -> Seq(R)] : Flattens(f, seqs, Len(seqs))
<1> DEFINE S == {n \in Nat : n <= Len(seqs) =>
                    \E f \in [1..n -> Seq(R)] : Flattens(f, seqs, n)}
<1>1. 0 \in S
  <2>1. [i \in 1..0 |-> <<>>] \in [1..0 -> Seq(R)]
    OBVIOUS
  <2>2. Flattens([i \in 1..0 |-> <<>>], seqs, 0)
    BY DEF Flattens
  <2> QED BY <2>1, <2>2
<1>2. ASSUME NEW n \in Nat, n \in S, n + 1 <= Len(seqs)
      PROVE  \E f \in [1..(n + 1) -> Seq(R)] : Flattens(f, seqs, n + 1)
  <2>1. PICK f \in [1..n -> Seq(R)] : Flattens(f, seqs, n)
    BY <1>2
  <2> DEFINE x == IF n = 0 THEN seqs[1] ELSE f[n] \o seqs[n + 1]
             h == [i \in 1..(n + 1) |-> IF i = n + 1 THEN x ELSE f[i]]
  <2>2. seqs[n + 1] \in Seq(R)
    BY <1>2
  <2>3. x \in Seq(R)
    <3>1. CASE n = 0
      BY <2>2, <3>1
    <3>2. CASE n # 0
      BY <2>1, <2>2, <3>2
    <3> QED BY <3>1, <3>2
  <2>4. h \in [1..(n + 1) -> Seq(R)]
    BY <2>3
  <2>5. ASSUME NEW i \in 1..(n + 1)
        PROVE  h[i] = IF i = 1 THEN seqs[i] ELSE h[i - 1] \o seqs[i]
    <3>1. CASE i = n + 1 /\ n = 0
      BY <3>1
    <3>2. CASE i = n + 1 /\ n # 0
      <4>1. n \in 1..(n + 1) /\ n # n + 1 /\ i - 1 = n /\ i # 1
        BY <3>2
      <4>2. h[i - 1] = f[n] /\ h[i] = x
        BY <3>2, <4>1
      <4> QED BY <3>2, <4>1, <4>2
    <3>3. CASE i # n + 1
      <4>1. i \in 1..n
        BY <3>3
      <4>2. f[i] = IF i = 1 THEN seqs[i] ELSE f[i - 1] \o seqs[i]
        BY <2>1, <4>1 DEF Flattens
      <4>3. i # 1 => h[i - 1] = f[i - 1]
        BY <4>1
      <4> QED BY <3>3, <4>1, <4>2, <4>3
    <3> QED BY <3>1, <3>2, <3>3
  <2>6. Flattens(h, seqs, n + 1)
    BY <2>5 DEF Flattens
  <2> QED BY <2>4, <2>6
<1>3. \A n \in Nat : n \in S => n + 1 \in S
  BY <1>2
<1>4. Nat \subseteq S
  <2> HIDE DEF S
  <2> QED BY <1>1, <1>3, SetInduction
<1> QED BY <1>4

\* It has only one.
LEMMA FlattenUnique ==
    ASSUME NEW n \in Nat, NEW seqs, NEW f, NEW g,
           Flattens(f, seqs, n), Flattens(g, seqs, n)
    PROVE  \A i \in 1..n : f[i] = g[i]
<1> DEFINE S == {i \in Nat : i + 1 \in 1..n => f[i + 1] = g[i + 1]}
<1>1. 0 \in S
  BY DEF Flattens
<1>2. ASSUME NEW i \in Nat, i \in S PROVE i + 1 \in S
  <2> SUFFICES ASSUME i + 1 + 1 \in 1..n PROVE f[i + 1 + 1] = g[i + 1 + 1]
    OBVIOUS
  <2>1. f[i + 1] = g[i + 1]
    BY <1>2
  <2>2. (i + 1 + 1) - 1 = i + 1 /\ i + 1 + 1 # 1
    OBVIOUS
  <2> QED BY <2>1, <2>2 DEF Flattens
<1>3. Nat \subseteq S
  <2> HIDE DEF S
  <2> QED BY <1>1, <1>2, SetInduction
<1>4. ASSUME NEW i \in 1..n PROVE f[i] = g[i]
  <2>1. i - 1 \in S
    <3> HIDE DEF S
    <3> QED BY <1>3
  <2> QED BY <2>1
<1> QED BY <1>4

\* FlattenSeq is the last value of its recursive function.
LEMMA FlattenIs ==
    ASSUME NEW R, NEW seqs \in Seq(Seq(R)), Len(seqs) # 0
    PROVE  \E f \in [1..Len(seqs) -> Seq(R)] :
              Flattens(f, seqs, Len(seqs)) /\ FlattenSeq(seqs) = f[Len(seqs)]
<1> DEFINE n == Len(seqs)
           Eq(f) == f = [i \in 1..n |-> IF i = 1 THEN seqs[i] ELSE f[i - 1] \o seqs[i]]
           F == CHOOSE f : Eq(f)
<1>1. PICK h \in [1..n -> Seq(R)] : Flattens(h, seqs, n)
  BY FlattenSolvable
<1>2. Eq(h)
  BY <1>1 DEF Flattens
<1>3. Eq(F)
  BY <1>2
<1>4. Flattens(F, seqs, n)
  <2> HIDE DEF F
  <2> QED BY <1>3 DEF Flattens
<1>5. n \in 1..n
  OBVIOUS
<1>6. F[n] = h[n]
  <2> HIDE DEF F
  <2> QED BY <1>1, <1>4, <1>5, FlattenUnique
<1>7. FlattenSeq(seqs) = F[n]
  BY Zenon DEF FlattenSeq
<1> QED BY <1>1, <1>6, <1>7

\* Flattening sequences over R gives a sequence over R.
LEMMA FlattenSeqType ==
    ASSUME NEW R, NEW seqs \in Seq(Seq(R))
    PROVE  FlattenSeq(seqs) \in Seq(R)
<1>1. CASE Len(seqs) = 0
  BY <1>1 DEF FlattenSeq
<1>2. CASE Len(seqs) # 0
  <2>1. PICK f \in [1..Len(seqs) -> Seq(R)] : FlattenSeq(seqs) = f[Len(seqs)]
    BY <1>2, FlattenIs
  <2>2. Len(seqs) \in 1..Len(seqs)
    BY <1>2
  <2> QED BY <2>1, <2>2
<1> QED BY <1>1, <1>2

\* One sequence more is appended.
LEMMA FlattenStep ==
    ASSUME NEW R, NEW n \in Nat, NEW t, \A j \in 1..(n + 1) : t[j] \in Seq(R)
    PROVE  FlattenSeq([j \in 1..(n + 1) |-> t[j]])
             = FlattenSeq([j \in 1..n |-> t[j]]) \o t[n + 1]
<1> DEFINE s == [j \in 1..(n + 1) |-> t[j]]
           p == [j \in 1..n |-> t[j]]
<1>1. /\ s \in Seq(Seq(R)) /\ Len(s) = n + 1 /\ Len(s) # 0
      /\ p \in Seq(Seq(R)) /\ Len(p) = n
  OBVIOUS
<1>2. s[n + 1] = t[n + 1] /\ \A i \in 1..n : s[i] = p[i]
  OBVIOUS
<1> SUFFICES FlattenSeq(s) = FlattenSeq(p) \o t[n + 1]
  OBVIOUS
<1> HIDE DEF s, p
<1>3. PICK f \in [1..Len(s) -> Seq(R)] :
        Flattens(f, s, Len(s)) /\ FlattenSeq(s) = f[Len(s)]
  BY <1>1, FlattenIs
<1>4. ASSUME NEW i \in 1..(n + 1)
      PROVE  f[i] = IF i = 1 THEN s[i] ELSE f[i - 1] \o s[i]
  BY <1>1, <1>3 DEF Flattens
<1>5. FlattenSeq(s) = IF n = 0 THEN t[n + 1] ELSE f[n] \o t[n + 1]
  <2>1. n + 1 \in 1..(n + 1) /\ (n + 1) - 1 = n /\ (n + 1 = 1 <=> n = 0)
    OBVIOUS
  <2>2. f[n + 1] = IF n + 1 = 1 THEN s[n + 1] ELSE f[(n + 1) - 1] \o s[n + 1]
    BY <1>4, <2>1
  <2>3. FlattenSeq(s) = f[n + 1]
    BY <1>1, <1>3
  <2> QED BY <1>2, <2>1, <2>2, <2>3
<1>6. CASE n = 0
  <2>1. FlattenSeq(p) = <<>>
    BY <1>1, <1>6 DEF FlattenSeq
  <2>2. t[n + 1] \in Seq(R)
    OBVIOUS
  <2>3. <<>> \o t[n + 1] = t[n + 1]
    BY <2>2, ConcatEmptySeq
  <2> QED BY <1>5, <1>6, <2>1, <2>3
<1>7. CASE n # 0
  <2>1. PICK g \in [1..Len(p) -> Seq(R)] :
          Flattens(g, p, Len(p)) /\ FlattenSeq(p) = g[Len(p)]
    BY <1>1, <1>7, FlattenIs
  <2>2. Flattens(g, p, n) /\ FlattenSeq(p) = g[n]
    BY <1>1, <2>1
  <2>3. ASSUME NEW i \in 1..n
        PROVE  f[i] = IF i = 1 THEN p[i] ELSE f[i - 1] \o p[i]
    BY <1>2, <1>4
  <2>4. Flattens(f, p, n)
    BY <2>3 DEF Flattens
  <2>5. \A i \in 1..n : f[i] = g[i]
    BY <2>2, <2>4, FlattenUnique
  <2>6. n \in 1..n
    BY <1>7
  <2> QED BY <1>5, <1>7, <2>2, <2>5, <2>6
<1> QED BY <1>6, <1>7

\* x grows by the sequences u, and is one of sequences over R all along.
Grows(x, u, k, R) ==
    /\ \A i \in 0..k : x[i] \in Seq(R)
    /\ \A i \in 0..(k - 1) : x[i + 1] = x[i] \o u[i + 1]

SeqsOver(u, k, R) == \A i \in 1..k : u[i] \in Seq(R)

\* Two results that grow by the same sequences: the one that began with first
\* is first followed by the other.
LEMMA GrowAlike ==
    ASSUME NEW R, NEW k \in Nat, NEW first \in Seq(R), NEW u, NEW whole, NEW rest,
           SeqsOver(u, k, R), Grows(whole, u, k, R), Grows(rest, u, k, R),
           whole[0] = first, rest[0] = <<>>
    PROVE  whole[k] = first \o rest[k]
<1>0. \A a, b \in Seq(R) : (first \o a) \o b = first \o (a \o b)
  BY ConcatAssociative
<1> DEFINE S == {i \in Nat : i <= k => whole[i] = first \o rest[i]}
<1>1. 0 \in S
  <2>1. first \o <<>> = first
    BY ConcatEmptySeq
  <2> QED BY <2>1
<1>2. ASSUME NEW i \in Nat, i \in S PROVE i + 1 \in S
  <2>1. ASSUME i + 1 <= k PROVE whole[i + 1] = first \o rest[i + 1]
    <3>1. whole[i] = first \o rest[i]
      BY <1>2, <2>1
    <3>2. i \in 0..(k - 1) /\ i \in 0..k /\ i + 1 \in 1..k
      BY <2>1
    <3>3. whole[i + 1] = whole[i] \o u[i + 1] /\ rest[i + 1] = rest[i] \o u[i + 1]
      BY <3>2, Zenon DEF Grows
    <3>4. rest[i] \in Seq(R) /\ u[i + 1] \in Seq(R)
      BY <3>2, Zenon DEF Grows, SeqsOver
    <3>5. (first \o rest[i]) \o u[i + 1] = first \o (rest[i] \o u[i + 1])
      BY <1>0, <3>4, Zenon
    <3> QED BY <3>1, <3>3, <3>5, Zenon
  <2> QED BY <2>1
<1>3. Nat \subseteq S
  <2> HIDE DEF S
  <2> QED BY <1>1, <1>2, SetInduction
<1> QED BY <1>3

\* The sequences s are p and then r: flattened together, or each part for itself
\* and then joined.
LEMMA FlattenSplit ==
    ASSUME NEW R, NEW s \in Seq(Seq(R)), NEW p \in Seq(Seq(R)), NEW r \in Seq(Seq(R)),
           Len(s) = Len(p) + Len(r),
           \A j \in 1..Len(p) : p[j] = s[j],
           \A j \in 1..Len(r) : r[j] = s[Len(p) + j]
    PROVE  FlattenSeq(s) = FlattenSeq(p) \o FlattenSeq(r)
<1> DEFINE n == Len(p)
           k == Len(r)
<1>0. /\ n \in Nat /\ k \in Nat
      /\ \A j \in 1..(n + k) : s[j] \in Seq(R)
      /\ \A j \in 1..k : r[j] = s[n + j] /\ r[j] \in Seq(R)
  OBVIOUS
<1>1. /\ s = [j \in 1..(n + k) |-> s[j]]
      /\ p = [j \in 1..n |-> s[j]]
      /\ r = [j \in 1..k |-> r[j]]
  OBVIOUS
<1> DEFINE first == FlattenSeq(p)
           whole == [i \in 0..k |-> FlattenSeq([j \in 1..(n + i) |-> s[j]])]
           rest == [i \in 0..k |-> FlattenSeq([j \in 1..i |-> r[j]])]
<1>2. first \in Seq(R)
  BY FlattenSeqType
<1>3. whole[0] = first /\ whole[k] = FlattenSeq(s)
  <2> HIDE DEF n, k
  <2>1. n + 0 = n /\ 0 \in 0..k /\ k \in 0..k
    BY ONLY <1>0
  <2> QED BY ONLY <1>1, <2>1
<1>4. rest[0] = <<>> /\ rest[k] = FlattenSeq(r)
  <2> HIDE DEF n, k
  <2>1. 0 \in 0..k /\ k \in 0..k
    BY ONLY <1>0
  <2>2. [j \in 1..0 |-> r[j]] = <<>>
    OBVIOUS
  <2>3. FlattenSeq(<<>>) = <<>>
    BY ONLY TRUE DEF FlattenSeq
  <2>4. rest[0] = FlattenSeq([j \in 1..0 |-> r[j]]) /\ rest[k] = FlattenSeq([j \in 1..k |-> r[j]])
    BY ONLY <2>1
  <2> QED BY ONLY <1>1, <2>2, <2>3, <2>4
<1>5. ASSUME NEW i \in 0..k PROVE whole[i] \in Seq(R) /\ rest[i] \in Seq(R)
  <2> HIDE DEF n, k
  <2>1. FlattenSeq([j \in 1..(n + i) |-> s[j]]) \in Seq(R)
    <3>1. [j \in 1..(n + i) |-> s[j]] \in Seq(Seq(R))
      BY ONLY <1>0, i \in 0..k
    <3> QED BY ONLY <3>1, FlattenSeqType
  <2>2. FlattenSeq([j \in 1..i |-> r[j]]) \in Seq(R)
    <3>1. [j \in 1..i |-> r[j]] \in Seq(Seq(R))
      BY ONLY <1>0, i \in 0..k
    <3> QED BY ONLY <3>1, FlattenSeqType
  <2> QED BY <2>1, <2>2
<1>6. ASSUME NEW i \in 0..(k - 1)
      PROVE  whole[i + 1] = whole[i] \o r[i + 1] /\ rest[i + 1] = rest[i] \o r[i + 1]
  <2> HIDE DEF n, k
  <2>1. /\ n + i \in Nat /\ i \in Nat /\ n + (i + 1) = (n + i) + 1
        /\ i \in 0..k /\ i + 1 \in 0..k /\ i + 1 \in 1..k
    BY ONLY <1>0, i \in 0..(k - 1)
  <2>2. \A j \in 1..((n + i) + 1) : s[j] \in Seq(R)
    BY ONLY <1>0, <2>1
  <2>3. FlattenSeq([j \in 1..((n + i) + 1) |-> s[j]])
          = FlattenSeq([j \in 1..(n + i) |-> s[j]]) \o s[(n + i) + 1]
    BY ONLY <2>1, <2>2, FlattenStep
  <2>4. whole[i + 1] = FlattenSeq([j \in 1..((n + i) + 1) |-> s[j]])
        /\ whole[i] = FlattenSeq([j \in 1..(n + i) |-> s[j]])
    BY ONLY <2>1
  <2>5. r[i + 1] = s[(n + i) + 1]
    BY ONLY <1>0, <2>1
  <2>6. FlattenSeq([j \in 1..(i + 1) |-> r[j]]) = FlattenSeq([j \in 1..i |-> r[j]]) \o r[i + 1]
    <3>1. \A j \in 1..(i + 1) : r[j] \in Seq(R)
      BY ONLY <1>0, <2>1
    <3> QED BY ONLY <2>1, <3>1, FlattenStep
  <2>7. rest[i + 1] = FlattenSeq([j \in 1..(i + 1) |-> r[j]])
        /\ rest[i] = FlattenSeq([j \in 1..i |-> r[j]])
    BY ONLY <2>1
  <2> HIDE DEF whole, rest
  <2> QED BY ONLY <2>3, <2>4, <2>5, <2>6, <2>7
<1>7. SeqsOver(r, k, R)
  BY <1>0 DEF SeqsOver
<1>8. Grows(whole, r, k, R) /\ Grows(rest, r, k, R)
  <2> HIDE DEF first, whole, rest, n, k
  <2> QED BY ONLY <1>5, <1>6 DEF Grows
<1>9. whole[k] = first \o rest[k]
  <2> HIDE DEF first, whole, rest, n, k
  <2>1. k \in Nat /\ whole[0] = first /\ rest[0] = <<>>
    BY <1>0, <1>3, <1>4
  <2> QED BY ONLY <1>2, <1>7, <1>8, <2>1, GrowAlike
<1> HIDE DEF first, whole, rest
<1> QED BY ONLY <1>3, <1>4, <1>9 DEF first
=============================================================================
