------------------------- MODULE TableBuilderProofs -------------------------
(***************************************************************************)
(* Theorems about TableBuilder: what Add() was given is in the file, or in *)
(* the block being built, and comes back when the block is read; and a     *)
(* file that Finish() calls good is whole: its footer leads to an index    *)
(* that leads to every block, and to filters that exclude no key from the  *)
(* block that holds it.                                                    *)
(*                                                                         *)
(* The argument goes up the layers of the format: what a varint and a      *)
(* fixed32 decode to; where in the buffer of a BlockBuilder an entry is,   *)
(* and what DecodeEntry() and ParseNextKey() make of it; that a block      *)
(* keeps its entries while it grows (BlockInv); and that all blocks stay   *)
(* in the file (TableInv). For the index: the order of internal keys, what *)
(* FindShortestSeparator() and FindShortSuccessor() do to it, which block  *)
(* every entry of the index block leads to (IndexMap), and how the file    *)
(* ends (WholeFile). For the filters: the bits of a key are set in the     *)
(* filter made of it, and every key waits for the filter of its block or   *)
(* is in it (FilterState). Nothing is an induction over data: of the       *)
(* entries that would be wrong the first one is looked at.                 *)
(***************************************************************************)
EXTENDS TableBuilder, FiniteSetTheorems, SequenceTheorems, WellFoundedInduction, TLAPS

\* Min() of some numbers is one of them and the smallest.
LEMMA MinNat ==
  ASSUME NEW S, S \subseteq Nat, S # {}
  PROVE  Min(S) \in S /\ \A y \in S : Min(S) <= y
<1> DEFINE R == {ss \in Nat \X Nat : ss[1] < ss[2]}
<1>1. OpToRel(<, Nat) = R
  BY Zenon DEF OpToRel
<1>2. IsWellFoundedOn(R, Nat)
  BY <1>1, NatLessThanWellFounded, Zenon
<1>3. PICK x \in S : \A y \in S : ~(<<y, x>> \in R)
  BY <1>2, WFMin
<1>4. ASSUME NEW y \in S
      PROVE  x <= y
  <2>1. x \in Nat /\ y \in Nat
    OBVIOUS
  <2>2. ~(<<y, x>> \in R)
    BY <1>3
  <2>3. y < x => <<y, x>> \in R
    BY <2>1
  <2> HIDE DEF R
  <2> QED
    BY <2>1, <2>2, <2>3
<1> QED
  BY <1>4 DEF Min

\* Max() of some numbers that have a bound is one of them and the largest.
LEMMA MaxNat ==
  ASSUME NEW S, S \subseteq Nat, S # {}, NEW B \in Nat, \A y \in S : y <= B
  PROVE  Max(S) \in S /\ \A y \in S : y <= Max(S)
<1> DEFINE T == {n \in Nat : B - n \in S}
<1>1. PICK y \in S : TRUE
  OBVIOUS
<1>2. \A z \in S : B - z \in T
  OBVIOUS
<1>3. Min(T) \in T /\ \A z \in T : Min(T) <= z
  BY <1>1, <1>2, MinNat
<1>4. B - Min(T) \in S /\ \A z \in S : z <= B - Min(T)
  BY <1>2, <1>3
<1> HIDE DEF T
<1> QED
  BY <1>4 DEF Max

\* The smallest member of a set of natural numbers.
LEMMA Least ==
  ASSUME NEW S, S \subseteq Nat, S # {}
  PROVE  \E m \in S : \A y \in S : m <= y
BY MinNat

\* Seven bits off a number: the rest is smaller, and nothing is lost.
LEMMA Shift7 ==
  ASSUME NEW v \in Nat
  PROVE  /\ v \div 128 \in Nat /\ v % 128 \in 0..127
         /\ v = 128 * (v \div 128) + (v % 128)
         /\ v >= 128 => v \div 128 < v
OBVIOUS

\* The recursive function PutVarint exists: up to every bound there is one, and they
\* agree.
LEMMA PutVarintDef ==
  PutVarint = [v \in Nat |-> IF v < 128 THEN <<v>>
                             ELSE <<128 + (v % 128)>> \o PutVarint[v \div 128]]
<1> DEFINE More(v, x) == <<128 + (v % 128)>> \o x
           Rest(v) == v \div 128
           Is(f, D) == f = [v \in D |-> IF v < 128 THEN <<v>> ELSE More(v, f[Rest(v)])]
<1>0. \A v \in Nat : Rest(v) \in Nat /\ (v >= 128 => Rest(v) < v)
  BY Shift7
<1> DEFINE Bad == {m \in Nat : ~\E f : Is(f, 0..m)}
<1>1. ASSUME NEW m \in Bad, \A y \in Bad : m <= y
      PROVE  FALSE
  <2> HIDE DEF More, Rest
  <2>1. CASE m = 0
    <3> DEFINE g == [v \in 0..0 |-> <<v>>]
    <3>1. Is(g, 0..0)
      OBVIOUS
    <3> QED
      BY <2>1, <3>1
  <2>2. CASE m # 0
    <3>1. m - 1 \in Nat /\ ~(m <= m - 1)
      BY <2>2
    <3>2. m - 1 \notin Bad
      BY <1>1, <3>1
    <3>3. PICK f : Is(f, 0..(m - 1))
      BY <3>1, <3>2
    <3> DEFINE g == [v \in 0..m |-> IF v = m THEN IF v < 128 THEN <<v>> ELSE More(m, f[Rest(m)])
                                    ELSE f[v]]
    <3>4. ASSUME NEW v \in 0..m
          PROVE  g[v] = IF v < 128 THEN <<v>> ELSE More(v, g[Rest(v)])
      <4>1. v >= 128 => Rest(v) \in 0..m /\ Rest(v) # m
        BY <1>0
      <4>2. v >= 128 => g[Rest(v)] = f[Rest(v)]
        BY <4>1
      <4>3. v # m => v \in 0..(m - 1)
        OBVIOUS
      <4>4. v # m => f[v] = IF v < 128 THEN <<v>> ELSE More(v, f[Rest(v)])
        BY <3>3, <4>3
      <4> QED
        BY <4>2, <4>4
    <3>5. g = [v \in 0..m |-> g[v]]
      OBVIOUS
    <3> HIDE DEF g
    <3>6. Is(g, 0..m)
      BY <3>4, <3>5
    <3> QED
      BY <3>6
  <2> QED
    BY <2>1, <2>2
<1>2. \A m \in Nat : \E f : Is(f, 0..m)
  <2> SUFFICES ASSUME NEW m \in Nat, m \in Bad PROVE FALSE
    OBVIOUS
  <2>1. Bad \subseteq Nat
    OBVIOUS
  <2> HIDE DEF Bad
  <2> QED
    BY <1>1, <2>1, Least
<1> HIDE DEF More, Rest, Bad
<1>3. ASSUME NEW m \in Nat, NEW n \in Nat, NEW f, NEW g, Is(f, 0..m), Is(g, 0..n)
      PROVE  \A v \in 0..m : v <= n => f[v] = g[v]
  <2> DEFINE Differ == {v \in 0..m : v <= n /\ f[v] # g[v]}
  <2>1. ASSUME NEW v \in Differ, \A y \in Differ : v <= y
        PROVE  FALSE
    <3>1. v \in 0..m /\ v \in 0..n
      OBVIOUS
    <3>2. /\ f[v] = IF v < 128 THEN <<v>> ELSE More(v, f[Rest(v)])
          /\ g[v] = IF v < 128 THEN <<v>> ELSE More(v, g[Rest(v)])
      BY <1>3, <3>1
    <3>3. v >= 128 => Rest(v) \in 0..m /\ Rest(v) <= n /\ ~(v <= Rest(v))
      BY <1>0, <3>1
    <3>4. v >= 128 => f[Rest(v)] = g[Rest(v)]
      BY <2>1, <3>3
    <3> QED
      BY <3>2, <3>4
  <2>2. Differ \subseteq Nat
    OBVIOUS
  <2>3. Differ = {}
    <3> HIDE DEF Differ
    <3> QED
      BY <2>1, <2>2, Least
  <2> QED
    BY <2>3
<1> DEFINE Upto(m) == CHOOSE f : Is(f, 0..m)
           F == [v \in Nat |-> Upto(v)[v]]
<1>4. ASSUME NEW v \in Nat PROVE Is(Upto(v), 0..v)
  BY <1>2
<1> HIDE DEF Upto
<1>5. ASSUME NEW v \in Nat
      PROVE  F[v] = IF v < 128 THEN <<v>> ELSE More(v, F[Rest(v)])
  <2>1. Upto(v)[v] = IF v < 128 THEN <<v>> ELSE More(v, Upto(v)[Rest(v)])
    BY <1>4
  <2>2. ASSUME v >= 128
        PROVE  Upto(v)[Rest(v)] = Upto(Rest(v))[Rest(v)]
    <3>1. Rest(v) \in Nat /\ Rest(v) \in 0..Rest(v) /\ Rest(v) <= v /\ v \in Nat
      BY <1>0, <2>2
    <3>2. Is(Upto(v), 0..v) /\ Is(Upto(Rest(v)), 0..Rest(v))
      BY <1>4, <3>1
    <3> HIDE DEF Is
    <3> QED
      BY <1>3, <3>1, <3>2
  <2>3. F[v] = Upto(v)[v] /\ (v >= 128 => F[Rest(v)] = Upto(Rest(v))[Rest(v)])
    BY <1>0
  <2> QED
    BY <2>1, <2>2, <2>3
<1>6. F = [v \in Nat |-> F[v]]
  OBVIOUS
<1> HIDE DEF F
<1>7. Is(F, Nat)
  BY <1>5, <1>6
<1>8. \E f : Is(f, Nat)
  BY <1>7
<1> QED
  BY <1>8 DEF PutVarint, More, Rest

\* What PutVarint32() appends for a number that fits into seven bits, and for others.
LEMMA PutVarintAt ==
  ASSUME NEW v \in Nat
  PROVE  /\ v < 128 => PutVarint[v] = <<v>>
         /\ v >= 128 => PutVarint[v] = <<128 + (v % 128)>> \o PutVarint[v \div 128]
<1> DEFINE F(u) == IF u < 128 THEN <<u>>
                   ELSE <<128 + (u % 128)>> \o PutVarint[u \div 128]
<1>1. PutVarint = [u \in Nat |-> F(u)]
  BY PutVarintDef
<1> HIDE DEF F
<1>2. PutVarint[v] = F(v)
  BY <1>1
<1> QED
  BY <1>2 DEF F

\* The bytes of a number: all but the last carry 128 and seven bits, and d are the
\* numbers that are left to write before each.
Coded(v, n, d) ==
  /\ n \in Nat \ {0} /\ d \in [1..n -> Nat] /\ d[1] = v
  /\ PutVarint[v] \in Seq(Nat) /\ Len(PutVarint[v]) = n
  /\ PutVarint[v][n] = d[n] /\ d[n] < 128
  /\ \A k \in 1..(n - 1) :
       /\ PutVarint[v][k] >= 128 /\ PutVarint[v][k] % 128 = d[k] % 128
       /\ d[k] = (d[k] % 128) + 128 * d[k + 1]

\* One byte.
LEMMA CodedShort ==
  ASSUME NEW v \in Nat, v < 128
  PROVE  \E d : Coded(v, 1, d)
<1> DEFINE d == [k \in 1..1 |-> v]
<1>1. PutVarint[v] = <<v>>
  BY PutVarintAt
<1>2. <<v>> \in Seq(Nat) /\ Len(<<v>>) = 1 /\ <<v>>[1] = v
  OBVIOUS
<1>3. Coded(v, 1, d)
  BY <1>1, <1>2 DEF Coded
<1> QED
  BY <1>3

\* One byte more than what is left after seven bits.
LEMMA CodedLong ==
  ASSUME NEW v \in Nat, v >= 128, NEW n, NEW e, Coded(v \div 128, n, e)
  PROVE  \E d : Coded(v, n + 1, d)
<1> DEFINE w == v \div 128
           c == 128 + (v % 128)
           d == [k \in 1..(n + 1) |-> IF k = 1 THEN v ELSE e[k - 1]]
<1>1. /\ w \in Nat /\ v % 128 \in 0..127 /\ v = 128 * w + (v % 128)
      /\ c \in Nat /\ c >= 128 /\ c % 128 = v % 128
  BY Shift7
<1>2. PutVarint[v] = <<c>> \o PutVarint[w]
  BY PutVarintAt
<1>3. /\ PutVarint[w] \in Seq(Nat) /\ Len(PutVarint[w]) = n /\ n \in Nat \ {0}
      /\ e \in [1..n -> Nat] /\ e[1] = w /\ PutVarint[w][n] = e[n] /\ e[n] < 128
  BY DEF Coded
<1> HIDE DEF c, w
<1>4. /\ PutVarint[v] \in Seq(Nat) /\ Len(PutVarint[v]) = n + 1
      /\ PutVarint[v][1] = c
      /\ \A k \in 1..n : PutVarint[v][k + 1] = PutVarint[w][k]
  <2>1. <<c>> \in Seq(Nat) /\ Len(<<c>>) = 1 /\ <<c>>[1] = c
    BY <1>1
  <2> HIDE DEF c
  <2>2. \A k \in 1..n : k + 1 \in 1..(1 + n) /\ ~(k + 1 <= 1) /\ (k + 1) - 1 = k
    BY <1>3
  <2>3. /\ <<c>> \o PutVarint[w] \in Seq(Nat)
        /\ Len(<<c>> \o PutVarint[w]) = 1 + n
        /\ \A i \in 1..(1 + n) : (<<c>> \o PutVarint[w])[i] =
             IF i <= 1 THEN <<c>>[i] ELSE PutVarint[w][i - 1]
    BY <1>3, <2>1, ConcatProperties
  <2> QED
    BY <1>2, <1>3, <2>1, <2>2, <2>3
<1>5. /\ d \in [1..(n + 1) -> Nat] /\ d[1] = v /\ \A k \in 1..n : d[k + 1] = e[k]
  BY <1>3
<1> HIDE DEF d
<1>6. ASSUME NEW k \in 1..n
      PROVE  /\ PutVarint[v][k] >= 128 /\ PutVarint[v][k] % 128 = d[k] % 128
             /\ d[k] = (d[k] % 128) + 128 * d[k + 1]
  <2>1. CASE k = 1
    <3>1. 1 \in 1..n /\ d[1 + 1] = e[1]
      BY <1>3, <1>5
    <3>2. PutVarint[v][k] = c /\ d[k] = v /\ d[k + 1] = w
      BY <1>3, <1>4, <1>5, <2>1, <3>1
    <3> QED
      BY <1>1, <3>2
  <2>2. CASE k # 1
    <3>1. k - 1 \in 1..(n - 1) /\ k - 1 \in 1..n /\ (k - 1) + 1 = k
      BY <1>3, <2>2
    <3>2. /\ PutVarint[w][k - 1] >= 128 /\ PutVarint[w][k - 1] % 128 = e[k - 1] % 128
          /\ e[k - 1] = (e[k - 1] % 128) + 128 * e[k]
      BY <3>1 DEF Coded, w
    <3>3. PutVarint[v][k] = PutVarint[w][k - 1] /\ d[k] = e[k - 1] /\ d[k + 1] = e[k]
      BY <1>4, <1>5, <3>1
    <3> QED
      BY <3>2, <3>3
  <2> QED
    BY <2>1, <2>2
<1>7. PutVarint[v][n + 1] = d[n + 1] /\ d[n + 1] < 128
  <2>1. n \in 1..n
    BY <1>3
  <2> QED
    BY <1>3, <1>4, <1>5, <2>1
<1>8. n + 1 \in Nat \ {0} /\ (n + 1) - 1 = n
  BY <1>3
<1>9. Coded(v, n + 1, d)
  BY <1>4, <1>5, <1>6, <1>7, <1>8 DEF Coded
<1> QED
  BY <1>9

\* Every number has such bytes,
LEMMA CodedAll ==
  ASSUME NEW v \in Nat
  PROVE  \E n, d : Coded(v, n, d)
<1> DEFINE Bad == {m \in Nat : ~\E n, d : Coded(m, n, d)}
<1>1. ASSUME NEW m \in Bad, \A y \in Bad : m <= y
      PROVE  FALSE
  <2>1. m \in Nat /\ (m >= 128 => m \div 128 \in Nat /\ ~(m <= m \div 128))
    BY Shift7
  <2>2. CASE m < 128
    BY <2>1, <2>2, CodedShort
  <2>3. CASE m >= 128
    <3>1. PICK n, e : Coded(m \div 128, n, e)
      BY <1>1, <2>1, <2>3
    <3> QED
      BY <2>1, <2>3, <3>1, CodedLong
  <2> QED
    BY <2>1, <2>2, <2>3
<1>2. Bad \subseteq Nat
  OBVIOUS
<1>3. Bad = {}
  <2> HIDE DEF Bad
  <2> QED
    BY <1>1, <1>2, Least
<1> QED
  BY <1>3

\* 2^35 and 2^32.
Max35 == 128 * 128 * 128 * 128 * 128

\* The numbers that a fixed32 holds.
Max32 == 256 * 256 * 256 * 256

\* at most five of them if it is smaller than 2^35.
LEMMA CodedFive ==
  ASSUME NEW v \in Nat, v < Max35
  PROVE  \E n \in 1..5 : \E d : Coded(v, n, d)
<1>1. ASSUME NEW u \in Nat, u < 128
      PROVE  \E n \in 1..1 : \E d : Coded(u, n, d)
  BY <1>1, CodedShort
<1>2. ASSUME NEW b \in Nat, NEW m \in Nat \ {0}, NEW u \in Nat, u < 128 * b,
             \A x \in Nat : x < b => \E n \in 1..m : \E d : Coded(x, n, d)
      PROVE  \E n \in 1..(m + 1) : \E d : Coded(u, n, d)
  <2>1. CASE u < 128
    <3>1. 1 \in 1..(m + 1)
      OBVIOUS
    <3> QED
      BY <2>1, <3>1, CodedShort
  <2>2. CASE u >= 128
    <3>1. u \div 128 \in Nat /\ u \div 128 < b
      BY <1>2, Shift7
    <3>2. PICK n \in 1..m : \E d : Coded(u \div 128, n, d)
      BY <1>2, <3>1
    <3>3. \E d : Coded(u, n + 1, d)
      BY <2>2, <3>2, CodedLong
    <3>4. n + 1 \in 1..(m + 1)
      OBVIOUS
    <3> QED
      BY <3>3, <3>4
  <2> QED
    BY <2>1, <2>2
<1> DEFINE Fits(b, m) == \A x \in Nat : x < b => \E n \in 1..m : \E d : Coded(x, n, d)
<1>3. ASSUME NEW b \in Nat, NEW m \in Nat \ {0}, Fits(b, m)
      PROVE  Fits(128 * b, m + 1)
  BY <1>2, <1>3
<1>4. Fits(128, 1)
  BY <1>1
<1> HIDE DEF Fits
<1> DEFINE b2 == 128 * 128
           b3 == 128 * b2
           b4 == 128 * b3
<1>5. b2 \in Nat /\ b3 \in Nat /\ b4 \in Nat
  OBVIOUS
<1>6. v < 128 * b4
  BY DEF Max35
<1> HIDE DEF b2, b3, b4
<1>7. Fits(b2, 2)
  <2>1. Fits(128 * 128, 1 + 1)
    BY <1>3, <1>4
  <2> QED
    BY <2>1 DEF b2
<1>8. Fits(b3, 3)
  <2>1. Fits(128 * b2, 2 + 1)
    BY <1>3, <1>5, <1>7
  <2> QED
    BY <2>1 DEF b3
<1>9. Fits(b4, 4)
  <2>1. Fits(128 * b3, 3 + 1)
    BY <1>3, <1>5, <1>8
  <2> QED
    BY <2>1 DEF b4
<1>10. Fits(128 * b4, 5)
  <2>1. Fits(128 * b4, 4 + 1)
    BY <1>3, <1>5, <1>9
  <2> QED
    BY <2>1
<1> QED
  BY <1>6, <1>10 DEF Fits

\* A varint is a sequence of numbers with at least one member.
LEMMA VarintType ==
  ASSUME NEW v \in Nat
  PROVE  PutVarint[v] \in Seq(Nat) /\ Len(PutVarint[v]) \in Nat \ {0}
BY CodedAll DEF Coded

\* What PutVarint writes GetVarint reads.
LEMMA VarintReadBack ==
  ASSUME NEW v \in Nat, v < Max35, NEW s, NEW p \in Nat, NEW limit \in Nat,
         \A i \in 1..Len(PutVarint[v]) : s[p + i] = PutVarint[v][i],
         p + Len(PutVarint[v]) <= limit
  PROVE  GetVarint(s, p, limit) = [value |-> v, next |-> p + Len(PutVarint[v])]
<1>1. PICK n \in 1..5 : \E d : Coded(v, n, d)
  BY CodedFive
<1>2. PICK d : Coded(v, n, d)
  BY <1>1
<1> DEFINE ends == {i \in p .. p + 4 : i < limit /\ s[i + 1] < 128}
           last == Min(ends)
           Is(f) == f = [i \in p .. last |->
             IF i = last THEN s[i + 1] ELSE (s[i + 1] % 128) + 128 * f[i + 1]]
<1>3. /\ Len(PutVarint[v]) = n /\ d \in [1..n -> Nat] /\ d[1] = v
      /\ s[p + n] = d[n] /\ d[n] < 128 /\ p + n <= limit
  BY <1>2 DEF Coded
<1>4. \A k \in 1..(n - 1) :
         /\ s[p + k] >= 128 /\ s[p + k] % 128 = d[k] % 128
         /\ d[k] = (d[k] % 128) + 128 * d[k + 1] /\ d[k] \in Nat
         /\ s[p + k] \in Nat
  <2> SUFFICES ASSUME NEW k \in 1..(n - 1)
               PROVE  /\ s[p + k] >= 128 /\ s[p + k] % 128 = d[k] % 128
                      /\ d[k] = (d[k] % 128) + 128 * d[k + 1] /\ d[k] \in Nat
                      /\ s[p + k] \in Nat
    OBVIOUS
  <2>1. k \in 1..n
    OBVIOUS
  <2>2. s[p + k] = PutVarint[v][k] /\ PutVarint[v][k] \in Nat /\ d[k] \in Nat
    BY <1>2, <1>3, <2>1, ElementOfSeq DEF Coded
  <2> QED
    BY <1>2, <2>2 DEF Coded
<1>5. last = p + n - 1 /\ ends # {}
  <2>1. p + n - 1 \in ends
    BY <1>3
  <2>2. ASSUME NEW i \in ends PROVE p + n - 1 <= i
    <3> SUFFICES ASSUME i < p + n - 1 PROVE FALSE
      OBVIOUS
    <3>1. (i - p) + 1 \in 1..(n - 1) /\ p + ((i - p) + 1) = i + 1
      OBVIOUS
    <3>2. s[i + 1] >= 128 /\ s[i + 1] \in Nat
      BY <1>4, <3>1
    <3> QED
      BY <3>2
  <2>3. ends \subseteq Nat
    OBVIOUS
  <2> HIDE DEF ends
  <2>4. Min(ends) \in ends /\ \A y \in ends : Min(ends) <= y
    BY <2>1, <2>3, MinNat
  <2>5. Min(ends) \in Nat
    BY <2>3, <2>4
  <2> QED
    BY <2>1, <2>2, <2>4, <2>5
<1> HIDE DEF ends, last
<1> DEFINE g == [i \in p .. last |-> d[i - p + 1]]
<1>6. Is(g)
  <2>1. ASSUME NEW i \in p..last
        PROVE  g[i] = IF i = last THEN s[i + 1] ELSE (s[i + 1] % 128) + 128 * g[i + 1]
    <3>1. CASE i = last
      <4>1. i - p + 1 = n /\ i + 1 = p + n
        BY <1>5, <3>1
      <4> QED
        BY <1>3, <3>1, <4>1
    <3>2. CASE i # last
      <4>1. /\ i - p + 1 \in 1..(n - 1) /\ p + (i - p + 1) = i + 1 /\ i + 1 \in p..last
            /\ (i + 1) - p + 1 = (i - p + 1) + 1
        BY <1>5, <3>2
      <4>2. g[i] = d[i - p + 1] /\ g[i + 1] = d[(i - p + 1) + 1]
        BY <4>1
      <4> HIDE DEF g
      <4>3. d[i - p + 1] = (s[i + 1] % 128) + 128 * d[(i - p + 1) + 1]
        BY <1>4, <4>1
      <4> QED
        BY <3>2, <4>2, <4>3
    <3> QED
      BY <3>1, <3>2
  <2>2. g = [i \in p..last |-> g[i]]
    OBVIOUS
  <2> HIDE DEF g
  <2> QED
    BY <2>1, <2>2
<1>7. ASSUME NEW f, Is(f)
      PROVE  f[p] = v
  <2> DEFINE Bad == {k \in 0..(n - 1) : f[last - k] # d[n - k]}
  <2>1. ASSUME NEW k \in Bad, \A y \in Bad : k <= y
        PROVE  FALSE
    <3>1. last - k \in p..last /\ last - k + 1 = p + (n - k)
      BY <1>5
    <3>2. f[last - k] = IF last - k = last THEN s[p + (n - k)]
                        ELSE (s[p + (n - k)] % 128) + 128 * f[last - k + 1]
      <4> DEFINE j == last - k
      <4>1. j \in p..last /\ j + 1 = p + (n - k)
        BY <3>1
      <4> HIDE DEF j
      <4>2. f[j] = IF j = last THEN s[j + 1] ELSE (s[j + 1] % 128) + 128 * f[j + 1]
        BY <1>7, <4>1
      <4> QED
        BY <4>1, <4>2 DEF j
    <3>3. CASE k = 0
      <4>1. last - k = last /\ n - k = n
        BY <1>5, <3>3
      <4> QED
        BY <1>3, <3>2, <4>1
    <3>4. CASE k # 0
      <4>1. /\ k - 1 \in 0..(n - 1) /\ ~(k <= k - 1) /\ last - k # last
            /\ last - (k - 1) = last - k + 1 /\ n - (k - 1) = (n - k) + 1
            /\ n - k \in 1..(n - 1)
        BY <1>5, <3>4
      <4>2. f[last - k + 1] = d[(n - k) + 1]
        <5>1. f[last - (k - 1)] = d[n - (k - 1)]
          BY <2>1, <4>1
        <5> QED
          BY <4>1, <5>1
      <4>3. /\ s[p + (n - k)] % 128 = d[n - k] % 128
            /\ d[n - k] = (d[n - k] % 128) + 128 * d[(n - k) + 1]
        BY <1>4, <4>1
      <4> QED
        BY <3>2, <4>1, <4>2, <4>3
    <3> QED
      BY <3>3, <3>4
  <2>2. Bad \subseteq Nat
    OBVIOUS
  <2>3. Bad = {}
    <3> HIDE DEF Bad
    <3> QED
      BY <2>1, <2>2, Least
  <2>4. n - 1 \in 0..(n - 1) /\ last - (n - 1) = p /\ n - (n - 1) = 1
    BY <1>5
  <2>5. f[last - (n - 1)] = d[n - (n - 1)]
    BY <2>3, <2>4
  <2> QED
    BY <1>3, <2>4, <2>5
<1> DEFINE value == CHOOSE f : Is(f)
<1>8. value[p] = v
  <2>1. Is(value)
    BY <1>6
  <2> HIDE DEF value, Is
  <2> QED
    BY <1>7, <2>1
<1>9. last + 1 = p + n
  BY <1>5
<1>10. GetVarint(s, p, limit) = IF ends = {} THEN [value |-> 0, next |-> NULL]
                                ELSE [value |-> value[p], next |-> last + 1]
  BY DEF GetVarint, ends, last
<1> QED
  BY <1>3, <1>5, <1>8, <1>9, <1>10

\* The four bytes of PutFixed32().
LEMMA Fixed32Bytes ==
  ASSUME NEW v \in Nat
  PROVE  /\ PutFixed32(v) \in Seq(Nat) /\ Len(PutFixed32(v)) = 4
         /\ PutFixed32(v)[1] = v % 256
         /\ PutFixed32(v)[2] = (v \div 256) % 256
         /\ PutFixed32(v)[3] = (v \div (256 * 256)) % 256
         /\ PutFixed32(v)[4] = (v \div (256 * 256 * 256)) % 256
<1> DEFINE a == v % 256
           b == (v \div 256) % 256
           c == (v \div (256 * 256)) % 256
           d == (v \div (256 * 256 * 256)) % 256
<1>1. a \in Nat /\ b \in Nat /\ c \in Nat /\ d \in Nat
  OBVIOUS
<1>2. PutFixed32(v) = <<a, b, c, d>>
  BY DEF PutFixed32
<1> HIDE DEF a, b, c, d
<1>3. /\ <<a, b, c, d>> \in Seq(Nat) /\ Len(<<a, b, c, d>>) = 4
      /\ <<a, b, c, d>>[1] = a /\ <<a, b, c, d>>[2] = b
      /\ <<a, b, c, d>>[3] = c /\ <<a, b, c, d>>[4] = d
  BY <1>1
<1> QED
  BY <1>2, <1>3 DEF a, b, c, d

\* PutFixed32() appends four numbers.
LEMMA Fixed32Type ==
  ASSUME NEW v \in Nat
  PROVE  PutFixed32(v) \in Seq(Nat) /\ Len(PutFixed32(v)) = 4
BY Fixed32Bytes

\* What PutFixed32 writes DecodeFixed32 reads.
LEMMA Fixed32ReadBack ==
  ASSUME NEW v \in Nat, v < Max32, NEW s, NEW p \in Nat,
         \A i \in 1..4 : s[p + i] = PutFixed32(v)[i]
  PROVE  DecodeFixed32(s, p) = v
<1> DEFINE b == v \div 256
           c == b \div 256
           d == c \div 256
<1>1. ASSUME NEW x \in Nat
      PROVE  x \div 256 \in Nat /\ x % 256 \in Nat /\ x = 256 * (x \div 256) + (x % 256)
  OBVIOUS
<1>2. /\ b \in Nat /\ v % 256 \in Nat /\ v = 256 * b + (v % 256)
      /\ c \in Nat /\ b % 256 \in Nat /\ b = 256 * c + (b % 256)
      /\ d \in Nat /\ c % 256 \in Nat /\ c = 256 * d + (c % 256)
  BY <1>1
<1>3. v \div (256 * 256) = c /\ v \div (256 * 256 * 256) = d
  BY <1>2
<1>4. d < 256
  BY <1>2 DEF Max32
<1>5. d % 256 = d
  BY <1>2, <1>4
<1>6. s[p + 1] = v % 256 /\ s[p + 2] = b % 256 /\ s[p + 3] = c % 256 /\ s[p + 4] = d
  <2>1. 1 \in 1..4 /\ 2 \in 1..4 /\ 3 \in 1..4 /\ 4 \in 1..4
    OBVIOUS
  <2>2. /\ s[p + 1] = PutFixed32(v)[1] /\ s[p + 2] = PutFixed32(v)[2]
        /\ s[p + 3] = PutFixed32(v)[3] /\ s[p + 4] = PutFixed32(v)[4]
    BY <2>1
  <2>3. /\ PutFixed32(v)[1] = v % 256 /\ PutFixed32(v)[2] = b % 256
        /\ PutFixed32(v)[3] = (v \div (256 * 256)) % 256
        /\ PutFixed32(v)[4] = (v \div (256 * 256 * 256)) % 256
    BY Fixed32Bytes
  <2> QED
    BY <1>3, <1>5, <2>2, <2>3
<1> HIDE DEF b, c, d
<1> QED
  BY <1>2, <1>6 DEF DecodeFixed32

\* The numbers of a sequence one after the other.
LEMMA AllFixed32Bytes ==
  ASSUME NEW q \in Seq(Nat)
  PROVE  /\ PutAllFixed32(q) \in Seq(Nat) /\ Len(PutAllFixed32(q)) = 4 * Len(q)
         /\ \A j \in 1..Len(q) : \A i \in 1..4 :
              PutAllFixed32(q)[4 * (j - 1) + i] = PutFixed32(q[j])[i]
<1> DEFINE n == 4 * Len(q)
           At(i) == PutFixed32(q[(i + 3) \div 4])[((i - 1) % 4) + 1]
<1>1. n \in Nat /\ PutAllFixed32(q) = [i \in 1..n |-> At(i)]
  BY DEF PutAllFixed32
<1>2. ASSUME NEW i \in 1..n
      PROVE  At(i) \in Nat
  <2>1. (i + 3) \div 4 \in 1..Len(q) /\ ((i - 1) % 4) + 1 \in 1..4
    <3> DEFINE L == Len(q)
    <3>1. L \in Nat /\ i \in 1..(4 * L)
      OBVIOUS
    <3> HIDE DEF L
    <3>2. (i + 3) \div 4 \in 1..L /\ ((i - 1) % 4) + 1 \in 1..4
      BY <3>1
    <3> QED
      BY <3>2 DEF L
  <2> DEFINE j == (i + 3) \div 4
             k == ((i - 1) % 4) + 1
  <2>2. q[j] \in Nat /\ k \in 1..4
    BY <2>1, ElementOfSeq
  <2> HIDE DEF j, k
  <2>3. PutFixed32(q[j]) \in Seq(Nat) /\ Len(PutFixed32(q[j])) = 4
    BY <2>2, Fixed32Type
  <2>4. k \in 1..Len(PutFixed32(q[j]))
    BY <2>2, <2>3
  <2>5. PutFixed32(q[j])[k] \in Nat
    BY <2>3, <2>4, ElementOfSeq
  <2> QED
    BY <2>5 DEF j, k
<1>3. ASSUME NEW j \in 1..Len(q), NEW i \in 1..4
      PROVE  PutAllFixed32(q)[4 * (j - 1) + i] = PutFixed32(q[j])[i]
  <2> DEFINE m == 4 * (j - 1) + i
  <2>1. m \in 1..n /\ (m + 3) \div 4 = j /\ ((m - 1) % 4) + 1 = i
    OBVIOUS
  <2>2. At(m) = PutFixed32(q[j])[i]
    BY <2>1
  <2> HIDE DEF m, At, n
  <2>3. PutAllFixed32(q)[m] = At(m)
    BY <1>1, <2>1
  <2> QED
    BY <2>2, <2>3 DEF m
<1> HIDE DEF At, n
<1>4. [i \in 1..n |-> At(i)] \in Seq(Nat) /\ Len([i \in 1..n |-> At(i)]) = n
  BY <1>1, <1>2
<1> QED
  BY <1>1, <1>3, <1>4 DEF n

\* What a block builder has: sizes fit 32 bits.
BlockType(b) ==
  /\ b = [buffer |-> b.buffer, restarts |-> b.restarts, counter |-> b.counter,
          last_key |-> b.last_key]
  /\ b.buffer \in Seq(Nat) /\ b.restarts \in Seq(Nat) /\ b.restarts # <<>>
  /\ b.counter \in Nat /\ b.last_key \in Seq(Nat)
  /\ \A r \in 1..Len(b.restarts) : b.restarts[r] <= Len(b.buffer)

\* The parts of the contents that BlockBuilder::Finish() returns.
LEMMA FinishParts ==
  ASSUME NEW b, BlockType(b)
  PROVE  /\ BlockFinish(b) \in Seq(Nat)
         /\ Len(BlockFinish(b)) = Len(b.buffer) + 4 * Len(b.restarts) + 4
         /\ \A i \in 1..Len(b.buffer) : BlockFinish(b)[i] = b.buffer[i]
         /\ \A j \in 1..Len(b.restarts) : \A i \in 1..4 :
              BlockFinish(b)[Len(b.buffer) + 4 * (j - 1) + i] = PutFixed32(b.restarts[j])[i]
         /\ \A i \in 1..4 :
              BlockFinish(b)[Len(b.buffer) + 4 * Len(b.restarts) + i] =
                PutFixed32(Len(b.restarts))[i]
<1> DEFINE B == b.buffer
           R == PutAllFixed32(b.restarts)
           N == PutFixed32(Len(b.restarts))
           l == Len(B)
           m == Len(b.restarts)
<1>1. B \in Seq(Nat) /\ b.restarts \in Seq(Nat) /\ l \in Nat /\ m \in Nat
  BY DEF BlockType
<1>2. /\ R \in Seq(Nat) /\ Len(R) = 4 * m
      /\ \A j \in 1..m : \A i \in 1..4 : R[4 * (j - 1) + i] = PutFixed32(b.restarts[j])[i]
  BY <1>1, AllFixed32Bytes
<1>3. N \in Seq(Nat) /\ Len(N) = 4
  BY <1>1, Fixed32Type
<1> HIDE DEF B, R, N, l, m
<1>4. /\ B \o R \in Seq(Nat) /\ Len(B \o R) = l + 4 * m
      /\ \A i \in 1..(l + 4 * m) : (B \o R)[i] = IF i <= l THEN B[i] ELSE R[i - l]
  <2>1. Len(B) = l
    BY DEF l
  <2>2. /\ B \o R \in Seq(Nat) /\ Len(B \o R) = Len(B) + Len(R)
        /\ \A i \in 1..(Len(B) + Len(R)) :
             (B \o R)[i] = IF i <= Len(B) THEN B[i] ELSE R[i - Len(B)]
    BY <1>1, <1>2, ConcatProperties
  <2> QED
    BY <1>2, <2>1, <2>2, Zenon
<1> DEFINE BR == B \o R
           s == BR \o N
<1> HIDE DEF BR
<1>5. /\ s \in Seq(Nat) /\ Len(s) = l + 4 * m + 4
      /\ \A i \in 1..(l + 4 * m + 4) : s[i] = IF i <= l + 4 * m THEN BR[i] ELSE N[i - (l + 4 * m)]
  <2>1. BR \in Seq(Nat) /\ Len(BR) = l + 4 * m
    BY <1>4 DEF BR
  <2>2. /\ BR \o N \in Seq(Nat) /\ Len(BR \o N) = Len(BR) + Len(N)
        /\ \A i \in 1..(Len(BR) + Len(N)) :
             (BR \o N)[i] = IF i <= Len(BR) THEN BR[i] ELSE N[i - Len(BR)]
    BY <1>3, <2>1, ConcatProperties
  <2> QED
    BY <1>3, <2>1, <2>2, Zenon
<1>6. BlockFinish(b) = s
  BY DEF BlockFinish, BR, B, R, N
<1> HIDE DEF s
<1>7. ASSUME NEW i \in 1..l PROVE s[i] = B[i]
  <2>1. i \in 1..(l + 4 * m + 4) /\ i <= l + 4 * m /\ i \in 1..(l + 4 * m) /\ i <= l
    BY <1>1
  <2> QED
    BY <1>4, <1>5, <2>1 DEF BR
<1>8. ASSUME NEW j \in 1..m, NEW i \in 1..4
      PROVE  s[l + 4 * (j - 1) + i] = PutFixed32(b.restarts[j])[i]
  <2> DEFINE k == l + 4 * (j - 1) + i
  <2>1. /\ k \in 1..(l + 4 * m + 4) /\ k <= l + 4 * m /\ k \in 1..(l + 4 * m) /\ ~(k <= l)
        /\ k - l = 4 * (j - 1) + i
    BY <1>1
  <2> HIDE DEF k
  <2>2. s[k] = R[k - l]
    BY <1>4, <1>5, <2>1 DEF BR
  <2> QED
    BY <1>2, <2>1, <2>2 DEF k
<1>9. ASSUME NEW i \in 1..4
      PROVE  s[l + 4 * m + i] = N[i]
  <2> DEFINE k == l + 4 * m + i
  <2>1. k \in 1..(l + 4 * m + 4) /\ ~(k <= l + 4 * m) /\ k - (l + 4 * m) = i
    BY <1>1
  <2> HIDE DEF k
  <2>2. s[k] = N[k - (l + 4 * m)]
    BY <1>5, <2>1
  <2> QED
    BY <2>1, <2>2 DEF k
<1> QED
  BY <1>5, <1>6, <1>7, <1>8, <1>9 DEF B, l, m, N

\* The restart array is found again.
LEMMA FinishRestarts ==
  ASSUME NEW b, BlockType(b), Len(b.buffer) < Max32, Len(b.restarts) < Max32
  PROVE  /\ NumRestarts(BlockFinish(b)) = Len(b.restarts)
         /\ RestartArray(BlockFinish(b)) = Len(b.buffer)
         /\ \A i \in 0..(Len(b.restarts) - 1) :
              GetRestartPoint(BlockFinish(b), i) = b.restarts[i + 1]
<1> DEFINE s == BlockFinish(b)
           l == Len(b.buffer)
           m == Len(b.restarts)
<1>1. l \in Nat /\ m \in Nat /\ b.restarts \in Seq(Nat)
  BY DEF BlockType
<1>2. /\ Len(s) = l + 4 * m + 4
      /\ \A j \in 1..m : \A i \in 1..4 : s[l + 4 * (j - 1) + i] = PutFixed32(b.restarts[j])[i]
      /\ \A i \in 1..4 : s[l + 4 * m + i] = PutFixed32(m)[i]
  BY FinishParts
<1> HIDE DEF s, l, m
<1>3. NumRestarts(s) = m
  <2>1. Len(s) - 4 = l + 4 * m /\ l + 4 * m \in Nat /\ m < Max32
    BY <1>1, <1>2 DEF m
  <2> DEFINE p == l + 4 * m
  <2>2. p \in Nat /\ p = Len(s) - 4 /\ \A i \in 1..4 : s[p + i] = PutFixed32(m)[i]
    BY <1>2, <2>1
  <2> HIDE DEF p
  <2>3. DecodeFixed32(s, p) = m
    BY <1>1, <2>1, <2>2, Fixed32ReadBack
  <2> QED
    BY <2>2, <2>3 DEF NumRestarts
<1>4. RestartArray(s) = l
  BY <1>1, <1>2, <1>3 DEF RestartArray
<1>5. ASSUME NEW i \in 0..(m - 1)
      PROVE  GetRestartPoint(s, i) = b.restarts[i + 1]
  <2>1. i + 1 \in 1..m /\ 4 * ((i + 1) - 1) = 4 * i /\ l + 4 * i \in Nat
    BY <1>1
  <2>2. b.restarts[i + 1] \in Nat /\ b.restarts[i + 1] < Max32
    <3>1. b.restarts[i + 1] \in Nat
      BY <1>1, <2>1, ElementOfSeq DEF m
    <3>2. b.restarts[i + 1] <= l /\ l < Max32 /\ Max32 \in Nat
      BY <2>1 DEF BlockType, m, l, Max32
    <3> QED
      BY <1>1, <3>1, <3>2
  <2>3. \A k \in 1..4 : s[(l + 4 * i) + k] = PutFixed32(b.restarts[i + 1])[k]
    BY <1>2, <2>1
  <2>4. DecodeFixed32(s, l + 4 * i) = b.restarts[i + 1]
    BY <2>1, <2>2, <2>3, Fixed32ReadBack
  <2> QED
    BY <1>4, <2>4 DEF GetRestartPoint
<1> QED
  BY <1>3, <1>4, <1>5 DEF s, l, m

-----------------------------------------------------------------------------
(* Entries.                                                                *)

\* The bytes of x are in buf behind position at.
Piece(buf, at, x) == at + Len(x) <= Len(buf) /\ \A i \in 1..Len(x) : buf[at + i] = x[i]

\* The buffer c begins with buf.
Grown(c, buf) ==
  Len(buf) \in Nat /\ Len(c) \in Nat /\ Len(buf) <= Len(c)
  /\ \A i \in 1..Len(buf) : c[i] = buf[i]

\* A piece of a string stays where it is when the string grows.
LEMMA PieceKept ==
  ASSUME NEW buf, NEW c, Grown(c, buf), NEW at \in Nat, NEW x, Len(x) \in Nat,
         Piece(buf, at, x)
  PROVE  Piece(c, at, x)
<1>1. Len(buf) \in Nat /\ Len(c) \in Nat /\ Len(buf) <= Len(c)
  BY DEF Grown
<1>2. at + Len(x) <= Len(buf)
  BY DEF Piece
<1>3. ASSUME NEW i \in 1..Len(x)
      PROVE  c[at + i] = x[i]
  <2>1. at + i \in 1..Len(buf)
    BY <1>1, <1>2
  <2>2. c[at + i] = buf[at + i]
    BY <2>1 DEF Grown
  <2> QED
    BY <2>2 DEF Piece
<1>4. at + Len(x) <= Len(c)
  BY <1>1, <1>2
<1> QED
  BY <1>3, <1>4 DEF Piece

\* A string grows when something is appended.
LEMMA GrownByConcat ==
  ASSUME NEW S, NEW buf \in Seq(S), NEW y \in Seq(S)
  PROVE  /\ Grown(buf \o y, buf) /\ buf \o y \in Seq(S)
         /\ Len(buf \o y) = Len(buf) + Len(y) /\ Len(buf \o y) \in Nat
<1>1. /\ Len(buf) \in Nat /\ Len(y) \in Nat /\ Len(buf \o y) = Len(buf) + Len(y)
      /\ \A i \in 1..(Len(buf) + Len(y)) :
           (buf \o y)[i] = IF i <= Len(buf) THEN buf[i] ELSE y[i - Len(buf)]
      /\ buf \o y \in Seq(S)
  BY ConcatProperties, LenProperties
<1>2. ASSUME NEW i \in 1..Len(buf)
      PROVE  (buf \o y)[i] = buf[i]
  <2>1. i \in 1..(Len(buf) + Len(y)) /\ i <= Len(buf)
    BY <1>1
  <2> QED
    BY <1>1, <2>1
<1> QED
  BY <1>1, <1>2 DEF Grown

\* Growing twice is growing.
LEMMA GrownTwice ==
  ASSUME NEW a, NEW b, NEW c, Grown(b, a), Grown(c, b)
  PROVE  Grown(c, a)
<1>1. /\ Len(a) \in Nat /\ Len(b) \in Nat /\ Len(c) \in Nat
      /\ Len(a) <= Len(b) /\ Len(b) <= Len(c)
  BY DEF Grown
<1>2. ASSUME NEW i \in 1..Len(a)
      PROVE  c[i] = a[i]
  <2>1. i \in 1..Len(b)
    BY <1>1
  <2> QED
    BY <2>1 DEF Grown
<1> QED
  BY <1>1, <1>2 DEF Grown

\* What was appended is a piece of the result.
LEMMA PieceAdded ==
  ASSUME NEW S, NEW buf \in Seq(S), NEW y \in Seq(S)
  PROVE  Piece(buf \o y, Len(buf), y)
<1>1. /\ Len(buf) \in Nat /\ Len(y) \in Nat /\ Len(buf \o y) = Len(buf) + Len(y)
      /\ \A i \in 1..Len(buf) + Len(y) :
           (buf \o y)[i] = IF i <= Len(buf) THEN buf[i] ELSE y[i - Len(buf)]
  BY ConcatProperties, LenProperties
<1>2. ASSUME NEW i \in 1..Len(y)
      PROVE  (buf \o y)[Len(buf) + i] = y[i]
  <2>1. /\ Len(buf) + i \in 1..Len(buf) + Len(y) /\ ~(Len(buf) + i <= Len(buf))
        /\ (Len(buf) + i) - Len(buf) = i
    BY <1>1
  <2> QED
    BY <1>1, <2>1
<1> QED
  BY <1>1, <1>2 DEF Piece

\* The contents s of a block begin with buf.
Begins(s, buf) == \A i \in 1..Len(buf) : s[i] = buf[i]

\* An entry from position p to position q of buf: its key e[1] has shared bytes in
\* common with the key before it.
Header1(p, shared) == p + Len(PutVarint[shared])

\* Where the second number of the header ends.
Header2(p, shared, e) == Header1(p, shared) + Len(PutVarint[Len(e[1]) - shared])

\* Where the header ends.
Header3(p, shared, e) == Header2(p, shared, e) + Len(PutVarint[Len(e[2])])

\* An entry that ends at q is stored at p: the header of three varints, what the key
\* does not share with the key before it, and the value.
EntryAt(buf, p, q, shared, prev, e) ==
  /\ shared \in 0..Len(e[1]) /\ shared <= Len(prev)
  /\ \A i \in 1..shared : prev[i] = e[1][i]
  /\ Piece(buf, p, PutVarint[shared])
  /\ Piece(buf, Header1(p, shared), PutVarint[Len(e[1]) - shared])
  /\ Piece(buf, Header2(p, shared, e), PutVarint[Len(e[2])])
  /\ Piece(buf, Header3(p, shared, e), SubSeq(e[1], shared + 1, Len(e[1])))
  /\ Piece(buf, Header3(p, shared, e) + (Len(e[1]) - shared), e[2])
  /\ q = Header3(p, shared, e) + (Len(e[1]) - shared) + Len(e[2])

\* A key and a value.
Entry == Seq(Nat) \X Seq(Nat)

\* The numbers of the header are numbers, and each takes some room.
LEMMA HeaderNumbers ==
  ASSUME NEW e \in Entry, NEW p \in Nat, NEW shared \in 0..Len(e[1])
  PROVE  /\ e[1] \in Seq(Nat) /\ e[2] \in Seq(Nat) /\ e = <<e[1], e[2]>>
         /\ Len(e[1]) \in Nat /\ Len(e[2]) \in Nat /\ Len(e[1]) - shared \in Nat
         /\ shared \in Nat
         /\ Header1(p, shared) \in Nat /\ p < Header1(p, shared)
         /\ Header2(p, shared, e) \in Nat /\ Header1(p, shared) < Header2(p, shared, e)
         /\ Header3(p, shared, e) \in Nat /\ Header2(p, shared, e) < Header3(p, shared, e)
<1>1. e[1] \in Seq(Nat) /\ e[2] \in Seq(Nat) /\ e = <<e[1], e[2]>>
  BY DEF Entry
<1>2. Len(e[1]) \in Nat /\ Len(e[2]) \in Nat
  BY <1>1, LenProperties
<1>3. shared \in Nat /\ Len(e[1]) - shared \in Nat
  BY <1>2
<1> DEFINE l1 == Len(PutVarint[shared])
           l2 == Len(PutVarint[Len(e[1]) - shared])
           l3 == Len(PutVarint[Len(e[2])])
<1>4. l1 \in Nat \ {0} /\ l2 \in Nat \ {0} /\ l3 \in Nat \ {0}
  BY <1>2, <1>3, VarintType
<1> HIDE DEF l1, l2, l3
<1>5. /\ Header1(p, shared) = p + l1 /\ Header2(p, shared, e) = p + l1 + l2
      /\ Header3(p, shared, e) = p + l1 + l2 + l3
  BY DEF Header1, Header2, Header3, l1, l2, l3
<1> QED
  BY <1>1, <1>2, <1>3, <1>4, <1>5

\* DecodeEntry() finds the header of an entry again.
LEMMA DecodeEntryAt ==
  ASSUME NEW buf \in Seq(Nat), NEW p \in Nat, NEW q, NEW shared, NEW prev, NEW e \in Entry,
         EntryAt(buf, p, q, shared, prev, e), Len(e[1]) < Max32, Len(e[2]) < Max32,
         NEW s, Begins(s, buf)
  PROVE  /\ DecodeEntry(s, p, Len(buf)) =
              [p |-> Header3(p, shared, e), shared |-> shared,
               non_shared |-> Len(e[1]) - shared, value_length |-> Len(e[2])]
         /\ q <= Len(buf) /\ p + 3 <= q /\ q \in Nat
<1> DEFINE limit == Len(buf)
           n == Len(e[1]) - shared
           h1 == Header1(p, shared)
           h2 == Header2(p, shared, e)
           h3 == Header3(p, shared, e)
<1>1. limit \in Nat
  BY LenProperties
<1>2. /\ shared \in Nat /\ n \in Nat /\ Len(e[1]) \in Nat /\ Len(e[2]) \in Nat
      /\ h1 \in Nat /\ h2 \in Nat /\ h3 \in Nat /\ p < h1 /\ h1 < h2 /\ h2 < h3
      /\ e[1] \in Seq(Nat)
  BY HeaderNumbers DEF EntryAt
<1>3. ASSUME NEW at \in Nat, NEW v \in Nat, v < Max35, Piece(buf, at, PutVarint[v])
      PROVE  GetVarint(s, at, limit) = [value |-> v, next |-> at + Len(PutVarint[v])]
  <2>1. Len(PutVarint[v]) \in Nat
    BY VarintType
  <2>2. at + Len(PutVarint[v]) <= limit
    BY <1>3 DEF Piece
  <2>3. ASSUME NEW i \in 1..Len(PutVarint[v])
        PROVE  s[at + i] = PutVarint[v][i]
    <3>1. at + i \in 1..limit
      BY <1>1, <2>1, <2>2
    <3> QED
      BY <1>3, <3>1 DEF Piece, Begins
  <2> QED
    BY <1>1, <1>3, <2>2, <2>3, VarintReadBack
<1>4. shared < Max35 /\ n < Max35 /\ Len(e[2]) < Max35
  <2>1. shared <= Len(e[1]) /\ n <= Len(e[1])
    BY <1>2 DEF EntryAt
  <2>2. Max32 < Max35 /\ Max32 \in Nat /\ Max35 \in Nat
    BY DEF Max32, Max35
  <2> HIDE DEF n
  <2> QED
    BY <1>2, <2>1, <2>2
<1>5. GetVarint(s, p, limit) = [value |-> shared, next |-> h1]
  BY <1>2, <1>3, <1>4 DEF EntryAt, Header1
<1>6. GetVarint(s, h1, limit) = [value |-> n, next |-> h2]
  <2>1. Piece(buf, h1, PutVarint[n]) /\ h2 = h1 + Len(PutVarint[n])
    BY DEF EntryAt, Header2
  <2> HIDE DEF h1, h2, n
  <2> QED
    BY <1>2, <1>3, <1>4, <2>1
<1>7. GetVarint(s, h2, limit) = [value |-> Len(e[2]), next |-> h3]
  <2>1. Piece(buf, h2, PutVarint[Len(e[2])]) /\ h3 = h2 + Len(PutVarint[Len(e[2])])
    BY DEF EntryAt, Header3
  <2> HIDE DEF h3, h2
  <2> QED
    BY <1>2, <1>3, <1>4, <2>1
<1>8. h3 + n + Len(e[2]) <= limit /\ q = h3 + n + Len(e[2])
  <2>1. Piece(buf, h3 + n, e[2]) /\ q = h3 + n + Len(e[2])
    BY DEF EntryAt
  <2> HIDE DEF h3, n
  <2> QED
    BY <2>1 DEF Piece
<1> DEFINE m == Len(e[2])
<1>12. m \in Nat /\ h3 + n + m <= limit /\ q = h3 + n + m
  BY <1>2, <1>8
<1> HIDE DEF h1, h2, h3, n, limit, m
<1>9. /\ ~(limit - p < 3) /\ h1 # NULL /\ h2 # NULL /\ h3 # NULL
      /\ ~(limit - h3 < n + m)
  BY <1>1, <1>2, <1>12 DEF NULL
<1>10. DecodeEntry(s, p, limit) = [p |-> h3, shared |-> shared, non_shared |-> n,
                                   value_length |-> Len(e[2])]
  BY <1>5, <1>6, <1>7, <1>9 DEF DecodeEntry, m
<1>11. q <= limit /\ p + 3 <= q /\ q \in Nat
  BY <1>1, <1>2, <1>12
<1> QED
  BY <1>10, <1>11 DEF h3, n, limit

\* The rest of a key.
LEMMA RestOfKey ==
  ASSUME NEW key \in Seq(Nat), NEW shared \in 0..Len(key)
  PROVE  /\ SubSeq(key, shared + 1, Len(key)) \in Seq(Nat)
         /\ Len(SubSeq(key, shared + 1, Len(key))) = Len(key) - shared
         /\ \A i \in 1..(Len(key) - shared) :
              SubSeq(key, shared + 1, Len(key))[i] = key[shared + i]
<1> DEFINE l == Len(key)
           m == shared + 1
           r == SubSeq(key, m, l)
<1>1. l \in Nat /\ shared \in Nat /\ m \in Int /\ m = shared + 1 /\ shared <= l
  BY LenProperties
<1>2. \A i \in m..l : key[i] \in Nat
  <2>1. \A i \in m..l : i \in 1..Len(key)
    BY <1>1
  <2> QED
    BY <2>1, ElementOfSeq
<1> HIDE DEF l, m
<1>3. /\ r \in Seq(Nat) /\ Len(r) = IF m <= l THEN l - m + 1 ELSE 0
      /\ \A i \in 1..(l - m + 1) : r[i] = key[m + i - 1]
  BY <1>1, <1>2, SubSeqProperties
<1> HIDE DEF r
<1>4. l - m + 1 = l - shared /\ \A i \in 1..(l - shared) : m + i - 1 = shared + i
  BY <1>1
<1>5. Len(r) = l - shared
  BY <1>1, <1>3
<1>6. \A i \in 1..(l - shared) : r[i] = key[shared + i]
  BY <1>3, <1>4
<1> QED
  BY <1>3, <1>5, <1>6 DEF r, m, l

\* A key put together from what it shares with the one before it and the rest.
LEMMA KeyRestored ==
  ASSUME NEW key \in Seq(Nat), NEW prev \in Seq(Nat), NEW shared \in 0..Len(key),
         shared <= Len(prev), \A i \in 1..shared : prev[i] = key[i],
         NEW rest \in Seq(Nat), Len(rest) = Len(key) - shared,
         \A i \in 1..(Len(key) - shared) : rest[i] = key[shared + i]
  PROVE  SubSeq(prev, 1, shared) \o rest = key
<1> DEFINE a == SubSeq(prev, 1, shared)
           l == Len(key)
<1>1. l \in Nat /\ Len(prev) \in Nat /\ shared \in Nat
  BY LenProperties
<1>2. \A i \in 1..shared : prev[i] \in Nat
  <2>1. \A i \in 1..shared : i \in 1..Len(prev)
    BY <1>1
  <2> QED
    BY <2>1, ElementOfSeq
<1>3. a \in Seq(Nat) /\ Len(a) = shared /\ \A i \in 1..shared : a[i] = prev[i]
  <2>1. /\ a \in Seq(Nat) /\ Len(a) = IF 1 <= shared THEN shared - 1 + 1 ELSE 0
        /\ \A i \in 1..(shared - 1 + 1) : a[i] = prev[1 + i - 1]
    BY <1>1, <1>2, SubSeqProperties
  <2> QED
    BY <1>1, <2>1
<1> HIDE DEF a, l
<1>4. /\ a \o rest \in Seq(Nat) /\ Len(a \o rest) = shared + (l - shared)
      /\ \A i \in 1..(shared + (l - shared)) :
           (a \o rest)[i] = IF i <= shared THEN a[i] ELSE rest[i - shared]
  <2>1. Len(rest) = l - shared
    BY DEF l
  <2>2. /\ a \o rest \in Seq(Nat) /\ Len(a \o rest) = Len(a) + Len(rest)
        /\ \A i \in 1..(Len(a) + Len(rest)) :
             (a \o rest)[i] = IF i <= Len(a) THEN a[i] ELSE rest[i - Len(a)]
    BY <1>3, ConcatProperties
  <2> QED
    BY <1>3, <2>1, <2>2, Zenon
<1>5. ASSUME NEW i \in 1..l
      PROVE  (a \o rest)[i] = key[i]
  <2>1. i \in 1..(shared + (l - shared))
    BY <1>1
  <2>2. CASE i <= shared
    <3>1. i \in 1..shared
      BY <1>1, <2>2
    <3> QED
      BY <1>3, <1>4, <2>1, <2>2, <3>1
  <2>3. CASE ~(i <= shared)
    <3>1. i - shared \in 1..(Len(key) - shared) /\ shared + (i - shared) = i
      BY <1>1, <2>3 DEF l
    <3> QED
      BY <1>4, <2>1, <2>3, <3>1
  <2> QED
    BY <2>2, <2>3
<1>6. Len(a \o rest) = Len(key)
  BY <1>1, <1>4 DEF l
<1>7. a \o rest = key
  BY <1>4, <1>5, <1>6, SeqEqual DEF l
<1> QED
  BY <1>7 DEF a

\* Reading bytes that are those of x, wherever they are, yields x.
SameBytes(s, at, x) == \A i \in 1..Len(x) : s[at + i] = x[i]

\* What SubSeq reads there is x.
LEMMA PartRead ==
  ASSUME NEW s, NEW S, NEW x \in Seq(S), NEW at \in Nat, SameBytes(s, at, x)
  PROVE  SubSeq(s, at + 1, at + Len(x)) = x
<1> DEFINE m == at + 1
           n == at + Len(x)
<1>1. /\ Len(x) \in Nat /\ m \in Int /\ n \in Int /\ m = at + 1 /\ n = at + Len(x)
  BY LenProperties
<1> HIDE DEF m, n
<1>2. ASSUME NEW i \in 1..Len(x)
      PROVE  s[at + i] = x[i] /\ x[i] \in S
  BY ElementOfSeq DEF SameBytes
<1>3. ASSUME NEW j \in m..n
      PROVE  s[j] \in S
  <2>1. j - at \in 1..Len(x) /\ at + (j - at) = j
    BY <1>1
  <2> QED
    BY <1>2, <2>1
<1>4. /\ SubSeq(s, m, n) \in Seq(S)
      /\ Len(SubSeq(s, m, n)) = IF m <= n THEN n - m + 1 ELSE 0
      /\ \A i \in 1..(n - m + 1) : SubSeq(s, m, n)[i] = s[m + i - 1]
  BY <1>1, <1>3, SubSeqProperties
<1>5. Len(SubSeq(s, m, n)) = Len(x) /\ n - m + 1 = Len(x)
  BY <1>1, <1>4
<1>6. ASSUME NEW i \in 1..Len(x)
      PROVE  SubSeq(s, m, n)[i] = x[i]
  <2>1. m + i - 1 = at + i
    BY <1>1
  <2> QED
    BY <1>2, <1>4, <1>5, <2>1
<1> QED
  BY <1>4, <1>5, <1>6, SeqEqual DEF m, n

\* The same for bytes.
LEMMA BytesRead ==
  ASSUME NEW s, NEW x \in Seq(Nat), NEW at \in Nat, SameBytes(s, at, x)
  PROVE  SubSeq(s, at + 1, at + Len(x)) = x
BY PartRead

\* The bytes behind a position of the contents are those of a piece of the buffer.
LEMMA PieceRead ==
  ASSUME NEW buf \in Seq(Nat), NEW s, Begins(s, buf),
         NEW x \in Seq(Nat), NEW at \in Nat, Piece(buf, at, x)
  PROVE  SubSeq(s, at + 1, at + Len(x)) = x
<1>1. Len(x) \in Nat /\ Len(buf) \in Nat
  BY LenProperties
<1>2. ASSUME NEW i \in 1..Len(x)
      PROVE  s[at + i] = x[i]
  <2>1. at + i \in 1..Len(buf)
    BY <1>1 DEF Piece
  <2>2. s[at + i] = buf[at + i]
    BY <2>1 DEF Begins
  <2> QED
    BY <2>2 DEF Piece
<1> QED
  BY <1>2, BytesRead DEF SameBytes

\* Block::Iter in front of the entry at offset p, with the key and what was found so far.
IterAt(p, key, found) == [next |-> p, key |-> key, found |-> found, ok |-> TRUE]

\* ParseNextKey() takes the entry.
LEMMA ParseEntryAt ==
  ASSUME NEW buf \in Seq(Nat), NEW p \in Nat, NEW q, NEW shared, NEW prev \in Seq(Nat),
         NEW e \in Entry, EntryAt(buf, p, q, shared, prev, e), Len(e[1]) < Max32,
         Len(e[2]) < Max32, NEW s, Begins(s, buf), NEW found
  PROVE  ParseNextKey(s, Len(buf), IterAt(p, prev, found)) =
           IterAt(q, e[1], Append(found, e))
<1>0. /\ DecodeEntry(s, p, Len(buf)) =
           [p |-> Header3(p, shared, e), shared |-> shared,
            non_shared |-> Len(e[1]) - shared, value_length |-> Len(e[2])]
      /\ q <= Len(buf) /\ p + 3 <= q /\ q \in Nat
  BY DecodeEntryAt
<1> DEFINE limit == Len(buf)
           n == Len(e[1]) - shared
           v == Len(e[2])
           h == Header3(p, shared, e)
           it == IterAt(p, prev, found)
           d == [p |-> h, shared |-> shared, non_shared |-> n, value_length |-> v]
<1>1. DecodeEntry(s, p, limit) = d /\ q <= limit /\ p + 3 <= q /\ q \in Nat
  BY <1>0
<1>2. /\ shared \in 0..Len(e[1]) /\ e[1] \in Seq(Nat) /\ e[2] \in Seq(Nat)
      /\ e = <<e[1], e[2]>> /\ n \in Nat /\ v \in Nat /\ h \in Nat /\ limit \in Nat
      /\ Len(e[1]) \in Nat /\ shared <= Len(prev) /\ shared \in Nat
  <2>1. shared \in 0..Len(e[1]) /\ shared <= Len(prev)
    BY DEF EntryAt
  <2> QED
    BY <2>1, HeaderNumbers, LenProperties
<1> DEFINE rest == SubSeq(e[1], shared + 1, Len(e[1]))
<1>3. /\ rest \in Seq(Nat) /\ Len(rest) = n
      /\ \A i \in 1..n : rest[i] = e[1][shared + i]
  BY <1>2, RestOfKey
<1>4. /\ Piece(buf, h, rest) /\ Piece(buf, h + n, e[2]) /\ q = h + n + v
  BY SMT DEF EntryAt
<1> HIDE DEF limit, n, v, h, rest
<1>5. SubSeq(s, h + 1, h + n) = rest
  <2>1. h \in Nat /\ rest \in Seq(Nat) /\ Piece(buf, h, rest)
    BY <1>2, <1>3, <1>4
  <2>2. SubSeq(s, h + 1, h + Len(rest)) = rest
    BY <2>1, PieceRead
  <2> QED
    BY <1>3, <2>2
<1>6. SubSeq(s, h + n + 1, q) = e[2]
  <2> DEFINE a == h + n
  <2>1. a \in Nat /\ Piece(buf, a, e[2]) /\ q = a + Len(e[2])
    BY <1>2, <1>4 DEF v
  <2> HIDE DEF a
  <2>2. SubSeq(s, a + 1, a + Len(e[2])) = e[2]
    BY <1>2, <2>1, PieceRead
  <2> QED
    BY <2>1, <2>2 DEF a
<1>7. SubSeq(prev, 1, shared) \o rest = e[1]
  <2>1. \A i \in 1..shared : prev[i] = e[1][i]
    BY DEF EntryAt
  <2> QED
    BY <1>2, <1>3, <2>1, KeyRestored DEF n
<1>8. ~(p >= limit) /\ h # NULL /\ ~(Len(prev) < shared)
  BY <1>1, <1>2, LenProperties DEF NULL
<1>9. it.ok = TRUE /\ it.next = p /\ it.key = prev /\ it.found = found
  BY DEF IterAt
<1>10. d.p = h /\ d.shared = shared /\ d.non_shared = n /\ d.value_length = v
  OBVIOUS
<1> HIDE DEF it, d
<1>11. ParseNextKey(s, limit, it) =
         [next |-> h + n + v, key |-> e[1], ok |-> TRUE,
          found |-> Append(found, <<e[1], SubSeq(s, h + n + 1, h + n + v)>>)]
  BY <1>1, <1>5, <1>7, <1>8, <1>9, <1>10 DEF ParseNextKey
<1> QED
  BY <1>2, <1>4, <1>6, <1>11 DEF it, limit, IterAt

-----------------------------------------------------------------------------
(* Blocks.                                                                 *)

\* The key before the n-th entry.
KeyBefore(es, n) == IF n = 1 THEN <<>> ELSE es[n - 1][1]

\* The entries es are in the buffer of b: the n-th one from off[n - 1] to off[n], with
\* sh[n] bytes that it shares. A restart point is at the beginning of one that shares
\* nothing.
Laid(b, es, off, sh) ==
  /\ off \in [0..Len(es) -> Nat] /\ off[0] = 0 /\ off[Len(es)] = Len(b.buffer)
  /\ \A n \in 1..Len(es) :
       EntryAt(b.buffer, off[n - 1], off[n], sh[n], KeyBefore(es, n), es[n])
  /\ \A r \in 1..Len(b.restarts) : es # <<>> =>
       \E n \in 1..Len(es) : b.restarts[r] = off[n - 1] /\ sh[n] = 0

\* What BlockBuilder keeps while it adds the entries es.
BlockInv(b, es) ==
  /\ BlockType(b) /\ es \in Seq(Entry)
  /\ \A n \in 1..Len(es) : Len(es[n][1]) < Max32 /\ Len(es[n][2]) < Max32
  /\ b.last_key = KeyBefore(es, Len(es) + 1)
  /\ es = <<>> => b.counter = 0 /\ \A r \in 1..Len(b.restarts) : b.restarts[r] = 0
  /\ \E off, sh : Laid(b, es, off, sh)

\* The key before an entry is a string.
LEMMA KeyBeforeType ==
  ASSUME NEW es \in Seq(Entry), NEW n \in 1..(Len(es) + 1)
  PROVE  KeyBefore(es, n) \in Seq(Nat)
<1>1. CASE n = 1
  BY <1>1 DEF KeyBefore
<1>2. CASE n # 1
  <2>1. n - 1 \in 1..Len(es)
    BY <1>2, LenProperties
  <2>2. es[n - 1] \in Entry
    BY <2>1, ElementOfSeq
  <2>3. es[n - 1][1] \in Seq(Nat)
    BY <2>2 DEF Entry
  <2> QED
    BY <1>2, <2>3 DEF KeyBefore
<1> QED
  BY <1>1, <1>2

\* The facts about one entry of a block.
LEMMA LaidEntry ==
  ASSUME NEW b, NEW es, BlockInv(b, es), NEW off, NEW sh, Laid(b, es, off, sh),
         NEW n \in 1..Len(es)
  PROVE  /\ b.buffer \in Seq(Nat) /\ off[n - 1] \in Nat /\ off[n] \in Nat
         /\ es[n] \in Entry /\ KeyBefore(es, n) \in Seq(Nat)
         /\ Len(es[n][1]) < Max32 /\ Len(es[n][2]) < Max32
         /\ EntryAt(b.buffer, off[n - 1], off[n], sh[n], KeyBefore(es, n), es[n])
<1>1. es \in Seq(Entry) /\ b.buffer \in Seq(Nat) /\ Len(es) \in Nat
  BY LenProperties DEF BlockInv, BlockType
<1>2. n - 1 \in 0..Len(es) /\ n \in 0..Len(es) /\ n \in 1..(Len(es) + 1)
  BY <1>1
<1>3. off[n - 1] \in Nat /\ off[n] \in Nat
  BY <1>2 DEF Laid
<1>4. es[n] \in Entry /\ KeyBefore(es, n) \in Seq(Nat)
  BY <1>1, <1>2, ElementOfSeq, KeyBeforeType
<1>5. Len(es[n][1]) < Max32 /\ Len(es[n][2]) < Max32
  BY DEF BlockInv
<1>6. EntryAt(b.buffer, off[n - 1], off[n], sh[n], KeyBefore(es, n), es[n])
  BY DEF Laid
<1> QED
  BY <1>1, <1>3, <1>4, <1>5, <1>6

\* The n-th entry, which has at least three bytes, is decoded,
LEMMA LaidDecode ==
  ASSUME NEW b, NEW es, BlockInv(b, es), NEW off, NEW sh, Laid(b, es, off, sh),
         NEW n \in 1..Len(es), NEW s, Begins(s, b.buffer)
  PROVE  /\ off[n - 1] + 3 <= off[n] /\ off[n] <= Len(b.buffer)
         /\ DecodeEntry(s, off[n - 1], Len(b.buffer)).shared = sh[n]
         /\ DecodeEntry(s, off[n - 1], Len(b.buffer)).p # NULL
<1> DEFINE p == off[n - 1]
           q == off[n]
           prev == KeyBefore(es, n)
           e == es[n]
           buf == b.buffer
           m == sh[n]
<1>1. /\ buf \in Seq(Nat) /\ p \in Nat /\ q \in Nat /\ e \in Entry
      /\ prev \in Seq(Nat) /\ Len(e[1]) < Max32 /\ Len(e[2]) < Max32
      /\ EntryAt(buf, p, q, m, prev, e) /\ Begins(s, buf)
  BY LaidEntry
<1> HIDE DEF p, q, prev, e, buf, m
<1>2. /\ DecodeEntry(s, p, Len(buf)) =
           [p |-> Header3(p, m, e), shared |-> m,
            non_shared |-> Len(e[1]) - m, value_length |-> Len(e[2])]
      /\ q <= Len(buf) /\ p + 3 <= q
  BY <1>1, DecodeEntryAt
<1>3. Header3(p, m, e) # NULL
  <2>1. m \in 0..Len(e[1])
    BY <1>1 DEF EntryAt
  <2>2. Header3(p, m, e) \in Nat
    BY <1>1, <2>1, HeaderNumbers
  <2> QED
    BY <2>2 DEF NULL
<1>4. DecodeEntry(s, p, Len(buf)).shared = m /\ DecodeEntry(s, p, Len(buf)).p # NULL
  BY <1>2, <1>3
<1> QED
  BY <1>2, <1>4 DEF p, q, buf, m

\* An entry has at least three bytes and lies within the buffer.
LEMMA LaidSteps ==
  ASSUME NEW b, NEW es, BlockInv(b, es), NEW off, NEW sh, Laid(b, es, off, sh),
         NEW n \in 1..Len(es)
  PROVE  /\ off[n - 1] \in Nat /\ off[n] \in Nat
         /\ off[n - 1] + 3 <= off[n] /\ off[n] <= Len(b.buffer)
<1>1. Begins(b.buffer, b.buffer)
  BY DEF Begins
<1>2. off[n - 1] + 3 <= off[n] /\ off[n] <= Len(b.buffer)
  BY <1>1, LaidDecode
<1>3. off[n - 1] \in Nat /\ off[n] \in Nat
  BY LaidEntry
<1> QED
  BY <1>2, <1>3

\* A buffer has at least three bytes for each entry.
LEMMA LaidSize ==
  ASSUME NEW b, NEW es, BlockInv(b, es), NEW off, NEW sh, Laid(b, es, off, sh)
  PROVE  3 * Len(es) <= Len(b.buffer)
<1> DEFINE L == Len(es)
           Bad == {n \in 0..L : ~(3 * n <= off[n])}
<1>1. L \in Nat
  BY LenProperties DEF BlockInv
<1>2. ASSUME NEW n \in Bad, \A y \in Bad : n <= y
      PROVE  FALSE
  <2>1. off[0] = 0 /\ n \in 0..L /\ ~(3 * n <= off[n])
    BY DEF Laid
  <2>2. n # 0
    BY <2>1
  <2>3. n - 1 \in 0..L /\ n \in 1..L /\ ~(n <= n - 1)
    BY <1>1, <2>1, <2>2
  <2>4. 3 * (n - 1) <= off[n - 1]
    BY <1>2, <2>3
  <2>5. off[n - 1] \in Nat /\ off[n] \in Nat /\ off[n - 1] + 3 <= off[n]
    BY <2>3, LaidSteps
  <2> QED
    BY <2>1, <2>4, <2>5
<1>3. Bad \subseteq Nat
  OBVIOUS
<1>4. Bad = {}
  <2> HIDE DEF Bad
  <2> QED
    BY <1>2, <1>3, Least
<1>5. L \in 0..L
  BY <1>1
<1> QED
  BY <1>4, <1>5 DEF Laid

\* One entry more of a list.
LEMMA OneMore ==
  ASSUME NEW S, NEW es \in Seq(S), NEW n \in 1..Len(es)
  PROVE  Append(SubSeq(es, 1, n - 1), es[n]) = SubSeq(es, 1, n)
<1> DEFINE a == SubSeq(es, 1, n - 1)
           c == SubSeq(es, 1, n)
<1>1. Len(es) \in Nat /\ n \in Int /\ n - 1 \in Int /\ \A i \in 1..n : i \in 1..Len(es)
  BY LenProperties
<1>2. \A i \in 1..n : es[i] \in S
  BY <1>1, ElementOfSeq
<1>3. /\ a \in Seq(S) /\ Len(a) = n - 1 /\ \A i \in 1..(n - 1) : a[i] = es[i]
  <2>1. \A i \in 1..(n - 1) : es[i] \in S
    BY <1>1, <1>2
  <2>2. /\ a \in Seq(S) /\ Len(a) = IF 1 <= n - 1 THEN (n - 1) - 1 + 1 ELSE 0
        /\ \A i \in 1..((n - 1) - 1 + 1) : a[i] = es[1 + i - 1]
    BY <1>1, <2>1, SubSeqProperties
  <2> HIDE DEF a
  <2> QED
    BY <1>1, <2>2
<1>4. /\ c \in Seq(S) /\ Len(c) = n /\ \A i \in 1..n : c[i] = es[i]
  <2>2. /\ c \in Seq(S) /\ Len(c) = IF 1 <= n THEN n - 1 + 1 ELSE 0
        /\ \A i \in 1..(n - 1 + 1) : c[i] = es[1 + i - 1]
    BY <1>1, <1>2, SubSeqProperties
  <2> HIDE DEF c
  <2> QED
    BY <1>1, <2>2
<1> HIDE DEF a, c
<1>5. es[n] \in S /\ n \in 1..n
  BY <1>2
<1>6. /\ Append(a, es[n]) \in Seq(S) /\ Len(Append(a, es[n])) = n
      /\ \A i \in 1..n : Append(a, es[n])[i] = IF i = n THEN es[n] ELSE a[i]
  BY <1>3, <1>5
<1>7. ASSUME NEW i \in 1..n
      PROVE  Append(a, es[n])[i] = c[i]
  <2>1. i # n => i \in 1..(n - 1)
    BY <1>1
  <2> QED
    BY <1>3, <1>4, <1>6, <2>1
<1>8. Append(a, es[n]) = c
  BY <1>4, <1>6, <1>7, SeqEqual
<1> QED
  BY <1>8 DEF a, c

\* A walk over the block finds the entries.
LEMMA WalkFindsAll ==
  ASSUME NEW b, NEW es, BlockInv(b, es), NEW s, Begins(s, b.buffer),
         RestartArray(s) = Len(b.buffer)
  PROVE  Entries(s) = es
<1> DEFINE L == Len(es)
           limit == Len(b.buffer)
           K == limit \div 3
           Step(it) == ParseNextKey(s, limit, it)
           Is(f) == f = [n \in 0..K |-> IF n = 0 THEN BeforeFirst ELSE Step(f[n - 1])]
<1>1. PICK off, sh : Laid(b, es, off, sh)
  BY DEF BlockInv
<1>2. es \in Seq(Entry) /\ L \in Nat /\ limit \in Nat
  BY LenProperties DEF BlockInv, BlockType
<1>3. K \in Nat /\ L <= K
  <2>1. 3 * L <= limit
    BY <1>1, LaidSize
  <2> HIDE DEF L, limit
  <2> QED
    BY <1>2, <2>1
<1> DEFINE State(n) == IterAt(off[n], KeyBefore(es, n + 1), SubSeq(es, 1, n))
<1>4. State(0) = BeforeFirst
  <2>1. off[0] = 0 /\ KeyBefore(es, 0 + 1) = <<>> /\ SubSeq(es, 1, 0) = <<>>
    BY <1>1, SubSeqEmpty DEF Laid, KeyBefore
  <2> QED
    BY <2>1 DEF IterAt, BeforeFirst
<1>5. ASSUME NEW n \in 1..L
      PROVE  Step(State(n - 1)) = State(n)
  <2> DEFINE found == SubSeq(es, 1, n - 1)
  <2>1. (n - 1) + 1 = n /\ n + 1 # 1 /\ (n + 1) - 1 = n
    BY <1>2
  <2>2. KeyBefore(es, n + 1) = es[n][1]
    BY <2>1 DEF KeyBefore
  <2>3. Append(found, es[n]) = SubSeq(es, 1, n)
    BY <1>2, OneMore
  <2>4. State(n - 1) = IterAt(off[n - 1], KeyBefore(es, n), found)
    BY <2>1
  <2> HIDE DEF found
  <2>5. Step(IterAt(off[n - 1], KeyBefore(es, n), found)) =
          IterAt(off[n], es[n][1], Append(found, es[n]))
    <3> DEFINE p == off[n - 1]
               q == off[n]
               prev == KeyBefore(es, n)
               e == es[n]
               buf == b.buffer
               m == sh[n]
    <3>1. /\ buf \in Seq(Nat) /\ p \in Nat /\ q \in Nat /\ e \in Entry
          /\ prev \in Seq(Nat) /\ Len(e[1]) < Max32 /\ Len(e[2]) < Max32
          /\ EntryAt(buf, p, q, m, prev, e) /\ Begins(s, buf)
      BY <1>1, LaidEntry
    <3> HIDE DEF p, q, prev, e, buf, m
    <3>2. ParseNextKey(s, Len(buf), IterAt(p, prev, found)) =
            IterAt(q, e[1], Append(found, e))
      BY <3>1, ParseEntryAt
    <3> QED
      BY <3>2 DEF p, q, prev, e, buf
  <2> QED
    BY <2>2, <2>3, <2>4, <2>5
<1>6. Step(State(L)) = State(L)
  <2>1. off[L] = limit /\ limit >= limit
    BY <1>1, <1>2 DEF Laid
  <2>2. State(L).next = limit
    BY <2>1 DEF IterAt
  <2> HIDE DEF State
  <2> QED
    BY <2>1, <2>2 DEF ParseNextKey
<1> HIDE DEF State, Step, K, L
<1> DEFINE g == [n \in 0..K |-> State(IF n <= L THEN n ELSE L)]
<1>7. Is(g)
  <2>1. ASSUME NEW n \in 0..K
        PROVE  g[n] = IF n = 0 THEN BeforeFirst ELSE Step(g[n - 1])
    <3>1. CASE n = 0
      <4>1. 0 <= L
        BY <1>2
      <4> QED
        BY <1>4, <3>1, <4>1
    <3>2. CASE n # 0 /\ n <= L
      <4>1. n \in 1..L /\ n - 1 \in 0..K /\ n - 1 <= L
        BY <1>2, <1>3, <3>2
      <4>2. g[n] = State(n) /\ g[n - 1] = State(n - 1)
        BY <3>2, <4>1
      <4> QED
        BY <1>5, <3>2, <4>1, <4>2
    <3>3. CASE n # 0 /\ ~(n <= L)
      <4>1. n - 1 \in 0..K /\ (n - 1 <= L => n - 1 = L)
        BY <1>2, <1>3, <3>3
      <4>2. g[n] = State(L) /\ g[n - 1] = State(L)
        BY <3>3, <4>1
      <4> QED
        BY <1>6, <3>3, <4>2
    <3> QED
      BY <3>1, <3>2, <3>3
  <2>2. g = [n \in 0..K |-> g[n]]
    OBVIOUS
  <2> HIDE DEF g
  <2> QED
    BY <2>1, <2>2
<1>8. g[K] = State(L)
  <2>1. K \in 0..K /\ (K <= L => K = L)
    BY <1>2, <1>3
  <2> QED
    BY <2>1
<1> HIDE DEF g
<1>9. ASSUME NEW f, Is(f)
      PROVE  f[K] = g[K]
  <2> DEFINE Differ == {n \in 0..K : f[n] # g[n]}
  <2>1. ASSUME NEW n \in Differ, \A y \in Differ : n <= y
        PROVE  FALSE
    <3>1. /\ f[n] = IF n = 0 THEN BeforeFirst ELSE Step(f[n - 1])
          /\ g[n] = IF n = 0 THEN BeforeFirst ELSE Step(g[n - 1])
      BY <1>7, <1>9
    <3>2. n # 0 => n - 1 \in 0..K /\ ~(n <= n - 1)
      BY <1>3
    <3>3. n # 0 => f[n - 1] = g[n - 1]
      BY <2>1, <3>2
    <3> QED
      BY <3>1, <3>3
  <2>2. Differ \subseteq Nat
    OBVIOUS
  <2>3. Differ = {}
    <3> HIDE DEF Differ
    <3> QED
      BY <2>1, <2>2, Least
  <2>4. K \in 0..K
    BY <1>3
  <2> QED
    BY <2>3, <2>4
<1> DEFINE walk == CHOOSE f : Is(f)
<1>10. walk[K] = State(L)
  <2>1. Is(walk)
    BY <1>7
  <2> HIDE DEF walk, Is
  <2> QED
    BY <1>8, <1>9, <2>1
<1>11. State(L).found = es
  <2>1. SubSeq(es, 1, Len(es)) = es
    BY <1>2, SubSeqFull
  <2> QED
    BY <2>1 DEF State, L, IterAt
<1>12. Entries(s) = walk[K].found
  BY DEF Entries, K, Step
<1> HIDE DEF walk
<1> QED
  BY <1>10, <1>11, <1>12

\* What BlockBuilder::Finish() returns has the entries, and the restart points.
LEMMA BlockReadBack ==
  ASSUME NEW b, NEW es, BlockInv(b, es), Len(b.buffer) < Max32, Len(b.restarts) < Max32
  PROVE  /\ Entries(BlockFinish(b)) = es
         /\ \A i \in 0 .. NumRestarts(BlockFinish(b)) - 1 :
              es # <<>> => WholeKeyAt(BlockFinish(b), GetRestartPoint(BlockFinish(b), i))
<1> DEFINE s == BlockFinish(b)
           buf == b.buffer
<1>1. BlockType(b)
  BY DEF BlockInv
<1>2. Begins(s, buf)
  BY <1>1, FinishParts DEF Begins
<1>3. /\ NumRestarts(s) = Len(b.restarts) /\ RestartArray(s) = Len(buf)
      /\ \A i \in 0..(Len(b.restarts) - 1) : GetRestartPoint(s, i) = b.restarts[i + 1]
  BY <1>1, FinishRestarts
<1> HIDE DEF s
<1>4. Entries(s) = es
  BY <1>2, <1>3, WalkFindsAll
<1>5. PICK off, sh : Laid(b, es, off, sh)
  BY DEF BlockInv
<1>6. ASSUME NEW i \in 0..(Len(b.restarts) - 1), es # <<>>
      PROVE  WholeKeyAt(s, GetRestartPoint(s, i))
  <2>1. i + 1 \in 1..Len(b.restarts)
    BY <1>1 DEF BlockType
  <2>2. PICK n \in 1..Len(es) : b.restarts[i + 1] = off[n - 1] /\ sh[n] = 0
    BY <1>5, <1>6, <2>1 DEF Laid
  <2>3. /\ DecodeEntry(s, off[n - 1], Len(buf)).shared = 0
        /\ DecodeEntry(s, off[n - 1], Len(buf)).p # NULL
    BY <1>2, <1>5, <2>2, LaidDecode
  <2> QED
    BY <1>3, <2>2, <2>3 DEF WholeKeyAt
<1> QED
  BY <1>3, <1>4, <1>6 DEF s

\* The loop of BlockBuilder::Add() counts bytes that the keys share.
LEMMA SharedIs ==
  ASSUME NEW a \in Seq(Nat), NEW c \in Seq(Nat)
  PROVE  /\ SharedLength(a, c) \in Nat
         /\ SharedLength(a, c) <= Len(a) /\ SharedLength(a, c) <= Len(c)
         /\ \A i \in 1..SharedLength(a, c) : a[i] = c[i]
<1> DEFINE B == Shorter(a, c)
           S == {n \in 0..B : SubSeq(a, 1, n) = SubSeq(c, 1, n)}
           m == SharedLength(a, c)
<1>1. Len(a) \in Nat /\ Len(c) \in Nat
  BY LenProperties
<1>2. B \in Nat /\ B <= Len(a) /\ B <= Len(c)
  BY <1>1 DEF Shorter
<1> HIDE DEF B
<1>3. 0 \in S
  <2>1. SubSeq(a, 1, 0) = <<>> /\ SubSeq(c, 1, 0) = <<>>
    BY SubSeqEmpty
  <2> QED
    BY <1>2, <2>1
<1>4. S \subseteq Nat /\ \A y \in S : y <= B
  BY <1>2
<1>5. m = Max(S)
  BY DEF SharedLength, B
<1>6. m \in S
  <2> HIDE DEF S, m
  <2> QED
    BY <1>2, <1>3, <1>4, <1>5, MaxNat
<1>7. m \in 0..B /\ SubSeq(a, 1, m) = SubSeq(c, 1, m)
  BY <1>6
<1> HIDE DEF m, S
<1>8. m \in Nat /\ m <= Len(a) /\ m <= Len(c)
  BY <1>1, <1>2, <1>7
<1>9. ASSUME NEW x \in Seq(Nat), m <= Len(x), NEW i \in 1..m
      PROVE  SubSeq(x, 1, m)[i] = x[i]
  <2>1. \A j \in 1..m : x[j] \in Nat
    <3>1. \A j \in 1..m : j \in 1..Len(x)
      BY <1>8, <1>9, LenProperties
    <3> QED
      BY <3>1, ElementOfSeq
  <2>2. \A j \in 1..(m - 1 + 1) : SubSeq(x, 1, m)[j] = x[1 + j - 1]
    BY <1>8, <2>1, SubSeqProperties
  <2>3. i \in 1..(m - 1 + 1) /\ 1 + i - 1 = i
    BY <1>8
  <2> QED
    BY <2>2, <2>3
<1>10. ASSUME NEW i \in 1..m
       PROVE  a[i] = c[i]
  BY <1>7, <1>8, <1>9
<1> QED
  BY <1>8, <1>10 DEF m

\* An entry stays where it is when the buffer grows.
LEMMA EntryKept ==
  ASSUME NEW buf, NEW c, Grown(c, buf), NEW p \in Nat, NEW q, NEW shared, NEW prev,
         NEW e \in Entry, EntryAt(buf, p, q, shared, prev, e)
  PROVE  EntryAt(c, p, q, shared, prev, e)
<1>1. shared \in 0..Len(e[1])
  BY DEF EntryAt
<1> DEFINE h1 == Header1(p, shared)
           h2 == Header2(p, shared, e)
           h3 == Header3(p, shared, e)
           n == Len(e[1]) - shared
           rest == SubSeq(e[1], shared + 1, Len(e[1]))
<1>2. /\ h1 \in Nat /\ h2 \in Nat /\ h3 \in Nat /\ n \in Nat /\ shared \in Nat
      /\ e[1] \in Seq(Nat) /\ Len(e[2]) \in Nat
  BY <1>1, HeaderNumbers
<1>3. Len(rest) = n
  BY <1>1, <1>2, RestOfKey
<1>4. /\ Len(PutVarint[shared]) \in Nat /\ Len(PutVarint[n]) \in Nat
      /\ Len(PutVarint[Len(e[2])]) \in Nat
  BY <1>2, VarintType
<1>5. /\ Piece(buf, p, PutVarint[shared]) /\ Piece(buf, h1, PutVarint[n])
      /\ Piece(buf, h2, PutVarint[Len(e[2])]) /\ Piece(buf, h3, rest)
      /\ Piece(buf, h3 + n, e[2])
  BY DEF EntryAt
<1>6. /\ Piece(c, p, PutVarint[shared]) /\ Piece(c, h1, PutVarint[n])
      /\ Piece(c, h2, PutVarint[Len(e[2])])
  <2> HIDE DEF h1, h2, h3, n, rest
  <2> QED
    BY <1>2, <1>4, <1>5, PieceKept
<1>7. Piece(c, h3, rest) /\ Piece(c, h3 + n, e[2])
  <2> DEFINE a == h3 + n
  <2>1. a \in Nat /\ Len(rest) \in Nat /\ Piece(buf, a, e[2])
    BY <1>2, <1>3, <1>5
  <2> HIDE DEF h1, h2, h3, n, rest, a
  <2>2. Piece(c, h3, rest)
    BY <1>2, <1>5, <2>1, PieceKept
  <2>3. Piece(c, a, e[2])
    BY <1>2, <2>1, PieceKept
  <2> QED
    BY <2>2, <2>3 DEF a
<1> QED
  BY <1>6, <1>7 DEF EntryAt

\* The bytes that BlockBuilder::Add() appends are an entry.
LEMMA EntryAppended ==
  ASSUME NEW B \in Seq(Nat), NEW key \in Seq(Nat), NEW value \in Seq(Nat),
         Len(key) < Max32, Len(value) < Max32,
         NEW prev \in Seq(Nat), NEW shared \in 0..Len(key), shared <= Len(prev),
         \A i \in 1..shared : prev[i] = key[i],
         NEW delta, delta = SubSeq(key, shared + 1, Len(key)),
         NEW c, c = B \o PutVarint[shared] \o PutVarint[Len(delta)]
                      \o PutVarint[Len(value)] \o delta \o value
  PROVE  /\ c \in Seq(Nat) /\ Grown(c, B) /\ Len(B) < Len(c)
         /\ Len(c) <= Len(B) + Len(key) + Len(value) + 15
         /\ EntryAt(c, Len(B), Len(c), shared, prev, <<key, value>>)
<1>1. /\ delta \in Seq(Nat) /\ Len(delta) = Len(key) - shared
  BY RestOfKey
<1>2. /\ Len(B) \in Nat /\ Len(key) \in Nat /\ Len(value) \in Nat /\ shared \in Nat
      /\ Len(delta) \in Nat
  BY <1>1, LenProperties
<1> DEFINE v1 == PutVarint[shared]
           v2 == PutVarint[Len(delta)]
           v3 == PutVarint[Len(value)]
           B1 == B \o v1
           B2 == B1 \o v2
           B3 == B2 \o v3
           B4 == B3 \o delta
           B5 == B4 \o value
<1>3. /\ v1 \in Seq(Nat) /\ Len(v1) \in 1..5 /\ v2 \in Seq(Nat) /\ Len(v2) \in 1..5
      /\ v3 \in Seq(Nat) /\ Len(v3) \in 1..5
  <2>1. ASSUME NEW v \in Nat, v < Max32
        PROVE  PutVarint[v] \in Seq(Nat) /\ Len(PutVarint[v]) \in 1..5
    <3>1. v < Max35
      BY <2>1 DEF Max32, Max35
    <3> QED
      BY <3>1, CodedFive DEF Coded
  <2>2. shared < Max32 /\ Len(delta) < Max32 /\ Max32 \in Nat
    <3>1. Max32 \in Nat
      BY DEF Max32
    <3> QED
      BY <1>1, <1>2, <3>1
  <2> QED
    BY <1>2, <2>1, <2>2
<1>4. c = B5
  OBVIOUS
<1> HIDE DEF v1, v2, v3, B1, B2, B3, B4, B5
<1>5. /\ B1 \in Seq(Nat) /\ Grown(B1, B) /\ Len(B1) = Len(B) + Len(v1)
      /\ Piece(B1, Len(B), v1)
  BY <1>3, GrownByConcat, PieceAdded DEF B1
<1>6. /\ B2 \in Seq(Nat) /\ Grown(B2, B1) /\ Len(B2) = Len(B1) + Len(v2)
      /\ Piece(B2, Len(B1), v2)
  BY <1>3, <1>5, GrownByConcat, PieceAdded DEF B2
<1>7. /\ B3 \in Seq(Nat) /\ Grown(B3, B2) /\ Len(B3) = Len(B2) + Len(v3)
      /\ Piece(B3, Len(B2), v3)
  BY <1>3, <1>6, GrownByConcat, PieceAdded DEF B3
<1>8. /\ B4 \in Seq(Nat) /\ Grown(B4, B3) /\ Len(B4) = Len(B3) + Len(delta)
      /\ Piece(B4, Len(B3), delta)
  BY <1>1, <1>7, GrownByConcat, PieceAdded DEF B4
<1>9. /\ B5 \in Seq(Nat) /\ Grown(B5, B4) /\ Len(B5) = Len(B4) + Len(value)
      /\ Piece(B5, Len(B4), value)
  BY <1>8, GrownByConcat, PieceAdded DEF B5
<1>10. Grown(B5, B3) /\ Grown(B5, B2) /\ Grown(B5, B1) /\ Grown(B5, B)
  <2>1. Grown(B5, B3)
    BY <1>8, <1>9, GrownTwice
  <2>2. Grown(B5, B2)
    BY <1>7, <2>1, GrownTwice
  <2>3. Grown(B5, B1)
    BY <1>6, <2>2, GrownTwice
  <2>4. Grown(B5, B)
    BY <1>5, <2>3, GrownTwice
  <2> QED
    BY <2>1, <2>2, <2>3, <2>4
<1>11. Len(B1) \in Nat /\ Len(B2) \in Nat /\ Len(B3) \in Nat /\ Len(B4) \in Nat
  BY <1>5, <1>6, <1>7, <1>8, LenProperties
<1>12. /\ Piece(B5, Len(B), v1) /\ Piece(B5, Len(B1), v2) /\ Piece(B5, Len(B2), v3)
       /\ Piece(B5, Len(B3), delta)
  <2>1. Len(v1) \in Nat /\ Len(v2) \in Nat /\ Len(v3) \in Nat
    BY <1>3
  <2>2. Piece(B5, Len(B), v1)
    BY <1>2, <1>5, <1>10, <2>1, PieceKept
  <2>3. Piece(B5, Len(B1), v2)
    BY <1>6, <1>10, <1>11, <2>1, PieceKept
  <2>4. Piece(B5, Len(B2), v3)
    BY <1>7, <1>10, <1>11, <2>1, PieceKept
  <2>5. Piece(B5, Len(B3), delta)
    BY <1>2, <1>8, <1>9, <1>11, PieceKept
  <2> QED
    BY <2>2, <2>3, <2>4, <2>5
<1> DEFINE e == <<key, value>>
<1>13. e[1] = key /\ e[2] = value
  OBVIOUS
<1> HIDE DEF e
<1>14. /\ Header1(Len(B), shared) = Len(B1) /\ Header2(Len(B), shared, e) = Len(B2)
       /\ Header3(Len(B), shared, e) = Len(B3)
  <2>1. Header1(Len(B), shared) = Len(B1)
    BY <1>5 DEF Header1, v1
  <2>2. Header2(Len(B), shared, e) = Len(B2)
    BY <1>1, <1>6, <1>13, <2>1 DEF Header2, v2
  <2>3. Header3(Len(B), shared, e) = Len(B3)
    BY <1>7, <1>13, <2>2 DEF Header3, v3
  <2> QED
    BY <2>1, <2>2, <2>3
<1>15. Len(B4) = Len(B3) + (Len(key) - shared)
  BY <1>1, <1>8
<1>16. EntryAt(B5, Len(B), Len(B5), shared, prev, e)
  BY <1>1, <1>9, <1>12, <1>13, <1>14, <1>15 DEF EntryAt, v1, v2, v3
<1>17. Len(B) < Len(B5) /\ Len(B5) <= Len(B) + Len(key) + Len(value) + 15
  <2> DEFINE l == Len(B)
             l1 == Len(v1)
             l2 == Len(v2)
             l3 == Len(v3)
             k == Len(key)
             w == Len(value)
             l5 == Len(B5)
  <2>1. /\ l \in Nat /\ l1 \in 1..5 /\ l2 \in 1..5 /\ l3 \in 1..5 /\ k \in Nat /\ w \in Nat
        /\ shared \in 0..k
    BY <1>2, <1>3
  <2>2. l5 = l + l1 + l2 + l3 + (k - shared) + w
    BY <1>1, <1>5, <1>6, <1>7, <1>8, <1>9
  <2> HIDE DEF l, l1, l2, l3, k, w, l5
  <2>3. l < l5 /\ l5 <= l + k + w + 15
    BY <2>1, <2>2
  <2> QED
    BY <2>3 DEF l, k, w, l5
<1> QED
  BY <1>4, <1>9, <1>10, <1>16, <1>17 DEF e

\* The parts of a block after BlockBuilder::Add(), which stores an entry.
LEMMA BlockAddParts ==
  ASSUME NEW b, BlockType(b), NEW key \in Seq(Nat), NEW value \in Seq(Nat),
         Len(key) < Max32, Len(value) < Max32, NEW interval \in Nat,
         NEW c, c = BlockAdd(b, key, value, interval),
         NEW shared, shared = SharedWithLast(b, key, interval)
  PROVE  /\ BlockType(c) /\ c.last_key = key
         /\ Grown(c.buffer, b.buffer) /\ Len(b.buffer) < Len(c.buffer)
         /\ Len(c.buffer) <= Len(b.buffer) + Len(key) + Len(value) + 15
         /\ c.restarts = IF b.counter >= interval THEN Append(b.restarts, Len(b.buffer))
                         ELSE b.restarts
         /\ shared \in Nat /\ shared <= Len(b.last_key) /\ (b.counter >= interval => shared = 0)
         /\ EntryAt(c.buffer, Len(b.buffer), Len(c.buffer), shared, b.last_key,
                    <<key, value>>)
<1>1. /\ b.buffer \in Seq(Nat) /\ b.restarts \in Seq(Nat) /\ b.restarts # <<>>
      /\ b.counter \in Nat /\ b.last_key \in Seq(Nat)
      /\ \A r \in 1..Len(b.restarts) : b.restarts[r] <= Len(b.buffer)
  BY DEF BlockType
<1>2. /\ shared \in Nat /\ shared <= Len(b.last_key) /\ shared <= Len(key)
      /\ \A i \in 1..shared : b.last_key[i] = key[i]
      /\ b.counter >= interval => shared = 0
  <2>1. CASE b.counter < interval
    <3>1. shared = SharedLength(b.last_key, key)
      BY <2>1, Zenon DEF SharedWithLast
    <3>2. ~(b.counter >= interval)
      BY <1>1, <2>1
    <3> DEFINE last == b.last_key
    <3>3. last \in Seq(Nat) /\ shared = SharedLength(last, key)
      BY <1>1, <3>1
    <3> HIDE DEF last
    <3>4. /\ shared \in Nat /\ shared <= Len(last) /\ shared <= Len(key)
          /\ \A i \in 1..shared : last[i] = key[i]
      BY <3>3, SharedIs
    <3> QED
      BY <3>2, <3>4 DEF last
  <2>2. CASE ~(b.counter < interval)
    <3>1. shared = 0
      BY <2>2 DEF SharedWithLast
    <3> QED
      BY <1>1, <3>1, LenProperties
  <2> QED
    BY <2>1, <2>2
<1>3. shared \in 0..Len(key) /\ Len(b.buffer) \in Nat /\ Len(key) \in Nat /\ Len(value) \in Nat
  BY <1>1, <1>2, LenProperties
<1> DEFINE delta == SubSeq(key, shared + 1, Len(key))
           buf == b.buffer \o PutVarint[shared] \o PutVarint[Len(delta)]
                      \o PutVarint[Len(value)] \o delta \o value
           restart == b.counter >= interval
           rs == IF restart THEN Append(b.restarts, Len(b.buffer)) ELSE b.restarts
           ct == IF restart THEN 1 ELSE b.counter + 1
           lk == SubSeq(b.last_key, 1, shared) \o delta
<1>4. c = [buffer |-> buf, restarts |-> rs, counter |-> ct, last_key |-> lk]
  BY DEF BlockAdd
<1>5. delta \in Seq(Nat) /\ Len(delta) = Len(key) - shared
      /\ \A i \in 1..(Len(key) - shared) : delta[i] = key[shared + i]
  BY <1>3, RestOfKey
<1>6. /\ buf \in Seq(Nat) /\ Grown(buf, b.buffer) /\ Len(b.buffer) < Len(buf)
      /\ Len(buf) <= Len(b.buffer) + Len(key) + Len(value) + 15
      /\ EntryAt(buf, Len(b.buffer), Len(buf), shared, b.last_key, <<key, value>>)
  <2>1. delta = SubSeq(key, shared + 1, Len(key))
    OBVIOUS
  <2>2. buf = b.buffer \o PutVarint[shared] \o PutVarint[Len(delta)]
                      \o PutVarint[Len(value)] \o delta \o value
    OBVIOUS
  <2> HIDE DEF buf, delta
  <2> QED
    BY <1>1, <1>2, <1>3, <2>1, <2>2, EntryAppended
<1>7. lk = key
  <2> HIDE DEF delta
  <2> QED
    BY <1>1, <1>2, <1>3, <1>5, KeyRestored
<1>8. ct \in Nat
  BY <1>1
<1>9. /\ rs \in Seq(Nat) /\ rs # <<>>
      /\ \A r \in 1..Len(rs) : rs[r] <= Len(buf)
  <2> DEFINE l == Len(b.buffer)
             m == Len(buf)
  <2>1. l \in Nat /\ m \in Nat /\ l <= m
    BY <1>3, <1>6 DEF Grown
  <2>2. \A r \in 1..Len(b.restarts) : b.restarts[r] <= l /\ b.restarts[r] \in Nat
    BY <1>1, ElementOfSeq
  <2> HIDE DEF l, buf, m
  <2>3. CASE restart
    <3>1. rs = Append(b.restarts, l)
      BY <2>3 DEF l
    <3>2. /\ Append(b.restarts, l) \in Seq(Nat) /\ Append(b.restarts, l) # <<>>
          /\ Len(Append(b.restarts, l)) = Len(b.restarts) + 1
          /\ \A r \in 1..(Len(b.restarts) + 1) :
               Append(b.restarts, l)[r] = IF r = Len(b.restarts) + 1 THEN l ELSE b.restarts[r]
      <4> DEFINE q == b.restarts
      <4>1. q \in Seq(Nat)
        BY <1>1
      <4> HIDE DEF q
      <4>2. Append(q, l) \in Seq(Nat) /\ Len(Append(q, l)) = Len(q) + 1 /\ Len(q) \in Nat
        BY <2>1, <4>1
      <4>3. ASSUME NEW r \in 1..(Len(q) + 1)
            PROVE  Append(q, l)[r] = IF r = Len(q) + 1 THEN l ELSE q[r]
        BY <2>1, <4>1
      <4>4. Append(q, l) # <<>>
        <5>1. Len(<<>>) = 0 /\ Len(q) + 1 # 0
          BY <4>2
        <5> QED
          BY <4>2, <5>1
      <4> QED
        BY <4>2, <4>3, <4>4 DEF q
    <3>3. ASSUME NEW r \in 1..(Len(b.restarts) + 1)
          PROVE  Append(b.restarts, l)[r] <= m
      <4>1. r # Len(b.restarts) + 1 => r \in 1..Len(b.restarts)
        BY <1>1, LenProperties
      <4> QED
        BY <2>1, <2>2, <3>2, <4>1
    <3> HIDE DEF rs, restart
    <3> QED
      BY <3>1, <3>2, <3>3 DEF m
  <2>4. CASE ~restart
    <3>1. rs = b.restarts
      BY <2>4
    <3> HIDE DEF rs, restart
    <3> QED
      BY <1>1, <2>1, <2>2, <3>1 DEF m
  <2> QED
    BY <2>3, <2>4
<1> HIDE DEF buf, rs, ct, lk, restart, delta
<1>10. c.buffer = buf /\ c.restarts = rs /\ c.counter = ct /\ c.last_key = lk
  BY <1>4
<1>11. BlockType(c)
  BY <1>4, <1>6, <1>7, <1>8, <1>9, <1>10 DEF BlockType
<1> QED
  BY <1>2, <1>6, <1>7, <1>10, <1>11 DEF rs, restart

\* BlockBuilder::Add() appends an entry to those of the block.
LEMMA BlockAdded ==
  ASSUME NEW b, NEW es, BlockInv(b, es), NEW key \in Seq(Nat), NEW value \in Seq(Nat),
         Len(key) < Max32, Len(value) < Max32, NEW interval \in Nat \ {0}
  PROVE  BlockInv(BlockAdd(b, key, value, interval), Append(es, <<key, value>>))
<1> DEFINE c == BlockAdd(b, key, value, interval)
           shared == SharedWithLast(b, key, interval)
           e == <<key, value>>
           new == Append(es, e)
           L == Len(es)
           B == b.buffer
           C == c.buffer
<1>1. BlockType(b) /\ es \in Seq(Entry) /\ L \in Nat /\ interval \in Nat
  BY LenProperties DEF BlockInv
<1>2. e \in Entry /\ e[1] = key /\ e[2] = value
  BY DEF Entry
<1>3. /\ BlockType(c) /\ c.last_key = key /\ Grown(C, B) /\ Len(B) < Len(C)
      /\ c.restarts = IF b.counter >= interval THEN Append(b.restarts, Len(B))
                      ELSE b.restarts
      /\ shared \in Nat /\ shared <= Len(b.last_key)
      /\ (b.counter >= interval => shared = 0)
      /\ EntryAt(C, Len(B), Len(C), shared, b.last_key, e)
  BY <1>1, BlockAddParts
<1> HIDE DEF c, shared, e
<1>4. /\ new \in Seq(Entry) /\ Len(new) = L + 1
      /\ \A n \in 1..(L + 1) : new[n] = IF n = L + 1 THEN e ELSE es[n]
  <2> HIDE DEF L
  <2>1. es \in Seq(Entry) /\ Len(es) = L /\ e \in Entry
    BY <1>1, <1>2 DEF L
  <2> HIDE DEF Entry
  <2> QED
    BY <2>1
<1> HIDE DEF new
<1>5. ASSUME NEW n \in 1..L
      PROVE  new[n] = es[n]
  <2> HIDE DEF L
  <2>1. n \in 1..(L + 1) /\ n # L + 1
    BY <1>1
  <2> QED
    BY <1>4, <2>1
<1>6. ASSUME NEW n \in 1..(L + 1)
      PROVE  Len(new[n][1]) < Max32 /\ Len(new[n][2]) < Max32
  <2>1. CASE n = L + 1
    BY <1>2, <1>4, <2>1
  <2>2. CASE n # L + 1
    <3>1. n \in 1..L
      BY <1>1, <2>2
    <3>2. new[n] = es[n]
      BY <1>5, <3>1
    <3>3. Len(es[n][1]) < Max32 /\ Len(es[n][2]) < Max32
      BY <3>1 DEF BlockInv
    <3> QED
      BY <3>2, <3>3
  <2> QED
    BY <2>1, <2>2
<1>7. new[L + 1] = e /\ c.last_key = KeyBefore(new, (L + 1) + 1)
  <2>1. L + 1 \in 1..(L + 1) /\ (L + 1) + 1 # 1 /\ ((L + 1) + 1) - 1 = L + 1
    BY <1>1
  <2> QED
    BY <1>2, <1>3, <1>4, <2>1 DEF KeyBefore
<1>8. new # <<>>
  <2>1. Len(<<>>) = 0 /\ L + 1 # 0
    BY <1>1
  <2> QED
    BY <1>4, <2>1
<1>9. ASSUME NEW n \in 1..(L + 1)
      PROVE  KeyBefore(new, n) = KeyBefore(es, n)
  <2>1. n # 1 => n - 1 \in 1..L
    BY <1>1
  <2>2. n # 1 => new[n - 1] = es[n - 1]
    BY <1>5, <2>1
  <2> QED
    BY <2>2 DEF KeyBefore
<1>10. PICK off, sh : Laid(b, es, off, sh)
  BY DEF BlockInv
<1> DEFINE off2 == [n \in 0..(L + 1) |-> IF n = L + 1 THEN Len(C) ELSE off[n]]
           sh2 == [n \in 1..(L + 1) |-> IF n = L + 1 THEN shared ELSE sh[n]]
<1>11. /\ off \in [0..L -> Nat] /\ off[0] = 0 /\ off[L] = Len(B)
       /\ \A n \in 1..L : EntryAt(B, off[n - 1], off[n], sh[n], KeyBefore(es, n), es[n])
  BY <1>10 DEF Laid
<1>12. Len(C) \in Nat /\ Len(B) \in Nat
  BY <1>3 DEF Grown
<1> HIDE DEF L, B, C
<1>13. /\ off2 \in [0..(L + 1) -> Nat] /\ off2[0] = 0 /\ off2[L] = Len(B)
       /\ off2[L + 1] = Len(C) /\ sh2[L + 1] = shared
       /\ \A n \in 0..L : off2[n] = off[n]
       /\ \A n \in 1..L : sh2[n] = sh[n]
  BY <1>1, <1>11, <1>12
<1> HIDE DEF off2, sh2
<1>14. ASSUME NEW n \in 1..(L + 1)
       PROVE  EntryAt(C, off2[n - 1], off2[n], sh2[n], KeyBefore(new, n), new[n])
  <2>1. CASE n = L + 1
    <3>1. /\ n - 1 = L /\ off2[n - 1] = Len(B) /\ off2[n] = Len(C) /\ sh2[n] = shared
          /\ new[n] = e
      BY <1>1, <1>7, <1>13, <2>1
    <3>2. KeyBefore(new, n) = b.last_key
      BY <1>9, <2>1 DEF BlockInv, L
    <3> QED
      BY <1>3, <3>1, <3>2
  <2>2. CASE n # L + 1
    <3>1. n \in 1..L /\ n - 1 \in 0..L /\ n \in 0..L
      BY <1>1, <2>2
    <3>2. /\ off2[n - 1] = off[n - 1] /\ off2[n] = off[n] /\ sh2[n] = sh[n]
          /\ new[n] = es[n] /\ KeyBefore(new, n) = KeyBefore(es, n)
      BY <1>5, <1>9, <1>13, <3>1
    <3>3. EntryAt(B, off[n - 1], off[n], sh[n], KeyBefore(es, n), es[n])
      BY <1>11, <3>1
    <3>4. off[n - 1] \in Nat /\ es[n] \in Entry
      BY <1>1, <1>11, <3>1, ElementOfSeq DEF L
    <3>5. EntryAt(C, off[n - 1], off[n], sh[n], KeyBefore(es, n), es[n])
      BY <1>3, <3>3, <3>4, EntryKept
    <3> QED
      BY <3>2, <3>5
  <2> QED
    BY <2>1, <2>2
<1>15. ASSUME NEW r \in 1..Len(c.restarts)
       PROVE  \E n \in 1..(L + 1) : c.restarts[r] = off2[n - 1] /\ sh2[n] = 0
  <2> DEFINE q == b.restarts
  <2>1. q \in Seq(Nat) /\ Len(q) \in Nat
    BY <1>1, LenProperties DEF BlockType
  <2>2. ASSUME NEW k \in 1..Len(q)
        PROVE  \E n \in 1..(L + 1) : q[k] = off2[n - 1] /\ sh2[n] = 0
    <3>1. CASE es # <<>>
      <4>1. PICK n \in 1..L : q[k] = off[n - 1] /\ sh[n] = 0
        BY <1>10, <3>1 DEF Laid, L
      <4>2. n \in 1..(L + 1) /\ n - 1 \in 0..L
        BY <1>1
      <4>3. q[k] = off2[n - 1] /\ sh2[n] = 0
        BY <1>13, <4>1, <4>2
      <4> QED
        BY <4>2, <4>3
    <3>2. CASE es = <<>>
      <4>1. L = 0 /\ q[k] = 0
        BY <3>2 DEF BlockInv, L
      <4>2. b.last_key = <<>>
        BY <3>2, <4>1 DEF BlockInv, KeyBefore, L
      <4>3. shared = 0
        <5>1. Len(b.last_key) = 0
          BY <4>2
        <5> QED
          BY <1>3, <5>1
      <4>4. 1 \in 1..(L + 1) /\ 1 - 1 = 0 /\ L + 1 = 1
        BY <4>1
      <4>5. q[k] = off2[1 - 1] /\ sh2[1] = 0
        BY <1>13, <4>1, <4>3, <4>4
      <4> QED
        BY <4>4, <4>5
    <3> QED
      BY <3>1, <3>2
  <2>3. CASE b.counter >= interval
    <3>1. c.restarts = Append(q, Len(B)) /\ shared = 0
      BY <1>3, <2>3
    <3> HIDE DEF q
    <3>2. Len(Append(q, Len(B))) = Len(q) + 1
      BY <1>12, <2>1
    <3>3. r \in 1..(Len(q) + 1)
      BY <3>1, <3>2
    <3>4. Append(q, Len(B))[r] = IF r = Len(q) + 1 THEN Len(B) ELSE q[r]
      BY <1>12, <2>1, <3>3
    <3>5. CASE r = Len(q) + 1
      <4>1. L + 1 \in 1..(L + 1) /\ (L + 1) - 1 = L
        BY <1>1
      <4>2. c.restarts[r] = off2[(L + 1) - 1] /\ sh2[L + 1] = 0
        BY <1>13, <3>1, <3>4, <3>5, <4>1
      <4> QED
        BY <4>1, <4>2
    <3>6. CASE r # Len(q) + 1
      <4>1. r \in 1..Len(q)
        BY <2>1, <3>3, <3>6
      <4>2. c.restarts[r] = q[r]
        BY <3>1, <3>4, <3>6
      <4> QED
        BY <2>2, <4>1, <4>2
    <3> QED
      BY <3>5, <3>6
  <2>4. CASE ~(b.counter >= interval)
    <3>1. c.restarts = q
      BY <1>3, <2>4
    <3> QED
      BY <2>2, <3>1
  <2> QED
    BY <2>3, <2>4
<1>16. Laid(c, new, off2, sh2)
  BY <1>4, <1>13, <1>14, <1>15 DEF Laid, C
<1>17. BlockInv(c, new)
  BY <1>3, <1>4, <1>6, <1>7, <1>8, <1>16 DEF BlockInv
<1> QED
  BY <1>17 DEF c, new, e

\* How much larger the block is.
LEMMA BlockAddSize ==
  ASSUME NEW b, BlockType(b), NEW key \in Seq(Nat), NEW value \in Seq(Nat),
         Len(key) < Max32, Len(value) < Max32, NEW interval \in Nat
  PROVE  /\ BlockType(BlockAdd(b, key, value, interval))
         /\ CurrentSizeEstimate(BlockAdd(b, key, value, interval)) <=
              CurrentSizeEstimate(b) + Len(key) + Len(value) + 19
         /\ BlockAdd(b, key, value, interval).buffer # <<>>
<1> DEFINE c == BlockAdd(b, key, value, interval)
           q == b.restarts
           l == Len(b.buffer)
           m == Len(c.buffer)
           k == Len(key)
           v == Len(value)
           shared == SharedWithLast(b, key, interval)
<1>0. c = BlockAdd(b, key, value, interval) /\ shared = SharedWithLast(b, key, interval)
  OBVIOUS
<1> HIDE DEF c, shared
<1>1. /\ BlockType(c) /\ l < m /\ m <= l + k + v + 15
      /\ c.restarts = IF b.counter >= interval THEN Append(q, l) ELSE q
  <2>1. /\ BlockType(c) /\ Len(b.buffer) < Len(c.buffer)
        /\ Len(c.buffer) <= Len(b.buffer) + Len(key) + Len(value) + 15
        /\ c.restarts = IF b.counter >= interval THEN Append(b.restarts, Len(b.buffer))
                        ELSE b.restarts
        /\ EntryAt(c.buffer, Len(b.buffer), Len(c.buffer), shared, b.last_key,
                   <<key, value>>)
    <3> HIDE DEF q, l, m, k, v
    <3> QED
      BY <1>0, BlockAddParts
  <2> QED
    BY <2>1
<1>2. /\ l \in Nat /\ q \in Seq(Nat) /\ Len(q) \in Nat /\ k \in Nat /\ v \in Nat
      /\ m \in Nat
  BY <1>1, LenProperties DEF BlockType
<1> HIDE DEF q, l, m, k, v
<1>3. Len(c.restarts) <= Len(q) + 1 /\ Len(c.restarts) \in Nat
  <2>1. CASE b.counter >= interval
    <3>1. c.restarts = Append(q, l)
      BY <1>1, <2>1
    <3>2. Len(Append(q, l)) = Len(q) + 1
      BY <1>2
    <3> QED
      BY <1>2, <3>1, <3>2
  <2>2. CASE ~(b.counter >= interval)
    <3>1. c.restarts = q
      BY <1>1, <2>2
    <3> QED
      BY <1>2, <3>1
  <2> QED
    BY <2>1, <2>2
<1>4. /\ CurrentSizeEstimate(c) = m + 4 * Len(c.restarts) + 4
      /\ CurrentSizeEstimate(b) = l + 4 * Len(q) + 4
  BY DEF CurrentSizeEstimate, m, l, q
<1>5. CurrentSizeEstimate(c) <= CurrentSizeEstimate(b) + k + v + 19
  BY <1>1, <1>2, <1>3, <1>4
<1>6. c.buffer # <<>>
  <2>1. Len(<<>>) = 0 /\ m # 0
    BY <1>1, <1>2
  <2> QED
    BY <2>1 DEF m
<1> QED
  BY <1>1, <1>5, <1>6 DEF c, k, v

\* A block after the constructor or Reset() has no entries.
LEMMA EmptyBlockInv == BlockInv(EmptyBlock, <<>>)
<1>1. BlockType(EmptyBlock)
  BY DEF BlockType, EmptyBlock
<1>2. <<>> \in Seq(Entry) /\ Len(<<>>) = 0
  OBVIOUS
<1> DEFINE off == [n \in 0..0 |-> 0]
           sh == [n \in 1..0 |-> 0]
<1>3. Laid(EmptyBlock, <<>>, off, sh)
  BY <1>2 DEF Laid, EmptyBlock
<1>4. EmptyBlock.last_key = KeyBefore(<<>>, Len(<<>>) + 1)
  BY <1>2 DEF EmptyBlock, KeyBefore
<1>5. EmptyBlock.counter = 0 /\ \A r \in 1..Len(EmptyBlock.restarts) : EmptyBlock.restarts[r] = 0
  BY DEF EmptyBlock
<1> HIDE DEF off, sh
<1> QED
  BY <1>1, <1>2, <1>3, <1>4, <1>5 DEF BlockInv

-----------------------------------------------------------------------------
(* The filter block: that what it is written from are sequences.           *)

\* A sequence, of whatever.
IsSeq(s) == \E S : s \in Seq(S)

\* A sequence has a length.
LEMMA SeqLen ==
  ASSUME NEW s, IsSeq(s)
  PROVE  Len(s) \in Nat
BY LenProperties DEF IsSeq

\* A sequence of numbers is a sequence.
LEMMA SeqOfNat ==
  ASSUME NEW s \in Seq(Nat)
  PROVE  IsSeq(s)
BY DEF IsSeq

\* Both are sequences over one set.
LEMMA CommonSet ==
  ASSUME NEW s, NEW t, IsSeq(s), IsSeq(t)
  PROVE  \E S : s \in Seq(S) /\ t \in Seq(S)
<1>1. PICK A : s \in Seq(A)
  BY DEF IsSeq
<1>2. PICK B : t \in Seq(B)
  BY DEF IsSeq
<1>3. s \in Seq(A \cup B) /\ t \in Seq(A \cup B)
  BY <1>1, <1>2, SeqMonotonic
<1> QED
  BY <1>3

\* Appending a sequence to a sequence.
LEMMA SeqConcat ==
  ASSUME NEW s, NEW t, IsSeq(s), IsSeq(t)
  PROVE  /\ IsSeq(s \o t) /\ Len(s \o t) = Len(s) + Len(t) /\ Grown(s \o t, s)
         /\ Piece(s \o t, Len(s), t)
<1>1. PICK S : s \in Seq(S) /\ t \in Seq(S)
  BY CommonSet
<1>2. /\ Grown(s \o t, s) /\ s \o t \in Seq(S) /\ Len(s \o t) = Len(s) + Len(t)
  BY <1>1, GrownByConcat
<1>3. Piece(s \o t, Len(s), t)
  BY <1>1, PieceAdded
<1> QED
  BY <1>2, <1>3 DEF IsSeq

\* Appending one member to a sequence.
LEMMA SeqAppend ==
  ASSUME NEW s, IsSeq(s), NEW x
  PROVE  /\ IsSeq(Append(s, x)) /\ Len(Append(s, x)) = Len(s) + 1
         /\ \A i \in 1..(Len(s) + 1) : Append(s, x)[i] = IF i = Len(s) + 1 THEN x ELSE s[i]
<1>1. PICK S : s \in Seq(S)
  BY DEF IsSeq
<1>2. s \in Seq(S \cup {x}) /\ x \in S \cup {x}
  BY <1>1, SeqMonotonic
<1> DEFINE T == S \cup {x}
<1> HIDE DEF T
<1>3. s \in Seq(T) /\ x \in T
  BY <1>2 DEF T
<1>4. Append(s, x) \in Seq(T) /\ Len(Append(s, x)) = Len(s) + 1 /\ Len(s) \in Nat
  BY <1>3
<1>5. ASSUME NEW i \in 1..(Len(s) + 1)
      PROVE  Append(s, x)[i] = IF i = Len(s) + 1 THEN x ELSE s[i]
  BY <1>3
<1> QED
  BY <1>4, <1>5 DEF IsSeq

\* The fields of FilterBlockBuilder.
FilterInv(f) ==
  /\ f = [keys |-> f.keys, filter_offsets |-> f.filter_offsets, result |-> f.result]
  /\ IsSeq(f.keys) /\ f.filter_offsets \in Seq(Nat) /\ IsSeq(f.result)

\* k_ is a number.
LEMMA ProbesType == k_ \in Nat
<1> DEFINE x == (BitsPerKey * 69) \div 100
           S == {30, x}
           m == Min(S)
           T == {1, m}
           B == 1 + m
<1>1. BitsPerKey \in Nat
  BY FilterAssumption
<1>2. x \in Nat
  BY <1>1
<1> HIDE DEF x
<1>3. S \subseteq Nat /\ S # {}
  BY <1>2
<1>4. k_ = Max(T)
  BY DEF k_, x
<1> HIDE DEF S
<1>5. m \in S
  BY <1>3, MinNat
<1>6. m \in Nat
  BY <1>3, <1>5
<1> HIDE DEF m
<1>7. T \subseteq Nat /\ T # {} /\ B \in Nat /\ \A y \in T : y <= B
  BY <1>6
<1> HIDE DEF T, B
<1>8. Max(T) \in T
  BY <1>7, MaxNat
<1> QED
  BY <1>4, <1>7, <1>8

\* The bits that stand for the keys in a filter of so many bytes.
SetBits(keys, bytes) == UNION {BitPositions(keys[i], 8 * bytes) : i \in 1 .. Len(keys)}

\* A byte in which these bits are set.
ByteOf(B) ==
  (IF 0 \in B THEN 2 ^ 0 ELSE 0) + (IF 1 \in B THEN 2 ^ 1 ELSE 0)
  + (IF 2 \in B THEN 2 ^ 2 ELSE 0) + (IF 3 \in B THEN 2 ^ 3 ELSE 0)
  + (IF 4 \in B THEN 2 ^ 4 ELSE 0) + (IF 5 \in B THEN 2 ^ 5 ELSE 0)
  + (IF 6 \in B THEN 2 ^ 6 ELSE 0) + (IF 7 \in B THEN 2 ^ 7 ELSE 0)

\* A byte that is the sum of its bits has each of them.
LEMMA ByteBits ==
  ASSUME NEW B
  PROVE  ByteOf(B) \in Nat /\ \A q \in 0..7 : q \in B => (ByteOf(B) \div 2 ^ q) % 2 = 1
<1> DEFINE N(q) == IF q \in B THEN 1 ELSE 0
           y == N(0) + 2 * N(1) + 4 * N(2) + 8 * N(3) + 16 * N(4) + 32 * N(5) + 64 * N(6)
                + 128 * N(7)
<1>1. ByteOf(B) = y
  BY DEF ByteOf
<1>2. /\ N(0) \in 0..1 /\ N(1) \in 0..1 /\ N(2) \in 0..1 /\ N(3) \in 0..1
      /\ N(4) \in 0..1 /\ N(5) \in 0..1 /\ N(6) \in 0..1 /\ N(7) \in 0..1
  OBVIOUS
<1>3. \A q \in 0..7 : q \in B => N(q) = 1
  OBVIOUS
<1> HIDE DEF N
<1>4. y \in Nat
  BY <1>2
<1>5. /\ (y \div 1) % 2 = N(0) /\ (y \div 2) % 2 = N(1) /\ (y \div 4) % 2 = N(2)
      /\ (y \div 8) % 2 = N(3)
  BY <1>2
<1>6. /\ (y \div 16) % 2 = N(4) /\ (y \div 32) % 2 = N(5) /\ (y \div 64) % 2 = N(6)
      /\ (y \div 128) % 2 = N(7)
  BY <1>2
<1> HIDE DEF y
<1>7. /\ 2 ^ 0 = 1 /\ 2 ^ 1 = 2 /\ 2 ^ 2 = 4 /\ 2 ^ 3 = 8 /\ 2 ^ 4 = 16 /\ 2 ^ 5 = 32
      /\ 2 ^ 6 = 64 /\ 2 ^ 7 = 128
  OBVIOUS
<1>8. ASSUME NEW q \in 0..7
      PROVE  (y \div 2 ^ q) % 2 = N(q)
  <2>1. q = 0 \/ q = 1 \/ q = 2 \/ q = 3 \/ q = 4 \/ q = 5 \/ q = 6 \/ q = 7
    OBVIOUS
  <2>2. CASE q = 0
    <3>1. 2 ^ q = 1
      BY <1>7, <2>2
    <3> QED
      BY <1>5, <2>2, <3>1
  <2>3. CASE q = 1
    <3>1. 2 ^ q = 2
      BY <1>7, <2>3
    <3> QED
      BY <1>5, <2>3, <3>1
  <2>4. CASE q = 2
    <3>1. 2 ^ q = 4
      BY <1>7, <2>4
    <3> QED
      BY <1>5, <2>4, <3>1
  <2>5. CASE q = 3
    <3>1. 2 ^ q = 8
      BY <1>7, <2>5
    <3> QED
      BY <1>5, <2>5, <3>1
  <2>6. CASE q = 4
    <3>1. 2 ^ q = 16
      BY <1>7, <2>6
    <3> QED
      BY <1>6, <2>6, <3>1
  <2>7. CASE q = 5
    <3>1. 2 ^ q = 32
      BY <1>7, <2>7
    <3> QED
      BY <1>6, <2>7, <3>1
  <2>8. CASE q = 6
    <3>1. 2 ^ q = 64
      BY <1>7, <2>8
    <3> QED
      BY <1>6, <2>8, <3>1
  <2>9. CASE q = 7
    <3>1. 2 ^ q = 128
      BY <1>7, <2>9
    <3> QED
      BY <1>6, <2>9, <3>1
  <2> QED
    BY <2>1, <2>2, <2>3, <2>4, <2>5, <2>6, <2>7, <2>8, <2>9
<1> QED
  BY <1>1, <1>3, <1>4, <1>8

\* CreateFilter() sets the bits of all keys in at least eight bytes.
LEMMA FilterBytes ==
  ASSUME NEW keys, IsSeq(keys)
  PROVE  /\ CreateFilter(keys) \in Seq(Nat)
         /\ \E bytes \in Nat :
              /\ bytes >= 8 /\ Len(CreateFilter(keys)) = bytes + 1
              /\ \A n \in 1..bytes : \A q \in 0..7 :
                   8 * (n - 1) + q \in SetBits(keys, bytes) =>
                     (CreateFilter(keys)[n] \div 2 ^ q) % 2 = 1
<1> DEFINE S == {64, Len(keys) * BitsPerKey}
           bytes == (Max(S) + 7) \div 8
           set == SetBits(keys, bytes)
           Bit(n, q) == IF 8 * (n - 1) + q \in set THEN 2 ^ q ELSE 0
           At(n) == Bit(n, 0) + Bit(n, 1) + Bit(n, 2) + Bit(n, 3)
                    + Bit(n, 4) + Bit(n, 5) + Bit(n, 6) + Bit(n, 7)
           bits == [n \in 1 .. bytes |-> At(n)]
<1>1. Len(keys) \in Nat /\ BitsPerKey \in Nat
  BY SeqLen, FilterAssumption
<1>2. Max(S) \in Nat /\ 64 <= Max(S)
  <2> DEFINE x == Len(keys) * BitsPerKey
             B == 64 + x
  <2>1. x \in Nat
    BY <1>1
  <2> HIDE DEF x
  <2>2. S = {64, x}
    BY DEF x
  <2> HIDE DEF S
  <2>3. S \subseteq Nat /\ S # {} /\ B \in Nat /\ \A y \in S : y <= B
    BY <2>1, <2>2
  <2> HIDE DEF B
  <2>4. Max(S) \in S /\ \A y \in S : y <= Max(S)
    BY <2>3, MaxNat
  <2> QED
    BY <2>2, <2>3, <2>4
<1>3. CreateFilter(keys) = bits \o <<k_>>
  BY DEF CreateFilter, SetBits
<1> HIDE DEF S
<1>4. bytes \in Nat /\ bytes >= 8
  BY <1>2
<1> HIDE DEF bytes, set
<1>5. ASSUME NEW n \in 1..bytes
      PROVE  /\ At(n) \in Nat
             /\ \A q \in 0..7 : 8 * (n - 1) + q \in set => (At(n) \div 2 ^ q) % 2 = 1
  <2> DEFINE B == {q \in 0..7 : 8 * (n - 1) + q \in set}
             x == At(n)
  <2>1. \A q \in 0..7 : q \in B <=> 8 * (n - 1) + q \in set
    OBVIOUS
  <2>2. x = ByteOf(B)
    <3>1. \A q \in 0..7 : Bit(n, q) = IF q \in B THEN 2 ^ q ELSE 0
      BY <2>1
    <3>2. /\ 0 \in 0..7 /\ 1 \in 0..7 /\ 2 \in 0..7 /\ 3 \in 0..7 /\ 4 \in 0..7
          /\ 5 \in 0..7 /\ 6 \in 0..7 /\ 7 \in 0..7
      OBVIOUS
    <3> HIDE DEF Bit, B
    <3> QED
      BY <3>1, <3>2, Zenon DEF ByteOf
  <2> HIDE DEF B, x
  <2>3. x \in Nat /\ \A q \in 0..7 : q \in B => (x \div 2 ^ q) % 2 = 1
    BY <2>2, ByteBits
  <2> QED
    BY <2>1, <2>3 DEF x
<1> HIDE DEF At
<1>6. bits \in Seq(Nat) /\ Len(bits) = bytes /\ \A n \in 1..bytes : bits[n] = At(n)
  BY <1>4, <1>5
<1> HIDE DEF bits
<1> DEFINE y == <<k_>>
<1>7. y \in Seq(Nat) /\ Len(y) = 1
  BY ProbesType
<1> HIDE DEF y
<1>8. /\ bits \o y \in Seq(Nat) /\ Len(bits \o y) = bytes + 1
      /\ \A n \in 1..bytes : (bits \o y)[n] = bits[n]
  <2>1. Grown(bits \o y, bits) /\ bits \o y \in Seq(Nat) /\ Len(bits \o y) = Len(bits) + Len(y)
    BY <1>6, <1>7, GrownByConcat
  <2> QED
    BY <1>6, <1>7, <2>1 DEF Grown
<1>9. CreateFilter(keys) = bits \o y
  BY <1>3 DEF y
<1>10. ASSUME NEW n \in 1..bytes, NEW q \in 0..7, 8 * (n - 1) + q \in SetBits(keys, bytes)
       PROVE  (CreateFilter(keys)[n] \div 2 ^ q) % 2 = 1
  <2>1. CreateFilter(keys)[n] = At(n)
    BY <1>6, <1>8, <1>9
  <2>2. (At(n) \div 2 ^ q) % 2 = 1
    BY <1>5, <1>10 DEF set
  <2> QED
    BY <2>1, <2>2
<1> QED
  BY <1>4, <1>8, <1>9, <1>10

\* BloomFilterPolicy::CreateFilter() appends a string.
LEMMA CreateFilterSeq ==
  ASSUME NEW keys, IsSeq(keys)
  PROVE  IsSeq(CreateFilter(keys))
BY FilterBytes, SeqOfNat

\* GenerateFilter() keeps the fields well formed.
LEMMA GenerateKeeps ==
  ASSUME NEW f, FilterInv(f)
  PROVE  FilterInv(GenerateFilter(f))
<1> DEFINE off == Append(f.filter_offsets, Len(f.result))
           res == IF f.keys = <<>> THEN f.result ELSE f.result \o CreateFilter(f.keys)
<1>1. GenerateFilter(f) = [keys |-> <<>>, filter_offsets |-> off, result |-> res]
  BY DEF GenerateFilter
<1>2. off \in Seq(Nat)
  <2>1. f.filter_offsets \in Seq(Nat) /\ Len(f.result) \in Nat
    BY SeqLen DEF FilterInv
  <2> QED
    BY <2>1
<1>3. IsSeq(res)
  <2>1. IsSeq(f.keys) /\ IsSeq(f.result)
    BY DEF FilterInv
  <2> DEFINE k == f.keys
             c == CreateFilter(k)
             o == f.result
  <2>2. IsSeq(c)
    BY <2>1, CreateFilterSeq
  <2>3. res = o \/ res = o \o c
    OBVIOUS
  <2> HIDE DEF c, o, res
  <2>4. IsSeq(o) /\ IsSeq(o \o c)
    BY <2>1, <2>2, SeqConcat DEF o
  <2> QED
    BY <2>3, <2>4
<1>4. IsSeq(<<>>)
  BY EmptySeq DEF IsSeq
<1> HIDE DEF off, res
<1> QED
  BY <1>1, <1>2, <1>3, <1>4 DEF FilterInv

\* The loop of FilterBlockBuilder::StartBlock().
LEMMA StartBlockIs ==
  ASSUME NEW f, FilterInv(f), NEW block_offset \in Nat
  PROVE  /\ FiltersBefore(block_offset) \in Nat
         /\ \E new \in Nat : \E gen :
              /\ StartBlock(f, block_offset) = gen[new] /\ gen[0] = f
              /\ \A i \in 1..new : gen[i] = GenerateFilter(gen[i - 1])
              /\ FiltersBefore(block_offset) >= Len(f.filter_offsets) =>
                   new = FiltersBefore(block_offset) - Len(f.filter_offsets)
<1> DEFINE before == FiltersBefore(block_offset)
           have == Len(f.filter_offsets)
           new == before - have
           Is(g, n) == g = [i \in 0..n |-> IF i = 0 THEN f ELSE GenerateFilter(g[i - 1])]
           gen == CHOOSE g : Is(g, new)
<1>1. before \in Nat /\ have \in Nat /\ new \in Int
  <2>1. have \in Nat
    BY LenProperties DEF FilterInv
  <2> DEFINE d == 2 ^ FilterBaseLg
  <2>2. d \in Nat \ {0}
    BY FilterAssumption
  <2> HIDE DEF d
  <2>3. block_offset \div d \in Nat
    BY <2>2
  <2> QED
    BY <2>1, <2>3 DEF FiltersBefore, d
<1>2. StartBlock(f, block_offset) = IF new > 0 THEN gen[new] ELSE f
  BY DEF StartBlock
<1> HIDE DEF before, have
<1>3. CASE new > 0
  <2> HIDE DEF new
  <2> DEFINE Bad == {m \in Nat : ~\E g : Is(g, m)}
  <2>1. ASSUME NEW m \in Bad, \A y \in Bad : m <= y
        PROVE  FALSE
    <3>1. CASE m = 0
      <4> DEFINE g == [i \in 0..0 |-> f]
      <4>1. Is(g, 0)
        OBVIOUS
      <4> QED
        BY <3>1, <4>1
    <3>2. CASE m # 0
      <4>1. m - 1 \in Nat /\ ~(m <= m - 1)
        BY <3>2
      <4>2. m - 1 \notin Bad
        BY <2>1, <4>1
      <4>3. PICK h : Is(h, m - 1)
        BY <4>1, <4>2
      <4> DEFINE g == [i \in 0..m |-> IF i = m THEN GenerateFilter(h[m - 1]) ELSE h[i]]
      <4>4. ASSUME NEW i \in 0..m
            PROVE  g[i] = IF i = 0 THEN f ELSE GenerateFilter(g[i - 1])
        <5>1. CASE i = m
          <6>1. g[i - 1] = h[m - 1] /\ i # 0
            BY <3>2, <5>1
          <6> QED
            BY <5>1, <6>1
        <5>2. CASE i # m
          <6>1. i \in 0..(m - 1) /\ (i # 0 => i - 1 \in 0..m /\ i - 1 # m)
            BY <5>2
          <6>2. h[i] = IF i = 0 THEN f ELSE GenerateFilter(h[i - 1])
            BY <4>3, <6>1
          <6>3. i # 0 => g[i - 1] = h[i - 1]
            BY <6>1
          <6> QED
            BY <5>2, <6>2, <6>3
        <5> QED
          BY <5>1, <5>2
      <4>5. g = [i \in 0..m |-> g[i]]
        OBVIOUS
      <4> HIDE DEF g
      <4>6. Is(g, m)
        BY <4>4, <4>5
      <4> QED
        BY <4>6
    <3> QED
      BY <3>1, <3>2
  <2>2. \A m \in Nat : \E g : Is(g, m)
    <3> SUFFICES ASSUME NEW m \in Nat, m \in Bad PROVE FALSE
      OBVIOUS
    <3>1. Bad \subseteq Nat
      OBVIOUS
    <3> HIDE DEF Bad
    <3> QED
      BY <2>1, <3>1, Least
  <2>3. new \in Nat
    BY <1>1, <1>3
  <2>4. Is(gen, new)
    BY <2>2, <2>3
  <2> HIDE DEF gen, Bad
  <2>5. gen[0] = f
    BY <2>3, <2>4
  <2>6. ASSUME NEW i \in 1..new
        PROVE  gen[i] = GenerateFilter(gen[i - 1])
    <3>1. i \in 0..new /\ i # 0
      BY <2>3
    <3> QED
      BY <2>4, <3>1
  <2>7. StartBlock(f, block_offset) = gen[new]
    BY <1>2, <1>3
  <2> QED
    BY <1>1, <2>3, <2>5, <2>6, <2>7 DEF new, before, have
<1>4. CASE ~(new > 0)
  <2> DEFINE none == [i \in 0..0 |-> f]
  <2>1. none[0] = f /\ 0 \in Nat /\ StartBlock(f, block_offset) = f
    BY <1>2, <1>4
  <2> HIDE DEF none
  <2>2. \A i \in 1..0 : none[i] = GenerateFilter(none[i - 1])
    OBVIOUS
  <2>3. before >= have => 0 = before - have
    BY <1>1, <1>4
  <2> QED
    BY <1>1, <2>1, <2>2, <2>3 DEF before, have
<1> QED
  BY <1>3, <1>4

\* So does StartBlock(), however many filters it generates.
LEMMA StartBlockKeeps ==
  ASSUME NEW f, FilterInv(f), NEW block_offset \in Nat
  PROVE  FilterInv(StartBlock(f, block_offset))
<1>1. PICK new \in Nat : \E gen :
        /\ StartBlock(f, block_offset) = gen[new] /\ gen[0] = f
        /\ \A i \in 1..new : gen[i] = GenerateFilter(gen[i - 1])
  <2>1. /\ FiltersBefore(block_offset) \in Nat
        /\ \E new \in Nat : \E gen :
             /\ StartBlock(f, block_offset) = gen[new] /\ gen[0] = f
             /\ \A i \in 1..new : gen[i] = GenerateFilter(gen[i - 1])
             /\ FiltersBefore(block_offset) >= Len(f.filter_offsets) =>
                  new = FiltersBefore(block_offset) - Len(f.filter_offsets)
    BY StartBlockIs
  <2> QED
    BY <2>1, Zenon
<1>2. PICK gen : /\ StartBlock(f, block_offset) = gen[new] /\ gen[0] = f
                 /\ \A i \in 1..new : gen[i] = GenerateFilter(gen[i - 1])
  BY <1>1
<1> DEFINE Odd == {i \in 0..new : ~FilterInv(gen[i])}
<1>3. ASSUME NEW i \in Odd, \A y \in Odd : i <= y
      PROVE  FALSE
  <2>1. i # 0 => i \in 1..new /\ i - 1 \in 0..new /\ ~(i <= i - 1)
    OBVIOUS
  <2>2. i # 0 => FilterInv(gen[i - 1]) /\ gen[i] = GenerateFilter(gen[i - 1])
    BY <1>2, <1>3, <2>1
  <2> QED
    BY <1>2, <2>2, GenerateKeeps
<1>4. Odd \subseteq Nat
  OBVIOUS
<1>5. Odd = {}
  <2> HIDE DEF Odd
  <2> QED
    BY <1>3, <1>4, Least
<1>6. new \in 0..new
  OBVIOUS
<1> QED
  BY <1>2, <1>5, <1>6

\* FilterBlockBuilder::Finish() returns a string.
LEMMA FilterFinishSeq ==
  ASSUME NEW f, FilterInv(f)
  PROVE  IsSeq(FilterFinish(f))
<1> DEFINE g == IF f.keys = <<>> THEN f ELSE GenerateFilter(f)
<1>1. FilterInv(g)
  BY GenerateKeeps
<1> DEFINE a == g.result
           c == PutAllFixed32(g.filter_offsets)
           d == PutFixed32(Len(g.result))
           e == <<FilterBaseLg>>
<1>2. FilterFinish(f) = ((a \o c) \o d) \o e
  BY DEF FilterFinish
<1> HIDE DEF g
<1>3. IsSeq(a)
  BY <1>1 DEF FilterInv
<1>4. IsSeq(c)
  BY <1>1, AllFixed32Bytes, SeqOfNat DEF FilterInv
<1>5. IsSeq(d)
  BY <1>3, SeqLen, Fixed32Type, SeqOfNat
<1>6. IsSeq(e)
  <2>1. e \in Seq({FilterBaseLg})
    OBVIOUS
  <2> QED
    BY <2>1 DEF IsSeq
<1> HIDE DEF a, c, d, e
<1>7. IsSeq(a \o c)
  BY <1>3, <1>4, SeqConcat
<1>8. IsSeq((a \o c) \o d)
  BY <1>5, <1>7, SeqConcat
<1> QED
  BY <1>2, <1>6, <1>8, SeqConcat

-----------------------------------------------------------------------------
(* Keys and blocks of the index: only that they are sequences of numbers.  *)

\* The user key of a string is a string.
LEMMA UserKeyType ==
  ASSUME NEW key \in Seq(Nat)
  PROVE  ExtractUserKey(key) \in Seq(Nat)
<1>1. Len(key) \in Nat /\ \A i \in 1..Len(key) : key[i] \in Nat
  BY LenProperties, ElementOfSeq
<1> DEFINE n == Len(key) - 8
<1>2. ExtractUserKey(key) = [i \in 1..n |-> key[i]]
  BY <1>1 DEF ExtractUserKey
<1>3. CASE n <= 0
  <2>1. ExtractUserKey(key) = <<>>
    BY <1>1, <1>3, SubSeqProperties DEF ExtractUserKey
  <2> QED
    BY <2>1
<1>4. CASE n > 0
  <2>1. n \in Nat /\ \A i \in 1..n : key[i] \in Nat
    BY <1>1, <1>4
  <2> HIDE DEF n
  <2> QED
    BY <1>2, <2>1
<1> QED
  BY <1>1, <1>3, <1>4

\* The front of a key and an incremented byte are a string.
LEMMA FrontAndOne ==
  ASSUME NEW key \in Seq(Nat), NEW i \in 1..Len(key)
  PROVE  SubSeq(key, 1, i - 1) \o <<key[i] + 1>> \in Seq(Nat)
<1>1. Len(key) \in Nat /\ key[i] \in Nat
  BY LenProperties, ElementOfSeq
<1>2. SubSeq(key, 1, i - 1) \in Seq(Nat)
  BY <1>1, SubSeqProperties
<1>3. <<key[i] + 1>> \in Seq(Nat)
  BY <1>1
<1> QED
  BY <1>2, <1>3

\* InternalKeyComparator makes a string of a shortened user key.
LEMMA ShortenedType ==
  ASSUME NEW key \in Seq(Nat), NEW user \in Seq(Nat)
  PROVE  Shortened(key, user) \in Seq(Nat)
<1>1. EarliestTag \in Seq(Nat)
  BY DEF EarliestTag
<1>2. user \o EarliestTag \in Seq(Nat)
  BY <1>1
<1> QED
  BY <1>2 DEF Shortened

\* FindShortestSeparator() returns a string.
LEMMA SeparatorType ==
  ASSUME NEW start \in Seq(Nat), NEW limit \in Seq(Nat)
  PROVE  FindShortestSeparator(start, limit) \in Seq(Nat)
<1> DEFINE a == ExtractUserKey(start)
           c == ExtractUserKey(limit)
<1>1. a \in Seq(Nat) /\ c \in Seq(Nat)
  BY UserKeyType
<1> HIDE DEF a, c
<1> DEFINE i == SharedLength(a, c) + 1
<1>2. SharedLength(a, c) \in Nat /\ Shorter(a, c) <= Len(a) /\ Len(a) \in Nat
  BY <1>1, SharedIs, LenProperties DEF Shorter
<1>3. Shorter(a, c) \in Nat
  BY <1>1, LenProperties DEF Shorter
<1>4. i <= Shorter(a, c) => SubSeq(a, 1, i - 1) \o <<a[i] + 1>> \in Seq(Nat)
  BY <1>1, <1>2, <1>3, FrontAndOne
<1>5. BytewiseSeparator(a, c) \in Seq(Nat)
  BY <1>1, <1>4 DEF BytewiseSeparator
<1>6. Shortened(start, BytewiseSeparator(a, c)) \in Seq(Nat)
  BY <1>5, ShortenedType
<1> QED
  BY <1>6 DEF FindShortestSeparator, a, c

\* BytewiseComparatorImpl::FindShortSuccessor() makes a string of a string.
LEMMA BytewiseSuccessorType ==
  ASSUME NEW a \in Seq(Nat)
  PROVE  BytewiseSuccessor(a) \in Seq(Nat)
<1> DEFINE free == {i \in 1 .. Len(a) : a[i] # 255}
           m == Min(free)
<1>1. free # {} => m \in 1..Len(a)
  <2>1. free \subseteq Nat
    BY LenProperties
  <2>2. free \subseteq 1..Len(a)
    OBVIOUS
  <2> HIDE DEF free
  <2> QED
    BY <2>1, <2>2, MinNat
<1> HIDE DEF m
<1>2. free # {} => SubSeq(a, 1, m - 1) \o <<a[m] + 1>> \in Seq(Nat)
  BY <1>1, FrontAndOne
<1> QED
  BY <1>2 DEF BytewiseSuccessor, m

\* FindShortSuccessor() returns a string.
LEMMA SuccessorType ==
  ASSUME NEW key \in Seq(Nat)
  PROVE  FindShortSuccessor(key) \in Seq(Nat)
<1> DEFINE a == ExtractUserKey(key)
<1>1. a \in Seq(Nat)
  BY UserKeyType
<1> HIDE DEF a
<1>2. BytewiseSuccessor(a) \in Seq(Nat)
  BY <1>1, BytewiseSuccessorType
<1>3. Shortened(key, BytewiseSuccessor(a)) \in Seq(Nat)
  BY <1>2, ShortenedType
<1> QED
  BY <1>3 DEF FindShortSuccessor, a

\* A BlockHandle.
IsHandle(h) == h.offset \in Nat /\ h.size \in Nat

\* BlockHandle::EncodeTo() appends a string.
LEMMA EncodeHandleType ==
  ASSUME NEW h, IsHandle(h)
  PROVE  EncodeHandle(h) \in Seq(Nat)
<1>1. PutVarint[h.offset] \in Seq(Nat) /\ PutVarint[h.size] \in Seq(Nat)
  BY VarintType DEF IsHandle
<1> QED
  BY <1>1 DEF EncodeHandle

\* What the index block is, whatever the lengths of its keys and values are.
IndexType(b) ==
  /\ b = [buffer |-> b.buffer, restarts |-> b.restarts, counter |-> b.counter,
          last_key |-> b.last_key]
  /\ b.buffer \in Seq(Nat) /\ b.restarts \in Seq(Nat)
  /\ b.counter \in Nat /\ b.last_key \in Seq(Nat)

\* BlockBuilder::Add() keeps the fields of the index block well formed.
LEMMA IndexAdd ==
  ASSUME NEW b, IndexType(b), NEW key \in Seq(Nat), NEW value \in Seq(Nat),
         NEW interval \in Nat
  PROVE  IndexType(BlockAdd(b, key, value, interval))
<1> DEFINE shared == SharedWithLast(b, key, interval)
           delta == SubSeq(key, shared + 1, Len(key))
           restart == b.counter >= interval
           last == b.last_key
           buf == b.buffer
           rs == b.restarts
<1>1. /\ buf \in Seq(Nat) /\ rs \in Seq(Nat) /\ b.counter \in Nat /\ last \in Seq(Nat)
  BY DEF IndexType
<1>2. shared \in Nat /\ shared <= Len(last) /\ shared <= Len(key)
  <2> HIDE DEF last
  <2>1. /\ SharedLength(last, key) \in Nat
        /\ SharedLength(last, key) <= Len(last) /\ SharedLength(last, key) <= Len(key)
    BY <1>1, SharedIs
  <2>2. 0 <= Len(last) /\ 0 <= Len(key)
    BY <1>1, LenProperties
  <2>3. shared = SharedLength(last, key) \/ shared = 0
    BY DEF SharedWithLast, last
  <2> HIDE DEF shared
  <2> QED
    BY <2>1, <2>2, <2>3
<1> HIDE DEF shared
<1>3. delta \in Seq(Nat) /\ Len(delta) \in Nat
  <2>1. shared \in 0..Len(key)
    BY <1>2
  <2> QED
    BY <2>1, RestOfKey, LenProperties
<1> DEFINE nb == buf \o PutVarint[shared] \o PutVarint[Len(delta)]
                      \o PutVarint[Len(value)] \o delta \o value
           nr == IF restart THEN Append(rs, Len(buf)) ELSE rs
           nc == IF restart THEN 1 ELSE b.counter + 1
           nl == SubSeq(last, 1, shared) \o delta
<1>4. BlockAdd(b, key, value, interval) =
        [buffer |-> nb, restarts |-> nr, counter |-> nc, last_key |-> nl]
  BY DEF BlockAdd, shared
<1> HIDE DEF delta, last, buf, rs
<1>5. nb \in Seq(Nat)
  <2> DEFINE x == PutVarint[shared]
             y == PutVarint[Len(delta)]
             z == PutVarint[Len(value)]
  <2>1. x \in Seq(Nat) /\ y \in Seq(Nat) /\ z \in Seq(Nat)
    BY <1>2, <1>3, VarintType, LenProperties
  <2> HIDE DEF x, y, z
  <2>2. buf \o x \in Seq(Nat)
    BY <1>1, <2>1
  <2>3. (buf \o x) \o y \in Seq(Nat)
    BY <2>1, <2>2
  <2>4. ((buf \o x) \o y) \o z \in Seq(Nat)
    BY <2>1, <2>3
  <2>5. (((buf \o x) \o y) \o z) \o delta \in Seq(Nat)
    BY <1>3, <2>4
  <2>6. ((((buf \o x) \o y) \o z) \o delta) \o value \in Seq(Nat)
    BY <2>5
  <2> QED
    BY <2>6 DEF x, y, z
<1>6. nr \in Seq(Nat)
  <2>1. Len(buf) \in Nat
    BY <1>1, LenProperties
  <2>2. Append(rs, Len(buf)) \in Seq(Nat)
    BY <1>1, <2>1
  <2> QED
    BY <1>1, <2>2
<1>7. nc \in Nat
  BY <1>1
<1>8. nl \in Seq(Nat)
  <2>1. SubSeq(last, 1, shared) \in Seq(Nat)
    BY <1>1, <1>2, SubSeqProperties, LenProperties
  <2> QED
    BY <1>3, <2>1
<1> HIDE DEF nb, nr, nc, nl
<1> QED
  BY <1>4, <1>5, <1>6, <1>7, <1>8 DEF IndexType

\* They are so at the start.
LEMMA EmptyIndex == IndexType(EmptyBlock)
<1>1. <<>> \in Seq(Nat) /\ <<0>> \in Seq(Nat)
  OBVIOUS
<1> QED
  BY <1>1 DEF IndexType, EmptyBlock

\* BlockBuilder::Finish() on the index block returns a string.
LEMMA IndexFinishType ==
  ASSUME NEW b, IndexType(b)
  PROVE  BlockFinish(b) \in Seq(Nat)
<1> DEFINE a == b.buffer
           r == b.restarts
           c == PutAllFixed32(r)
           d == PutFixed32(Len(r))
<1>1. a \in Seq(Nat) /\ r \in Seq(Nat)
  BY DEF IndexType
<1>2. BlockFinish(b) = (a \o c) \o d
  BY DEF BlockFinish
<1> HIDE DEF a, r
<1>3. c \in Seq(Nat) /\ d \in Seq(Nat)
  BY <1>1, AllFixed32Bytes, Fixed32Type, LenProperties
<1> HIDE DEF c, d
<1>4. a \o c \in Seq(Nat)
  BY <1>1, <1>3
<1>5. (a \o c) \o d \in Seq(Nat)
  BY <1>3, <1>4
<1> QED
  BY <1>2, <1>5

\* Footer::EncodeTo() appends a string.
LEMMA FooterSeq ==
  ASSUME NEW h, NEW i
  PROVE  IsSeq(Footer(h, i))
<1> DEFINE handles == EncodeHandle(h) \o EncodeHandle(i)
           At(j) == IF j <= Len(handles) THEN handles[j] ELSE 0
           front == [j \in 1..(kEncodedLength - 8) |-> At(j)]
<1>1. Footer(h, i) = front \o kTableMagicNumber
  BY DEF Footer
<1> HIDE DEF At
<1>2. IsSeq(front)
  <2> DEFINE V == {At(j) : j \in 1..40}
  <2>1. \A j \in 1..40 : At(j) \in V
    OBVIOUS
  <2>2. front = [j \in 1..40 |-> At(j)]
    BY DEF kEncodedLength
  <2> HIDE DEF V, front
  <2>3. [j \in 1..40 |-> At(j)] \in Seq(V)
    BY <2>1
  <2> QED
    BY <2>2, <2>3 DEF IsSeq
<1> HIDE DEF front
<1>3. IsSeq(kTableMagicNumber)
  <2>1. kTableMagicNumber \in Seq(Nat)
    BY DEF kTableMagicNumber
  <2> QED
    BY <2>1, SeqOfNat
<1> QED
  BY <1>1, <1>2, <1>3, SeqConcat

-----------------------------------------------------------------------------
(* The steps of the operations, on a Rep given by its fields.              *)

\* The fields of Rep.
IsRep(r) ==
  r = [options |-> r.options, offset |-> r.offset, ok |-> r.ok,
       data_block |-> r.data_block, index_block |-> r.index_block,
       last_key |-> r.last_key, num_entries |-> r.num_entries, closed |-> r.closed,
       filter_block |-> r.filter_block,
       pending_index_entry |-> r.pending_index_entry,
       pending_handle |-> r.pending_handle, handle |-> r.handle,
       file |-> r.file, ops |-> r.ops, fail_at |-> r.fail_at]

\* What an operation on the file leaves alone.
SameBlocks(w, r) ==
  /\ w.options = r.options /\ w.data_block = r.data_block
  /\ w.index_block = r.index_block /\ w.last_key = r.last_key
  /\ w.closed = r.closed /\ w.filter_block = r.filter_block
  /\ w.pending_handle = r.pending_handle /\ w.num_entries = r.num_entries
  /\ w.pending_index_entry = r.pending_index_entry

\* No operation on the file has failed.
Clean(r) == r.ops \in Nat /\ r.fail_at \in Nat /\ r.fail_at \notin 1..r.ops

\* What file->Append() does to the Rep.
LEMMA FileAppendIs ==
  ASSUME NEW r, IsRep(r), NEW data, NEW w, w = FileAppend(r, data)
  PROVE  /\ IsRep(w) /\ SameBlocks(w, r) /\ w.offset = r.offset /\ w.handle = r.handle
         /\ w.ok => w.file = r.file \o data
         /\ w.ok /\ Clean(r) => Clean(w)
<1> DEFINE ok == r.ops + 1 # r.fail_at
           file == IF ok THEN r.file \o data ELSE r.file
           ops == r.ops + 1
<1>1. w = [r EXCEPT !.ops = ops, !.ok = ok, !.file = file]
  BY DEF FileAppend, IsRep
<1> HIDE DEF ok, ops
<1>2. ok => file = r.file \o data
  OBVIOUS
<1> HIDE DEF file
<1>3. w = [options |-> r.options, offset |-> r.offset, ok |-> ok,
           data_block |-> r.data_block, index_block |-> r.index_block,
           last_key |-> r.last_key, num_entries |-> r.num_entries, closed |-> r.closed,
           filter_block |-> r.filter_block,
           pending_index_entry |-> r.pending_index_entry,
           pending_handle |-> r.pending_handle, handle |-> r.handle,
           file |-> file, ops |-> ops, fail_at |-> r.fail_at]
  BY <1>1 DEF IsRep
<1>4. /\ IsRep(w) /\ SameBlocks(w, r) /\ w.offset = r.offset /\ w.handle = r.handle
      /\ w.ok = ok /\ w.file = file /\ w.ops = ops /\ w.fail_at = r.fail_at
  BY <1>3 DEF IsRep, SameBlocks
<1>5. ok /\ Clean(r) => Clean(w)
  BY <1>4 DEF ok, ops, Clean
<1> QED
  BY <1>2, <1>4, <1>5

\* Left alone by two steps.
LEMMA SameTwice ==
  ASSUME NEW a, NEW b, NEW c, SameBlocks(b, a), SameBlocks(c, b)
  PROVE  SameBlocks(c, a)
BY DEF SameBlocks

\* What WriteRawBlock() does to the Rep: contents and trailer are at the end of the file
\* if the status stays ok.
LEMMA WriteRawBlockIs ==
  ASSUME NEW r, IsRep(r), NEW contents, NEW w, w = WriteRawBlock(r, contents)
  PROVE  /\ IsRep(w) /\ SameBlocks(w, r)
         /\ w.handle = [offset |-> r.offset, size |-> Len(contents)]
         /\ w.ok => /\ w.file = (r.file \o contents) \o Trailer(contents)
                    /\ w.offset = r.offset + Len(contents) + kBlockTrailerSize
         /\ w.ok /\ Clean(r) => Clean(w)
<1> DEFINE handle == [offset |-> r.offset, size |-> Len(contents)]
           q == [r EXCEPT !.handle = handle]
           begun == FileAppend(q, contents)
           t == FileAppend(begun, Trailer(contents))
           c == IF begun.ok THEN t ELSE begun
           off == c.offset + Len(contents) + kBlockTrailerSize
           adv == [c EXCEPT !.offset = off]
<1>1. w = IF c.ok THEN adv ELSE c
  <2>1. \A b : [b EXCEPT !.offset = @ + Len(contents) + kBlockTrailerSize] =
               [b EXCEPT !.offset = b.offset + Len(contents) + kBlockTrailerSize]
    OBVIOUS
  <2> QED
    BY DEF WriteRawBlock, IfOk
<1> HIDE DEF handle
<1>2. /\ IsRep(q) /\ SameBlocks(q, r) /\ q.offset = r.offset /\ q.handle = handle
      /\ q.file = r.file /\ (Clean(r) => Clean(q))
  BY DEF IsRep, SameBlocks, Clean
<1> HIDE DEF q
<1>3. /\ IsRep(begun) /\ SameBlocks(begun, q) /\ begun.offset = q.offset
      /\ begun.handle = q.handle /\ (begun.ok => begun.file = q.file \o contents)
      /\ begun.ok /\ Clean(q) => Clean(begun)
  BY <1>2, FileAppendIs
<1> HIDE DEF begun
<1>4. /\ IsRep(t) /\ SameBlocks(t, begun) /\ t.offset = begun.offset
      /\ t.handle = begun.handle /\ (t.ok => t.file = begun.file \o Trailer(contents))
      /\ t.ok /\ Clean(begun) => Clean(t)
  BY <1>3, FileAppendIs
<1> HIDE DEF t
<1>5. /\ IsRep(c) /\ SameBlocks(c, r) /\ c.offset = r.offset /\ c.handle = handle
      /\ c.ok => c.file = (r.file \o contents) \o Trailer(contents)
      /\ c.ok /\ Clean(r) => Clean(c)
  BY <1>2, <1>3, <1>4, SameTwice
<1> HIDE DEF c, off
<1>6. /\ IsRep(adv) /\ SameBlocks(adv, c) /\ adv.offset = off /\ adv.handle = c.handle
      /\ adv.ok = c.ok /\ adv.file = c.file /\ (Clean(c) => Clean(adv))
  BY <1>5 DEF IsRep, SameBlocks, Clean
<1> HIDE DEF adv
<1>7. SameBlocks(adv, r)
  BY <1>5, <1>6, SameTwice
<1>8. off = r.offset + Len(contents) + kBlockTrailerSize
  BY <1>5 DEF off
<1> QED
  BY <1>1, <1>5, <1>6, <1>7, <1>8 DEF handle

\* What TableBuilder::Flush() leaves of a block that is not empty.
Flushed(f, r, contents) ==
  /\ IsRep(f) /\ f.options = r.options /\ f.index_block = r.index_block
  /\ f.last_key = r.last_key /\ f.closed = r.closed
  /\ f.num_entries = r.num_entries /\ f.data_block = EmptyBlock
  /\ f.pending_handle = [offset |-> r.offset, size |-> Len(contents)]
  /\ f.handle = f.pending_handle
  /\ f.filter_block = r.filter_block
       \/ f.filter_block = StartBlock(r.filter_block, f.offset)
  /\ r.options.filter_policy => f.filter_block = StartBlock(r.filter_block, f.offset)
  /\ f.ok => /\ f.file = ((r.file \o contents) \o Trailer(contents)) \o <<>>
             /\ f.offset = r.offset + Len(contents) + kBlockTrailerSize
             /\ f.pending_index_entry = TRUE /\ (Clean(r) => Clean(f))

\* What Flush() does to a Rep with a block that is not empty.
LEMMA FlushBlockIs ==
  ASSUME NEW r, IsRep(r), r.ok, r.data_block # EmptyBlock, NEW f, f = FlushBlock(r),
         NEW contents, contents = BlockFinish(r.data_block)
  PROVE  Flushed(f, r, contents)
<1> DEFINE w == WriteRawBlock(r, contents)
           d == [w EXCEPT !.data_block = EmptyBlock, !.pending_handle = w.handle]
           p == [d EXCEPT !.pending_index_entry = TRUE]
           s == FileAppend(p, <<>>)
           e == IF d.ok THEN s ELSE d
           fb == IF e.options.filter_policy THEN StartBlock(e.filter_block, e.offset)
                 ELSE e.filter_block
<1>1. f = StartFilter(e)
  BY DEF FlushBlock, IfOk, WriteDataBlock, SetPending, FileFlush
<1>2. /\ IsRep(w) /\ SameBlocks(w, r)
      /\ w.handle = [offset |-> r.offset, size |-> Len(contents)]
      /\ w.ok => /\ w.file = (r.file \o contents) \o Trailer(contents)
                 /\ w.offset = r.offset + Len(contents) + kBlockTrailerSize
      /\ w.ok /\ Clean(r) => Clean(w)
  BY WriteRawBlockIs
<1> HIDE DEF w
<1> DEFINE Rest(v) == /\ v.options = r.options /\ v.index_block = r.index_block
                      /\ v.last_key = r.last_key /\ v.closed = r.closed
                      /\ v.num_entries = r.num_entries
                      /\ v.filter_block = r.filter_block
                      /\ v.data_block = EmptyBlock
                      /\ v.pending_handle = w.handle /\ v.handle = w.handle
<1>3. /\ IsRep(d) /\ Rest(d) /\ d.ok = w.ok /\ d.file = w.file /\ d.offset = w.offset
      /\ Clean(w) => Clean(d)
  <2>1. d = [options |-> w.options, offset |-> w.offset, ok |-> w.ok,
             data_block |-> EmptyBlock, index_block |-> w.index_block,
             last_key |-> w.last_key, num_entries |-> w.num_entries, closed
             |-> w.closed, filter_block |-> w.filter_block,
             pending_index_entry |-> w.pending_index_entry, pending_handle |->
             w.handle, handle |-> w.handle, file |-> w.file, ops |-> w.ops,
             fail_at |-> w.fail_at]
    <3>1. IsRep(w)
      BY <1>2
    <3> DEFINE h == w.handle
               b == EmptyBlock
    <3> HIDE DEF h, b
    <3>2. d = [w EXCEPT !.data_block = b, !.pending_handle = h]
      BY DEF h, b
    <3> HIDE DEF d
    <3> QED
      BY <3>1, <3>2 DEF IsRep, h, b
  <2> HIDE DEF d
  <2>2. /\ IsRep(d) /\ d.ok = w.ok /\ d.file = w.file /\ d.offset = w.offset
        /\ d.ops = w.ops /\ d.fail_at = w.fail_at
    BY <2>1 DEF IsRep
  <2>3. Rest(d)
    BY <1>2, <2>1 DEF SameBlocks
  <2> QED
    BY <2>2, <2>3 DEF Clean
<1> HIDE DEF d
<1>4. /\ IsRep(p) /\ Rest(p) /\ p.file = d.file /\ p.offset = d.offset
      /\ p.pending_index_entry = TRUE /\ (Clean(d) => Clean(p))
  <2>1. p = [options |-> d.options, offset |-> d.offset, ok |-> d.ok,
             data_block |-> d.data_block, index_block |-> d.index_block,
             last_key |-> d.last_key, num_entries |-> d.num_entries, closed
             |-> d.closed, filter_block |-> d.filter_block,
             pending_index_entry |-> TRUE, pending_handle |->
             d.pending_handle, handle |-> d.handle, file |-> d.file, ops |->
             d.ops, fail_at |-> d.fail_at]
    <3>1. IsRep(d)
      BY <1>3
    <3> DEFINE yes == TRUE
    <3> HIDE DEF yes
    <3>2. p = [d EXCEPT !.pending_index_entry = yes]
      BY DEF yes
    <3> HIDE DEF p
    <3>3. p = [options |-> d.options, offset |-> d.offset, ok |-> d.ok,
             data_block |-> d.data_block, index_block |-> d.index_block,
             last_key |-> d.last_key, num_entries |-> d.num_entries,
             closed |-> d.closed, filter_block |-> d.filter_block,
             pending_index_entry |-> yes, pending_handle |->
             d.pending_handle, handle |-> d.handle, file |-> d.file,
             ops |-> d.ops, fail_at |-> d.fail_at]
      BY <3>1, <3>2 DEF IsRep
    <3> QED
      BY <3>3 DEF yes
  <2> HIDE DEF p
  <2>2. /\ IsRep(p) /\ p.file = d.file /\ p.offset = d.offset
        /\ p.ops = d.ops /\ p.fail_at = d.fail_at
    BY <2>1 DEF IsRep
  <2>4. p.pending_index_entry = TRUE
    BY <2>1
  <2>3. Rest(p)
    BY <1>3, <2>1
  <2> QED
    BY <2>2, <2>3, <2>4 DEF Clean
<1> HIDE DEF p
<1>5. /\ IsRep(s) /\ SameBlocks(s, p) /\ s.offset = p.offset /\ s.handle = p.handle
      /\ s.ok => s.file = p.file \o <<>>
      /\ s.ok /\ Clean(p) => Clean(s)
  BY <1>4, FileAppendIs
<1> HIDE DEF s
<1>6. /\ IsRep(e) /\ Rest(e) /\ e.offset = w.offset
      /\ e.ok => w.ok /\ e.file = w.file \o <<>> /\ e.pending_index_entry = TRUE
      /\ e.ok /\ Clean(w) => Clean(e)
  BY <1>3, <1>4, <1>5 DEF SameBlocks
<1> HIDE DEF e
<1>7. f = [e EXCEPT !.filter_block = fb]
  BY <1>1 DEF StartFilter
<1>8. /\ fb = r.filter_block \/ fb = StartBlock(r.filter_block, e.offset)
      /\ r.options.filter_policy => fb = StartBlock(r.filter_block, e.offset)
  BY <1>6
<1> HIDE DEF fb
<1>9. /\ IsRep(f) /\ f.options = r.options /\ f.index_block = r.index_block
      /\ f.last_key = r.last_key /\ f.closed = r.closed
      /\ f.data_block = EmptyBlock
      /\ f.pending_handle = w.handle /\ f.handle = w.handle
      /\ f.filter_block = fb /\ f.ok = e.ok /\ f.file = e.file /\ f.offset = e.offset
      /\ f.num_entries = r.num_entries /\ f.pending_index_entry = e.pending_index_entry
      /\ f.ops = e.ops /\ f.fail_at = e.fail_at
  BY <1>6, <1>7 DEF IsRep
<1>10. f.ok => f.file = ((r.file \o contents) \o Trailer(contents)) \o <<>>
  BY <1>2, <1>6, <1>9
<1>11. f.ok => f.offset = r.offset + Len(contents) + kBlockTrailerSize
  BY <1>2, <1>6, <1>9
<1>12. f.ok => f.pending_index_entry = TRUE /\ (Clean(r) => Clean(f))
  BY <1>2, <1>6, <1>9 DEF Clean
<1> QED
  BY <1>2, <1>8, <1>9, <1>10, <1>11, <1>12 DEF Flushed

-----------------------------------------------------------------------------
(* Blocks in the file.                                                     *)

\* The numbers of a block fit into a fixed32.
SmallBlock(b) == Len(b.buffer) < Max32 /\ Len(b.restarts) < Max32

\* The handle points at a finished block with these entries and its trailer.
Stored(file, h, es) ==
  \E b : /\ BlockInv(b, es) /\ SmallBlock(b)
         /\ IsHandle(h) /\ h.size = Len(BlockFinish(b))
         /\ Piece(file, h.offset, BlockFinish(b))
         /\ Piece(file, h.offset + h.size, Trailer(BlockFinish(b)))

\* The trailer of a block has five bytes.
LEMMA TrailerType ==
  ASSUME NEW contents, IsSeq(contents)
  PROVE  Trailer(contents) \in Seq(Nat) /\ Len(Trailer(contents)) = 5
<1> DEFINE d == PutFixed32(Len(contents))
<1>1. d \in Seq(Nat) /\ Len(d) = 4
  BY SeqLen, Fixed32Type
<1> HIDE DEF d
<1> DEFINE z == <<0>>
<1>2. z \in Seq(Nat) /\ Len(z) = 1
  OBVIOUS
<1> HIDE DEF z
<1>3. z \o d \in Seq(Nat) /\ Len(z \o d) = Len(z) + Len(d)
  BY <1>1, <1>2, ConcatProperties
<1> QED
  BY <1>1, <1>2, <1>3 DEF Trailer, d, z

\* The contents of a block are a string.
LEMMA BlockInvFinish ==
  ASSUME NEW b, NEW es, BlockInv(b, es)
  PROVE  /\ BlockFinish(b) \in Seq(Nat) /\ IsSeq(BlockFinish(b))
         /\ Len(BlockFinish(b)) \in Nat
<1>1. BlockType(b)
  BY DEF BlockInv
<1>2. BlockFinish(b) \in Seq(Nat)
  BY <1>1, FinishParts
<1> QED
  BY <1>2, SeqOfNat, LenProperties

\* A block stays in a file that grows.
LEMMA StoredKept ==
  ASSUME NEW file, NEW c, Grown(c, file), NEW h, NEW es, Stored(file, h, es)
  PROVE  Stored(c, h, es)
<1>1. PICK b : /\ BlockInv(b, es) /\ SmallBlock(b)
               /\ IsHandle(h) /\ h.size = Len(BlockFinish(b))
               /\ Piece(file, h.offset, BlockFinish(b))
               /\ Piece(file, h.offset + h.size, Trailer(BlockFinish(b)))
  BY DEF Stored
<1> DEFINE x == BlockFinish(b)
           y == Trailer(x)
           p == h.offset
           q == h.offset + h.size
<1>2. IsSeq(x) /\ Len(x) \in Nat
  BY <1>1, BlockInvFinish
<1>3. Len(y) \in Nat
  BY <1>2, TrailerType
<1>4. p \in Nat /\ q \in Nat /\ Piece(file, p, x) /\ Piece(file, q, y)
  BY <1>1 DEF IsHandle
<1> HIDE DEF x, y, p, q
<1>5. Piece(c, p, x) /\ Piece(c, q, y)
  BY <1>2, <1>3, <1>4, PieceKept
<1> QED
  BY <1>1, <1>5 DEF Stored, p, q, x, y

\* Reading a piece of a file.
LEMMA PieceOfFile ==
  ASSUME NEW file, NEW x \in Seq(Nat), NEW at \in Nat, Piece(file, at, x)
  PROVE  SubSeq(file, at + 1, at + Len(x)) = x
<1>1. SameBytes(file, at, x)
  BY DEF Piece, SameBytes
<1> QED
  BY <1>1, BytesRead

\* A stored block is read back, and its trailer is the one for the contents.
LEMMA StoredRead ==
  ASSUME NEW h, NEW es, Stored(rep.file, h, es)
  PROVE  /\ Holds(ReadBlock(h), es)
         /\ Trailer(ReadBlock(h)) =
              ReadBlock([offset |-> h.offset + h.size, size |-> kBlockTrailerSize])
<1>1. PICK b : /\ BlockInv(b, es) /\ SmallBlock(b)
               /\ IsHandle(h) /\ h.size = Len(BlockFinish(b))
               /\ Piece(rep.file, h.offset, BlockFinish(b))
               /\ Piece(rep.file, h.offset + h.size, Trailer(BlockFinish(b)))
  BY DEF Stored
<1> DEFINE x == BlockFinish(b)
           y == Trailer(x)
           p == h.offset
           q == h.offset + h.size
           file == rep.file
<1>2. x \in Seq(Nat) /\ IsSeq(x)
  BY <1>1, BlockInvFinish
<1>3. y \in Seq(Nat) /\ Len(y) = 5
  BY <1>2, TrailerType
<1>4. p \in Nat /\ q \in Nat /\ Piece(file, p, x) /\ Piece(file, q, y)
  BY <1>1 DEF IsHandle
<1>5. q = p + Len(x)
  BY <1>1
<1>6. Holds(x, es)
  <2>1. /\ Entries(BlockFinish(b)) = es
        /\ \A i \in 0 .. NumRestarts(BlockFinish(b)) - 1 :
             es # <<>> => WholeKeyAt(BlockFinish(b), GetRestartPoint(BlockFinish(b), i))
    BY <1>1, BlockReadBack DEF SmallBlock
  <2> QED
    BY <2>1 DEF Holds
<1> HIDE DEF x, y, p, q, file
<1>7. SubSeq(file, p + 1, p + Len(x)) = x /\ SubSeq(file, q + 1, q + Len(y)) = y
  BY <1>2, <1>3, <1>4, PieceOfFile
<1>8. ReadBlock(h) = x
  <2>1. ReadBlock(h) = SubSeq(file, p + 1, q)
    BY DEF ReadBlock, file, p, q
  <2> QED
    BY <1>5, <1>7, <2>1
<1>9. ReadBlock([offset |-> h.offset + h.size, size |-> kBlockTrailerSize]) = y
  <2>1. ReadBlock([offset |-> h.offset + h.size, size |-> kBlockTrailerSize]) =
          SubSeq(file, q + 1, q + 5)
    BY DEF ReadBlock, file, q, kBlockTrailerSize
  <2> QED
    BY <1>3, <1>7, <2>1
<1> QED
  BY <1>6, <1>8, <1>9 DEF y

\* Contents and trailer appended to a file are pieces of it.
LEMMA WriteStores ==
  ASSUME NEW file, IsSeq(file), NEW x, IsSeq(x), NEW c,
         c = ((file \o x) \o Trailer(x)) \/ c = (((file \o x) \o Trailer(x)) \o <<>>)
  PROVE  /\ IsSeq(c) /\ Grown(c, file) /\ Len(c) = Len(file) + Len(x) + 5
         /\ Piece(c, Len(file), x) /\ Piece(c, Len(file) + Len(x), Trailer(x))
<1> DEFINE t == Trailer(x)
           a == file \o x
           d == a \o t
           e == d \o <<>>
<1>1. Len(file) \in Nat /\ Len(x) \in Nat
  BY SeqLen
<1>2. t \in Seq(Nat) /\ Len(t) = 5
  BY TrailerType
<1>3. IsSeq(t) /\ IsSeq(<<>>) /\ Len(<<>>) = 0
  BY <1>2, EmptySeq DEF IsSeq
<1>4. c = d \/ c = e
  OBVIOUS
<1> HIDE DEF t
<1>5. IsSeq(a) /\ Len(a) = Len(file) + Len(x) /\ Grown(a, file) /\ Piece(a, Len(file), x)
  BY SeqConcat
<1> HIDE DEF a
<1>6. IsSeq(d) /\ Len(d) = Len(a) + Len(t) /\ Grown(d, a) /\ Piece(d, Len(a), t)
  BY <1>3, <1>5, SeqConcat
<1> HIDE DEF d
<1>7. IsSeq(e) /\ Len(e) = Len(d) + Len(<<>>) /\ Grown(e, d)
  BY <1>3, <1>6, SeqConcat
<1> HIDE DEF e
<1>8. IsSeq(c) /\ Grown(c, d) /\ Len(c) = Len(d)
  <2>1. Len(d) \in Nat
    BY <1>6, SeqLen
  <2>2. Grown(d, d)
    BY <2>1 DEF Grown
  <2> QED
    BY <1>3, <1>4, <1>6, <1>7, <2>1, <2>2
<1>9. Grown(d, file) /\ Grown(c, a) /\ Grown(c, file)
  BY <1>5, <1>6, <1>8, GrownTwice
<1>10. Piece(c, Len(file), x)
  BY <1>1, <1>5, <1>9, PieceKept
<1>11. Piece(c, Len(a), t)
  <2> DEFINE la == Len(a)
  <2>1. la \in Nat /\ Len(t) \in Nat /\ Piece(d, la, t)
    BY <1>1, <1>2, <1>5, <1>6
  <2> HIDE DEF la
  <2>2. Piece(c, la, t)
    BY <1>8, <2>1, PieceKept
  <2> QED
    BY <2>2 DEF la
<1> QED
  BY <1>1, <1>2, <1>5, <1>6, <1>8, <1>9, <1>10, <1>11 DEF t

-----------------------------------------------------------------------------
(* The calls of the client keep the Rep well formed.                       *)

\* A Rep whose status is ok and that is not closed.
RepInv(r) ==
  /\ IsRep(r) /\ r.options \in OptionSets
  /\ IsSeq(r.file) /\ r.offset = Len(r.file)
  /\ IndexType(r.index_block) /\ r.last_key \in Seq(Nat)
  /\ IsHandle(r.pending_handle) /\ FilterInv(r.filter_block)

\* Numbers of the format have 32 bits: a block that is one entry over its size fits.
SizesFit ==
  \A o \in OptionSets, k \in Keys, v \in Values :
    o.block_size + Len(k) + Len(v) + 27 <= Max32

\* The data block holds the entries es, and is no larger than the options of some moment
\* allow.
BlockGood(b, es) ==
  /\ BlockInv(b, es) /\ SmallBlock(b)
  /\ \E o \in OptionSets : CurrentSizeEstimate(b) <= o.block_size + 8

\* A bound is a number.
LEMMA Max32Nat == Max32 \in Nat
BY DEF Max32

\* The options that the proofs need are numbers.
LEMMA OptionsType ==
  ASSUME NEW o \in OptionSets
  PROVE  o.block_size \in Nat /\ o.block_restart_interval \in Nat \ {0}
BY TableAssumption

\* Bytes are numbers.
LEMMA BytesType ==
  ASSUME NEW s \in Seq(0..255)
  PROVE  s \in Seq(Nat)
<1>1. 0..255 \subseteq Nat
  OBVIOUS
<1> QED
  BY <1>1, SeqMonotonic

\* So are those of keys and values.
LEMMA InputTypes ==
  /\ \A k \in Keys : k \in Seq(Nat) /\ Len(k) \in Nat
  /\ \A v \in Values : v \in Seq(Nat) /\ Len(v) \in Nat
  /\ FilterName \in Seq(Nat)
<1>1. /\ \A k \in Keys : k \in Seq(0..255)
      /\ \A v \in Values : v \in Seq(0..255)
      /\ FilterName \in Seq(0..255)
  BY TableAssumption
<1> QED
  BY <1>1, BytesType, LenProperties

\* Flush() keeps the Rep well formed, and the block is in the file.
LEMMA FlushKeeps ==
  ASSUME NEW r, RepInv(r), r.ok, NEW es, BlockInv(r.data_block, es),
         SmallBlock(r.data_block), NEW f, f = FlushBlock(r)
  PROVE  /\ IsRep(f) /\ f.options = r.options /\ f.closed = r.closed
         /\ r.data_block = EmptyBlock => f = r
         /\ r.data_block # EmptyBlock => f.data_block = EmptyBlock
         /\ f.ok => /\ RepInv(f) /\ Grown(f.file, r.file)
                    /\ r.data_block # EmptyBlock =>
                         Stored(f.file, f.pending_handle, es)
<1>1. CASE r.data_block = EmptyBlock
  <2>1. f = r
    BY <1>1 DEF FlushBlock
  <2>2. Grown(r.file, r.file)
    BY SeqLen DEF RepInv, Grown
  <2> QED
    BY <1>1, <2>1, <2>2 DEF RepInv
<1>2. CASE r.data_block # EmptyBlock
  <2> DEFINE b == r.data_block
             x == BlockFinish(b)
             file == r.file
             h == [offset |-> r.offset, size |-> Len(x)]
  <2>1. /\ IsRep(f) /\ f.options = r.options /\ f.index_block = r.index_block
        /\ f.last_key = r.last_key /\ f.closed = r.closed
        /\ f.num_entries = r.num_entries /\ f.data_block = EmptyBlock
        /\ f.pending_handle = h
        /\ f.handle = f.pending_handle
        /\ f.filter_block = r.filter_block
             \/ f.filter_block = StartBlock(r.filter_block, f.offset)
        /\ f.ok => /\ f.file = ((file \o x) \o Trailer(x)) \o <<>>
                   /\ f.offset = r.offset + Len(x) + kBlockTrailerSize
                   /\ f.pending_index_entry = TRUE /\ (Clean(r) => Clean(f))
    <3>1. IsRep(r) /\ x = BlockFinish(r.data_block)
      BY DEF RepInv
    <3>2. r.ok /\ f = FlushBlock(r) /\ r.data_block # EmptyBlock
      BY <1>2
    <3> HIDE DEF x
    <3>3. Flushed(f, r, x)
      BY ONLY <3>1, <3>2, FlushBlockIs
    <3> QED
      BY ONLY <3>3 DEF h, file, Flushed
  <2>2. BlockInv(b, es) /\ SmallBlock(b)
    OBVIOUS
  <2> HIDE DEF b
  <2>3. IsSeq(x) /\ Len(x) \in Nat
    BY <2>2, BlockInvFinish
  <2>4. IsSeq(file) /\ r.offset = Len(file) /\ Len(file) \in Nat
    BY SeqLen DEF RepInv
  <2> HIDE DEF file
  <2>5. ASSUME f.ok
        PROVE  RepInv(f) /\ Grown(f.file, file) /\ Stored(f.file, f.pending_handle, es)
    <3> DEFINE c == f.file
    <3>1. \/ c = ((file \o x) \o Trailer(x))
          \/ c = (((file \o x) \o Trailer(x)) \o <<>>)
      BY <2>1, <2>5
    <3> HIDE DEF c, x
    <3>2. /\ IsSeq(c) /\ Grown(c, file) /\ Len(c) = Len(file) + Len(x) + 5
          /\ Piece(c, Len(file), x) /\ Piece(c, Len(file) + Len(x), Trailer(x))
      BY <2>3, <2>4, <3>1, WriteStores
    <3>3. f.offset = Len(c) /\ f.offset \in Nat
      BY <2>1, <2>3, <2>4, <2>5, <3>2 DEF kBlockTrailerSize
    <3>4. h.offset = Len(file) /\ h.size = Len(x)
      BY <2>4
    <3> HIDE DEF h
    <3>5. IsHandle(h)
      BY <2>3, <2>4, <3>4 DEF IsHandle
    <3>6. Stored(c, h, es)
      BY <2>2, <3>2, <3>4, <3>5 DEF Stored, x
    <3>7. FilterInv(f.filter_block)
      <4> DEFINE g == r.filter_block
      <4>1. FilterInv(g)
        BY DEF RepInv
      <4> HIDE DEF g
      <4>2. FilterInv(StartBlock(g, f.offset))
        BY <3>3, <4>1, StartBlockKeeps
      <4> QED
        BY <2>1, <4>1, <4>2 DEF g
    <3>8. RepInv(f)
      BY <2>1, <3>2, <3>3, <3>5, <3>7 DEF RepInv, c
    <3> QED
      BY <2>1, <3>2, <3>6, <3>8 DEF c
  <2> QED
    BY <1>2, <2>1, <2>5 DEF file
<1> QED
  BY <1>1, <1>2

\* An index entry keeps the Rep well formed.
LEMMA IndexEntryKeeps ==
  ASSUME NEW r, RepInv(r), NEW sep \in Seq(Nat), NEW a, a = AddIndexEntry(r, sep)
  PROVE  /\ RepInv(a) /\ a.data_block = r.data_block /\ a.file = r.file /\ a.ok = r.ok
         /\ a.closed = r.closed /\ a.options = r.options
         /\ a.pending_handle = r.pending_handle
<1>1. CASE ~r.pending_index_entry
  BY <1>1 DEF AddIndexEntry
<1>2. CASE r.pending_index_entry
  <2> DEFINE i == r.index_block
             v == EncodeHandle(r.pending_handle)
             n == BlockAdd(i, sep, v, 1)
  <2>1. a = [r EXCEPT !.last_key = sep, !.index_block = n]
    BY <1>2 DEF AddIndexEntry, RepInv, IsRep
  <2>2. IndexType(i) /\ v \in Seq(Nat)
    BY EncodeHandleType DEF RepInv
  <2> HIDE DEF i, v
  <2>3. IndexType(n)
    BY <2>2, IndexAdd
  <2> HIDE DEF n
  <2>4. IsRep(r)
    BY DEF RepInv
  <2>5. a = [options |-> r.options, offset |-> r.offset, ok |-> r.ok,
             data_block |-> r.data_block, index_block |-> n,
             last_key |-> sep, num_entries |-> r.num_entries, closed |-> r.closed,
             filter_block |-> r.filter_block,
             pending_index_entry |-> r.pending_index_entry,
             pending_handle |-> r.pending_handle, handle |-> r.handle,
             file |-> r.file, ops |-> r.ops, fail_at |-> r.fail_at]
    BY <2>1, <2>4 DEF IsRep
  <2>6. /\ IsRep(a) /\ a.data_block = r.data_block /\ a.file = r.file /\ a.ok = r.ok
        /\ a.closed = r.closed /\ a.options = r.options /\ a.offset = r.offset
        /\ a.pending_handle = r.pending_handle /\ a.filter_block = r.filter_block
        /\ a.index_block = n /\ a.last_key = sep
    BY <2>5 DEF IsRep
  <2> QED
    BY <2>3, <2>6 DEF RepInv
<1> QED
  BY <1>1, <1>2

\* FilterBlockBuilder::AddKey() keeps the fields well formed.
LEMMA AddKeyKeeps ==
  ASSUME NEW f, FilterInv(f), NEW key \in Seq(Nat)
  PROVE  FilterInv(AddKey(f, key))
<1> DEFINE u == ExtractUserKey(key)
           k == f.keys
           n == Append(k, u)
           o == f.filter_offsets
           s == f.result
<1>1. AddKey(f, key) = [keys |-> n, filter_offsets |-> o, result |-> s]
  <2>1. f = [keys |-> k, filter_offsets |-> o, result |-> s]
    BY DEF FilterInv
  <2>2. AddKey(f, key) = [f EXCEPT !.keys = n]
    BY DEF AddKey
  <2> HIDE DEF n, k, o, s
  <2> QED
    BY <2>1, <2>2
<1>2. IsSeq(k)
  BY DEF FilterInv
<1> HIDE DEF k, u
<1>3. IsSeq(n)
  BY <1>2, SeqAppend
<1> HIDE DEF n
<1> QED
  BY <1>1, <1>3 DEF FilterInv

\* Add() to the data block and the filter keeps the Rep well formed.
LEMMA AddToBlockKeeps ==
  ASSUME NEW r, RepInv(r), NEW key \in Seq(Nat), NEW value, NEW a,
         a = AddToBlock(r, key, value)
  PROVE  /\ RepInv(a) /\ a.file = r.file /\ a.ok = r.ok
         /\ a.closed = r.closed /\ a.options = r.options
         /\ a.data_block =
              BlockAdd(r.data_block, key, value, r.options.block_restart_interval)
<1> DEFINE fb == IF r.options.filter_policy THEN AddKey(r.filter_block, key)
                 ELSE r.filter_block
           ne == r.num_entries + 1
           n == BlockAdd(r.data_block, key, value, r.options.block_restart_interval)
<1>1. a = [r EXCEPT !.filter_block = fb, !.last_key = key, !.num_entries = ne,
                    !.data_block = n]
  BY DEF AddToBlock, RepInv, IsRep
<1>2. FilterInv(fb)
  <2> DEFINE g == r.filter_block
  <2>1. FilterInv(g)
    BY DEF RepInv
  <2>2. fb = g \/ fb = AddKey(g, key)
    OBVIOUS
  <2> HIDE DEF g, fb
  <2> QED
    BY <2>1, <2>2, AddKeyKeeps
<1> HIDE DEF fb, ne, n
<1>3. IsRep(r)
  BY DEF RepInv
<1>4. a = [options |-> r.options, offset |-> r.offset, ok |-> r.ok,
           data_block |-> n, index_block |-> r.index_block,
           last_key |-> key, num_entries |-> ne, closed |-> r.closed,
           filter_block |-> fb,
           pending_index_entry |-> r.pending_index_entry,
           pending_handle |-> r.pending_handle, handle |-> r.handle,
           file |-> r.file, ops |-> r.ops, fail_at |-> r.fail_at]
  BY <1>1, <1>3 DEF IsRep
<1>5. /\ IsRep(a) /\ a.data_block = n /\ a.file = r.file /\ a.ok = r.ok
      /\ a.closed = r.closed /\ a.options = r.options /\ a.offset = r.offset
      /\ a.pending_handle = r.pending_handle /\ a.filter_block = fb
      /\ a.index_block = r.index_block /\ a.last_key = key
  BY <1>4 DEF IsRep
<1>6. RepInv(a)
  BY <1>2, <1>5 DEF RepInv
<1> QED
  BY <1>5, <1>6 DEF n

\* A block that is one entry over its size is small enough for the format.
LEMMA SizeOfBlock ==
  ASSUME SizesFit, NEW b, BlockType(b), NEW o \in OptionSets, NEW key \in Keys,
         NEW value \in Values,
         CurrentSizeEstimate(b) <= o.block_size + 8 + Len(key) + Len(value) + 19
  PROVE  SmallBlock(b)
<1> DEFINE n == Len(b.buffer)
           m == Len(b.restarts)
<1>1. n \in Nat /\ m \in Nat
  BY LenProperties DEF BlockType
<1>2. n + 4 * m + 4 <= o.block_size + 8 + Len(key) + Len(value) + 19
  BY DEF CurrentSizeEstimate
<1>3. o.block_size + Len(key) + Len(value) + 27 <= Max32
  BY DEF SizesFit
<1>4. Len(key) \in Nat /\ Len(value) \in Nat /\ o.block_size \in Nat /\ Max32 \in Nat
  BY InputTypes, OptionsType, Max32Nat
<1> HIDE DEF n, m
<1>5. n < Max32 /\ m < Max32
  BY <1>1, <1>2, <1>3, <1>4
<1> QED
  BY <1>5 DEF SmallBlock, n, m

\* The entries of a block after Add().
WithEntry(es, key, value) == Append(es, <<key, value>>)

\* What Add() left: the block goes on, or it is in the file.
Added(f, r, new) ==
  /\ IsRep(f) /\ f.closed = r.closed
  /\ f.ok => /\ RepInv(f) /\ Grown(f.file, r.file)
             /\ f.data_block # EmptyBlock => BlockGood(f.data_block, new)
             /\ f.data_block = EmptyBlock => Stored(f.file, f.pending_handle, new)

\* Add(), with all its steps.
LEMMA AddKeeps ==
  ASSUME SizesFit, NEW r, RepInv(r), r.ok, NEW es, BlockGood(r.data_block, es),
         NEW key \in Keys, NEW value \in Values
  PROVE  Added(AddEntry(r, key, value), r, WithEntry(es, key, value))
<1> DEFINE f == AddEntry(r, key, value)
           new == WithEntry(es, key, value)
<1> SUFFICES Added(f, r, new)
  OBVIOUS
<1>1. key \in Seq(Nat) /\ value \in Seq(Nat) /\ Len(key) \in Nat /\ Len(value) \in Nat
  BY InputTypes
<1> DEFINE sep == FindShortestSeparator(r.last_key, key)
           a == AddIndexEntry(r, sep)
           c == AddToBlock(a, key, value)
           old == r.data_block
           o == r.options
           interval == o.block_restart_interval
           b == BlockAdd(old, key, value, interval)
<1>2. f = FlushIfFull(c)
  BY DEF AddEntry
<1> HIDE DEF f
<1>3. sep \in Seq(Nat)
  BY <1>1, SeparatorType DEF RepInv
<1> HIDE DEF sep
<1>4. /\ RepInv(a) /\ a.data_block = r.data_block /\ a.file = r.file /\ a.ok = r.ok
      /\ a.closed = r.closed /\ a.options = r.options
      /\ a.pending_handle = r.pending_handle
  BY <1>3, IndexEntryKeeps
<1> HIDE DEF a
<1>5. /\ RepInv(c) /\ c.file = a.file /\ c.ok = a.ok
      /\ c.closed = a.closed /\ c.options = a.options
      /\ c.data_block =
           BlockAdd(a.data_block, key, value, a.options.block_restart_interval)
  <2>1. c = AddToBlock(a, key, value)
    OBVIOUS
  <2>2. RepInv(a) /\ key \in Seq(Nat)
    BY <1>1, <1>4
  <2> HIDE DEF c
  <2> QED
    BY <2>1, <2>2, AddToBlockKeeps
<1> HIDE DEF c
<1>6. c.data_block = b /\ c.options = o /\ c.file = r.file /\ c.closed = r.closed /\ c.ok
  BY <1>4, <1>5
<1>7. o \in OptionSets
  BY DEF RepInv
<1>8. BlockInv(old, es) /\ BlockType(old)
  BY DEF BlockGood, BlockInv
<1>9. PICK oo \in OptionSets : CurrentSizeEstimate(old) <= oo.block_size + 8
  BY DEF BlockGood
<1> HIDE DEF o, old
<1>10. interval \in Nat \ {0} /\ interval \in Nat /\ o.block_size \in Nat /\ oo.block_size \in Nat
  BY <1>7, <1>9, OptionsType
<1>11. Len(key) < Max32 /\ Len(value) < Max32
  <2>1. o.block_size + Len(key) + Len(value) + 27 <= Max32
    BY <1>7 DEF SizesFit
  <2> QED
    BY <1>1, <1>10, <2>1, Max32Nat
<1> HIDE DEF interval
<1>12. BlockInv(b, new)
  BY <1>1, <1>8, <1>10, <1>11, BlockAdded DEF WithEntry
<1> HIDE DEF new
<1>13. /\ BlockType(b)
       /\ CurrentSizeEstimate(b) <= CurrentSizeEstimate(old) + Len(key) + Len(value) + 19
       /\ b.buffer # <<>>
  BY <1>1, <1>8, <1>10, <1>11, BlockAddSize
<1> HIDE DEF b
<1>14. CurrentSizeEstimate(b) \in Nat /\ CurrentSizeEstimate(old) \in Nat
  BY <1>8, <1>13, LenProperties DEF CurrentSizeEstimate, BlockType
<1>15. SmallBlock(b)
  <2>1. CurrentSizeEstimate(b) <= oo.block_size + 8 + Len(key) + Len(value) + 19
    BY <1>1, <1>9, <1>10, <1>13, <1>14
  <2> QED
    BY <1>9, <1>13, <2>1, SizeOfBlock
<1>16. b # EmptyBlock
  BY <1>13 DEF EmptyBlock
<1>17. CASE CurrentSizeEstimate(b) >= o.block_size
  <2>1. f = FlushBlock(c)
    BY <1>2, <1>6, <1>17 DEF FlushIfFull
  <2>2. BlockInv(c.data_block, new) /\ SmallBlock(c.data_block) /\ c.data_block # EmptyBlock
    BY <1>6, <1>12, <1>15, <1>16
  <2>3. /\ IsRep(f) /\ f.options = c.options /\ f.closed = c.closed
        /\ c.data_block = EmptyBlock => f = c
        /\ c.data_block # EmptyBlock => f.data_block = EmptyBlock
        /\ f.ok => /\ RepInv(f) /\ Grown(f.file, c.file)
                   /\ c.data_block # EmptyBlock =>
                        Stored(f.file, f.pending_handle, new)
    BY <1>5, <1>6, <2>1, <2>2, FlushKeeps
  <2> QED
    BY <1>6, <2>2, <2>3 DEF Added
<1>18. CASE ~(CurrentSizeEstimate(b) >= o.block_size)
  <2>1. f = c
    BY <1>2, <1>6, <1>18 DEF FlushIfFull
  <2>2. CurrentSizeEstimate(b) <= o.block_size + 8
    BY <1>10, <1>14, <1>18
  <2>3. BlockGood(b, new)
    BY <1>7, <1>12, <1>15, <2>2 DEF BlockGood
  <2>4. Grown(r.file, r.file)
    BY SeqLen DEF RepInv, Grown
  <2>5. IsRep(c)
    BY <1>5 DEF RepInv
  <2> QED
    BY <1>5, <1>6, <1>16, <2>1, <2>3, <2>4, <2>5 DEF Added
<1> QED
  BY <1>17, <1>18

\* WriteRawBlock() keeps the Rep well formed.
LEMMA RawBlockKeeps ==
  ASSUME NEW r, RepInv(r), NEW x, IsSeq(x), NEW w, w = WriteRawBlock(r, x)
  PROVE  /\ IsRep(w) /\ SameBlocks(w, r) /\ IsHandle(w.handle)
         /\ w.ok => RepInv(w) /\ Grown(w.file, r.file)
<1>1. /\ IsRep(w) /\ SameBlocks(w, r)
      /\ w.handle = [offset |-> r.offset, size |-> Len(x)]
      /\ w.ok => /\ w.file = (r.file \o x) \o Trailer(x)
                 /\ w.offset = r.offset + Len(x) + kBlockTrailerSize
  <2>1. IsRep(r)
    BY DEF RepInv
  <2> QED
    BY <2>1, WriteRawBlockIs
<1> DEFINE file == r.file
<1>2. IsSeq(file) /\ r.offset = Len(file) /\ Len(file) \in Nat /\ Len(x) \in Nat
  BY SeqLen DEF RepInv
<1> HIDE DEF file
<1>3. IsHandle(w.handle)
  BY <1>1, <1>2 DEF IsHandle
<1>4. ASSUME w.ok
      PROVE  RepInv(w) /\ Grown(w.file, file)
  <2> DEFINE c == w.file
  <2>1. c = ((file \o x) \o Trailer(x)) \/ c = (((file \o x) \o Trailer(x)) \o <<>>)
    BY <1>1, <1>4 DEF file
  <2> HIDE DEF c
  <2>2. /\ IsSeq(c) /\ Grown(c, file) /\ Len(c) = Len(file) + Len(x) + 5
        /\ Piece(c, Len(file), x) /\ Piece(c, Len(file) + Len(x), Trailer(x))
    BY <1>2, <2>1, WriteStores
  <2>3. w.offset = Len(c)
    BY <1>1, <1>2, <1>4, <2>2 DEF kBlockTrailerSize
  <2>4. RepInv(w)
    BY <1>1, <2>2, <2>3 DEF RepInv, SameBlocks, c
  <2> QED
    BY <2>2, <2>4 DEF c
<1> QED
  BY <1>1, <1>3, <1>4 DEF file

\* What Finish() leaves of the Rep that FlushBlock() left.
Ended(w, r) ==
  /\ IsRep(w) /\ w.data_block = r.data_block /\ w.closed = r.closed
  /\ w.pending_handle = r.pending_handle /\ w.options = r.options
  /\ w.ok => IsSeq(w.file) /\ Grown(w.file, r.file)

\* The last part of Finish(): index block and footer.
LEMMA WriteFooterKeeps ==
  ASSUME NEW r, RepInv(r), NEW w, w = WriteFooter(r)
  PROVE  Ended(w, r)
<1> DEFINE sep == FindShortSuccessor(r.last_key)
           a == AddIndexEntry(r, sep)
           i == IndexOf(r)
           b == i.index_block
           x == WriteRawBlock(i, BlockFinish(b))
           y == WriteIndex(i)
           foot == Footer(r.handle, y.handle)
           z == FileAppend(y, foot)
           e == [z EXCEPT !.offset = z.offset + kEncodedLength]
<1>1. w = IF y.ok THEN (IF z.ok THEN e ELSE z) ELSE y
  BY DEF WriteFooter, IfOk
<1>2. sep \in Seq(Nat)
  BY SuccessorType DEF RepInv
<1>3. i = [a EXCEPT !.pending_index_entry = FALSE]
  BY DEF IndexOf
<1> HIDE DEF sep
<1>4. /\ RepInv(a) /\ a.data_block = r.data_block /\ a.file = r.file /\ a.ok = r.ok
      /\ a.closed = r.closed /\ a.options = r.options
      /\ a.pending_handle = r.pending_handle
  BY <1>2, IndexEntryKeeps
<1> HIDE DEF a, i
<1>5. /\ RepInv(i) /\ i.data_block = r.data_block /\ i.file = r.file
      /\ i.closed = r.closed /\ i.pending_handle = r.pending_handle
      /\ i.options = r.options
  <2>1. IsRep(a)
    BY <1>4 DEF RepInv
  <2> DEFINE no == FALSE
  <2>2. i = [a EXCEPT !.pending_index_entry = no]
    BY <1>3
  <2> HIDE DEF no
  <2>3. i = [options |-> a.options, offset |-> a.offset, ok |-> a.ok,
             data_block |-> a.data_block, index_block |-> a.index_block,
             last_key |-> a.last_key, num_entries |-> a.num_entries, closed |-> a.closed,
             filter_block |-> a.filter_block,
             pending_index_entry |-> no,
             pending_handle |-> a.pending_handle, handle |-> a.handle,
             file |-> a.file, ops |-> a.ops, fail_at |-> a.fail_at]
    BY <2>1, <2>2 DEF IsRep
  <2>4. /\ IsRep(i) /\ i.options = a.options /\ i.offset = a.offset
        /\ i.data_block = a.data_block /\ i.index_block = a.index_block
        /\ i.last_key = a.last_key /\ i.closed = a.closed
        /\ i.filter_block = a.filter_block /\ i.pending_handle = a.pending_handle
        /\ i.file = a.file
    BY <2>3 DEF IsRep
  <2>5. RepInv(i)
    BY <1>4, <2>4 DEF RepInv
  <2> QED
    BY <1>4, <2>4, <2>5
<1>6. BlockFinish(b) \in Seq(Nat)
  BY <1>5, IndexFinishType DEF RepInv
<1>7. IsSeq(BlockFinish(b))
  BY <1>6, SeqOfNat
<1>8. y = [x EXCEPT !.index_block = EmptyBlock]
  BY DEF WriteIndex
<1> HIDE DEF b
<1>9. /\ IsRep(x) /\ SameBlocks(x, i) /\ IsHandle(x.handle)
      /\ x.ok => RepInv(x) /\ Grown(x.file, i.file)
  BY <1>5, <1>7, RawBlockKeeps
<1> HIDE DEF x, y
<1>10. /\ IsRep(y) /\ y.data_block = x.data_block /\ y.closed = x.closed
       /\ y.pending_handle = x.pending_handle /\ y.ok = x.ok /\ y.file = x.file
       /\ y.options = x.options
  <2>1. IsRep(x)
    BY <1>9
  <2> DEFINE no == EmptyBlock
  <2>2. y = [x EXCEPT !.index_block = no]
    BY <1>8
  <2> HIDE DEF no
  <2> QED
    BY <2>1, <2>2 DEF IsRep
<1>11. Ended(y, r)
  BY <1>5, <1>9, <1>10 DEF Ended, SameBlocks, RepInv
<1> HIDE DEF foot, z
<1>12. /\ IsRep(z) /\ SameBlocks(z, y) /\ z.offset = y.offset /\ z.handle = y.handle
       /\ z.ok => z.file = y.file \o foot
  BY <1>10, FileAppendIs DEF z
<1>13. ASSUME y.ok
       PROVE  Ended(z, r)
  <2> DEFINE s == y.file
             t == s \o foot
  <2>1. IsSeq(s) /\ Grown(s, r.file)
    BY <1>11, <1>13 DEF Ended
  <2>2. IsSeq(foot)
    BY FooterSeq DEF foot
  <2> HIDE DEF s
  <2>3. IsSeq(t) /\ Grown(t, s)
    BY <2>1, <2>2, SeqConcat
  <2> HIDE DEF t
  <2>4. Grown(t, r.file)
    BY <2>1, <2>3, GrownTwice
  <2>5. z.ok => z.file = t
    BY <1>12 DEF t, s
  <2> QED
    BY <1>11, <1>12, <2>3, <2>4, <2>5 DEF Ended, SameBlocks
<1>14. /\ IsRep(e) /\ e.data_block = z.data_block /\ e.closed = z.closed
       /\ e.pending_handle = z.pending_handle /\ e.ok = z.ok /\ e.file = z.file
       /\ e.options = z.options
  <2> DEFINE off == z.offset + kEncodedLength
  <2>1. e = [z EXCEPT !.offset = off]
    OBVIOUS
  <2> HIDE DEF off, e
  <2> QED
    BY <1>12, <2>1 DEF IsRep
<1> HIDE DEF e
<1>15. y.ok => Ended(e, r)
  BY <1>13, <1>14 DEF Ended
<1> QED
  BY <1>1, <1>11, <1>13, <1>15

\* Two parts of Finish(), one after the other.
LEMMA EndedTwice ==
  ASSUME NEW a, NEW b, NEW c, Ended(b, a), b.ok, Ended(c, b)
  PROVE  Ended(c, a)
BY GrownTwice DEF Ended

\* IsRep and Boolean fields: the Rep with closed set.
LEMMA Closes ==
  ASSUME NEW r, IsRep(r), NEW d, d = [r EXCEPT !.closed = TRUE]
  PROVE  /\ IsRep(d) /\ d.closed = TRUE /\ d.ok = r.ok /\ d.file = r.file
         /\ d.data_block = r.data_block /\ d.pending_handle = r.pending_handle
         /\ d.options = r.options /\ d.filter_block = r.filter_block
         /\ RepInv(r) => RepInv(d)
<1> DEFINE yes == TRUE
<1>1. d = [r EXCEPT !.closed = yes]
  OBVIOUS
<1> HIDE DEF yes
<1>2. d = [options |-> r.options, offset |-> r.offset, ok |-> r.ok,
           data_block |-> r.data_block, index_block |-> r.index_block,
           last_key |-> r.last_key, num_entries |-> r.num_entries, closed |-> yes,
           filter_block |-> r.filter_block,
           pending_index_entry |-> r.pending_index_entry,
           pending_handle |-> r.pending_handle, handle |-> r.handle,
           file |-> r.file, ops |-> r.ops, fail_at |-> r.fail_at]
  BY <1>1 DEF IsRep
<1>3. /\ IsRep(d) /\ d.closed = yes /\ d.ok = r.ok /\ d.file = r.file
      /\ d.data_block = r.data_block /\ d.pending_handle = r.pending_handle
      /\ d.options = r.options /\ d.offset = r.offset /\ d.index_block = r.index_block
      /\ d.last_key = r.last_key /\ d.filter_block = r.filter_block
  BY ONLY <1>2 DEF IsRep
<1> QED
  BY <1>3 DEF RepInv, yes

\* The first part of Finish(): the filter block.
LEMMA WriteFilterKeeps ==
  ASSUME NEW r, RepInv(r), r.ok, NEW w, w = WriteFilter(r)
  PROVE  /\ Ended(w, r) /\ (w.ok => RepInv(w)) /\ w.options = r.options
         /\ r.options.filter_policy => IsHandle(w.handle)
<1>1. CASE r.options.filter_policy
  <2> DEFINE g == r.filter_block
             x == FilterFinish(g)
  <2>1. FilterInv(g)
    BY DEF RepInv
  <2>2. w = WriteRawBlock(r, x)
    BY <1>1 DEF WriteFilter
  <2> HIDE DEF g
  <2>3. IsSeq(x)
    BY <2>1, FilterFinishSeq
  <2> HIDE DEF x
  <2>4. /\ IsRep(w) /\ SameBlocks(w, r) /\ IsHandle(w.handle)
        /\ w.ok => RepInv(w) /\ Grown(w.file, r.file)
    BY <2>2, <2>3, RawBlockKeeps
  <2> QED
    BY <2>4 DEF Ended, SameBlocks, RepInv
<1>2. CASE ~r.options.filter_policy
  <2>1. w = r
    BY <1>2 DEF WriteFilter
  <2>2. Grown(r.file, r.file)
    BY SeqLen DEF RepInv, Grown
  <2> QED
    BY <1>2, <2>1, <2>2 DEF Ended, RepInv
<1> QED
  BY <1>1, <1>2

\* The contents of the metaindex block are a string.
LEMMA MetaIndexSeq ==
  ASSUME NEW r, RepInv(r), r.options.filter_policy => IsHandle(r.handle)
  PROVE  IsSeq(MetaIndex(r))
<1> DEFINE v == EncodeHandle(r.handle)
           n == r.options.block_restart_interval
           b == BlockAdd(EmptyBlock, FilterName, v, n)
           x == MetaIndex(r)
<1>1. CASE ~r.options.filter_policy
  <2>1. x = BlockFinish(EmptyBlock)
    BY <1>1 DEF MetaIndex
  <2>2. BlockFinish(EmptyBlock) \in Seq(Nat)
    BY EmptyIndex, IndexFinishType
  <2> QED
    BY <2>1, <2>2, SeqOfNat
<1>2. CASE r.options.filter_policy
  <2>1. x = BlockFinish(b)
    BY <1>2 DEF MetaIndex
  <2>2. v \in Seq(Nat)
    BY <1>2, EncodeHandleType
  <2>3. n \in Nat
    BY OptionsType DEF RepInv
  <2> HIDE DEF v, n
  <2>4. IndexType(b)
    BY <2>2, <2>3, EmptyIndex, IndexAdd, InputTypes
  <2> HIDE DEF b
  <2>5. BlockFinish(b) \in Seq(Nat)
    BY <2>4, IndexFinishType
  <2> QED
    BY <2>1, <2>5, SeqOfNat
<1> QED
  BY <1>1, <1>2

\* The second part of Finish(): the metaindex block.
LEMMA WriteMetaIndexKeeps ==
  ASSUME NEW r, RepInv(r), r.ok, r.options.filter_policy => IsHandle(r.handle),
         NEW w, w = WriteMetaIndex(r)
  PROVE  Ended(w, r) /\ (w.ok => RepInv(w))
<1> DEFINE x == MetaIndex(r)
<1>1. IsSeq(x)
  BY MetaIndexSeq
<1>2. w = WriteRawBlock(r, x)
  BY DEF WriteMetaIndex
<1> HIDE DEF x
<1>3. /\ IsRep(w) /\ SameBlocks(w, r) /\ IsHandle(w.handle)
      /\ w.ok => RepInv(w) /\ Grown(w.file, r.file)
  BY <1>1, <1>2, RawBlockKeeps
<1> QED
  BY <1>3 DEF Ended, SameBlocks, RepInv

\* Finish() after FlushBlock() has left g.
FinishAfter(g) ==
  IfOk(IfOk(IfOk([g EXCEPT !.closed = TRUE], WriteFilter), WriteMetaIndex), WriteFooter)

\* Finish() after Flush(): blocks stay in the file.
LEMMA FinishKeeps ==
  ASSUME NEW g, IsRep(g), g.ok => RepInv(g), NEW f, f = FinishAfter(g)
  PROVE  /\ IsRep(f) /\ f.closed = TRUE /\ f.data_block = g.data_block
         /\ f.pending_handle = g.pending_handle /\ f.options = g.options
         /\ f.ok => g.ok /\ IsSeq(f.file) /\ Grown(f.file, g.file)
<1> DEFINE d == [g EXCEPT !.closed = TRUE]
           e == IF d.ok THEN WriteFilter(d) ELSE d
           m == IF e.ok THEN WriteMetaIndex(e) ELSE e
<1>1. f = IF m.ok THEN WriteFooter(m) ELSE m
  BY DEF FinishAfter, IfOk
<1>2. /\ IsRep(d) /\ d.closed = TRUE /\ d.ok = g.ok /\ d.file = g.file
      /\ d.data_block = g.data_block /\ d.pending_handle = g.pending_handle
      /\ d.options = g.options
      /\ RepInv(g) => RepInv(d)
  BY Closes
<1> HIDE DEF d
<1>3. CASE ~g.ok
  <2>1. e = d
    BY <1>2, <1>3
  <2> HIDE DEF e
  <2>2. m = d
    BY <1>2, <1>3, <2>1
  <2> HIDE DEF m
  <2>3. f = d
    BY <1>1, <1>2, <1>3, <2>2
  <2> QED
    BY <1>2, <1>3, <2>3
<1>4. CASE g.ok
  <2>1. RepInv(d) /\ d.ok
    BY <1>2, <1>4
  <2>2. e = WriteFilter(d)
    BY <2>1
  <2> HIDE DEF e
  <2>3. /\ Ended(e, d) /\ (e.ok => RepInv(e)) /\ e.options = d.options
        /\ d.options.filter_policy => IsHandle(e.handle)
    BY <2>1, <2>2, WriteFilterKeeps
  <2>4. Ended(m, d) /\ (m.ok => RepInv(m))
    <3>1. CASE ~e.ok
      BY <2>3, <3>1
    <3>2. CASE e.ok
      <4>1. m = WriteMetaIndex(e)
        BY <3>2
      <4> HIDE DEF m
      <4>2. Ended(m, e) /\ (m.ok => RepInv(m))
        BY <2>3, <3>2, <4>1, WriteMetaIndexKeeps
      <4> QED
        BY <2>3, <3>2, <4>2, EndedTwice
    <3> QED
      BY <3>1, <3>2
  <2> HIDE DEF m
  <2>5. Ended(f, d)
    <3>1. CASE ~m.ok
      BY <1>1, <2>4, <3>1
    <3>2. CASE m.ok
      <4>1. f = WriteFooter(m)
        BY <1>1, <3>2
      <4>2. Ended(f, m)
        BY <2>4, <3>2, <4>1, WriteFooterKeeps
      <4> QED
        BY <2>4, <3>2, <4>2, EndedTwice
    <3> QED
      BY <3>1, <3>2
  <2> QED
    BY <1>2, <1>4, <2>5 DEF Ended
<1> QED
  BY <1>3, <1>4

\* Every block that was written is in the file.
WrittenStored(w, file) ==
  \A i \in 1..Len(w) : Stored(file, w[i].handle, w[i].entries)

\* The inductive invariant. While the status is ok all blocks are in the file; until the
\* builder is closed the data block holds the entries since the last one.
TableInv ==
  /\ IsRep(rep)
  /\ rep.ok => /\ IsSeq(written) /\ IsSeq(rep.file) /\ WrittenStored(written, rep.file)
               /\ ~rep.closed => RepInv(rep) /\ BlockGood(rep.data_block, current)

\* Blocks stay in a file that grows.
LEMMA WrittenKept ==
  ASSUME NEW w, NEW file, WrittenStored(w, file), NEW c, Grown(c, file)
  PROVE  WrittenStored(w, c)
BY StoredKept DEF WrittenStored

\* One more block.
LEMMA WrittenMore ==
  ASSUME NEW w, IsSeq(w), NEW file, WrittenStored(w, file), NEW h, NEW es,
         Stored(file, h, es)
  PROVE  /\ IsSeq(Append(w, [handle |-> h, entries |-> es]))
         /\ WrittenStored(Append(w, [handle |-> h, entries |-> es]), file)
<1> DEFINE x == [handle |-> h, entries |-> es]
           v == Append(w, x)
<1>1. x.handle = h /\ x.entries = es
  OBVIOUS
<1> HIDE DEF x
<1>2. /\ IsSeq(v) /\ Len(v) = Len(w) + 1
      /\ \A i \in 1..(Len(w) + 1) : v[i] = IF i = Len(w) + 1 THEN x ELSE w[i]
  BY SeqAppend
<1> HIDE DEF v
<1>3. Len(w) \in Nat
  BY SeqLen
<1>4. ASSUME NEW i \in 1..Len(v)
      PROVE  Stored(file, v[i].handle, v[i].entries)
  <2>1. CASE i = Len(w) + 1
    <3>1. v[i] = x
      BY <1>2, <2>1
    <3> QED
      BY <1>1, <3>1
  <2>2. CASE i # Len(w) + 1
    <3>1. v[i] = w[i] /\ i \in 1..Len(w)
      BY <1>2, <1>3, <2>2
    <3> QED
      BY <3>1 DEF WrittenStored
  <2> QED
    BY <2>1, <2>2
<1> QED
  BY <1>2, <1>4 DEF WrittenStored, v, x

\* A block that was reset is good.
LEMMA EmptyGood ==
  ASSUME NEW o \in OptionSets
  PROVE  BlockGood(EmptyBlock, <<>>)
<1>1. o.block_size \in Nat
  BY OptionsType
<1>2. Len(EmptyBlock.buffer) = 0 /\ Len(EmptyBlock.restarts) = 1
  <2> DEFINE one == <<0>>
             none == <<>>
  <2>1. Len(one) = 1 /\ Len(none) = 0
    OBVIOUS
  <2>2. EmptyBlock.buffer = none /\ EmptyBlock.restarts = one
    BY DEF EmptyBlock
  <2> HIDE DEF one, none
  <2> QED
    BY <2>1, <2>2
<1> DEFINE b == EmptyBlock
<1> HIDE DEF b
<1>3. Len(b.buffer) = 0 /\ Len(b.restarts) = 1
  BY <1>2 DEF b
<1>4. CurrentSizeEstimate(b) = 8
  BY <1>3 DEF CurrentSizeEstimate
<1>5. SmallBlock(b)
  BY <1>3 DEF SmallBlock, Max32
<1>6. BlockInv(b, <<>>)
  BY EmptyBlockInv DEF b
<1>7. BlockGood(b, <<>>)
  BY <1>1, <1>4, <1>5, <1>6 DEF BlockGood
<1> QED
  BY <1>7 DEF b

\* A block without bytes has no entries.
LEMMA EmptyHasNone ==
  ASSUME NEW es, BlockInv(EmptyBlock, es)
  PROVE  es = <<>>
<1>1. PICK off, sh : Laid(EmptyBlock, es, off, sh)
  BY DEF BlockInv
<1>2. 3 * Len(es) <= Len(EmptyBlock.buffer)
  BY <1>1, LaidSize
<1>3. Len(EmptyBlock.buffer) = 0
  BY DEF EmptyBlock
<1>4. es \in Seq(Entry)
  BY DEF BlockInv
<1>5. Len(es) = 0
  <2>1. Len(es) \in Nat
    BY <1>4, LenProperties
  <2> QED
    BY <1>2, <1>3, <2>1
<1> QED
  BY <1>4, <1>5, EmptySeq

\* The invariant holds at the start.
LEMMA InitHolds ==
  ASSUME Init
  PROVE  TableInv
<1>1. PICK o \in OptionSets, n \in 0..MaxOps :
        rep = [options |-> o, offset |-> 0, ok |-> TRUE,
               data_block |-> EmptyBlock, index_block |-> EmptyBlock,
               last_key |-> <<>>, num_entries |-> 0, closed |-> FALSE,
               filter_block |-> StartBlock(EmptyFilterBlock, 0),
               pending_index_entry |-> FALSE,
               pending_handle |-> [offset |-> 0, size |-> 0],
               handle |-> [offset |-> 0, size |-> 0],
               file |-> <<>>, ops |-> 0, fail_at |-> n]
  BY DEF Init
<1> DEFINE g == StartBlock(EmptyFilterBlock, 0)
           h == [offset |-> 0, size |-> 0]
<1>2. FilterInv(g)
  <2>1. FilterInv(EmptyFilterBlock)
    BY EmptySeq DEF FilterInv, IsSeq, EmptyFilterBlock
  <2> QED
    BY <2>1, StartBlockKeeps
<1>3. IsHandle(h)
  BY DEF IsHandle
<1> HIDE DEF g, h
<1>4. /\ IsRep(rep) /\ rep.options = o /\ rep.offset = 0
      /\ rep.data_block = EmptyBlock /\ rep.index_block = EmptyBlock
      /\ rep.last_key = <<>> /\ rep.filter_block = g /\ rep.pending_handle = h
      /\ rep.file = <<>>
  <2> DEFINE t == TRUE
             f == FALSE
  <2>1. rep = [options |-> o, offset |-> 0, ok |-> t,
               data_block |-> EmptyBlock, index_block |-> EmptyBlock,
               last_key |-> <<>>, num_entries |-> 0, closed |-> f,
               filter_block |-> g, pending_index_entry |-> f,
               pending_handle |-> h, handle |-> h,
               file |-> <<>>, ops |-> 0, fail_at |-> n]
    BY <1>1 DEF g, h
  <2> HIDE DEF t, f
  <2> QED
    BY ONLY <2>1 DEF IsRep
<1>5. IsSeq(<<>>) /\ Len(<<>>) = 0 /\ <<>> \in Seq(Nat)
  BY EmptySeq DEF IsSeq
<1>6. RepInv(rep)
  BY <1>2, <1>3, <1>4, <1>5, EmptyIndex DEF RepInv
<1>7. current = <<>> /\ written = <<>>
  BY DEF Init
<1>8. BlockGood(rep.data_block, current)
  BY <1>4, <1>7, EmptyGood
<1>9. WrittenStored(written, rep.file)
  BY <1>5, <1>7 DEF WrittenStored
<1> QED
  BY <1>4, <1>5, <1>6, <1>7, <1>8, <1>9 DEF TableInv

\* After a call that left a good Rep and either kept the block or stored it.
LEMMA NoteKeeps ==
  ASSUME NEW r, NEW entries, IsRep(r), r = rep', Note(r, entries),
         IsSeq(written),
         r.ok => /\ IsSeq(r.file) /\ WrittenStored(written, r.file)
                 /\ ~r.closed => RepInv(r)
                 /\ ~r.closed /\ r.data_block # EmptyBlock =>
                      BlockGood(r.data_block, entries)
                 /\ r.data_block = EmptyBlock /\ entries # <<>> =>
                      Stored(r.file, r.pending_handle, entries)
  PROVE  TableInv'
<1>1. CASE ~r.ok
  BY <1>1 DEF TableInv
<1>2. CASE r.ok /\ r.data_block = EmptyBlock /\ entries # <<>>
  <2>1. written' = Append(written, [handle |-> r.pending_handle, entries |-> entries])
        /\ current' = <<>>
    BY <1>2 DEF Note
  <2>2. IsSeq(written') /\ WrittenStored(written', r.file)
    <3> DEFINE h == r.pending_handle
               file == r.file
    <3>1. Stored(file, h, entries) /\ WrittenStored(written, file)
      BY <1>2
    <3>2. written' = Append(written, [handle |-> h, entries |-> entries])
      BY <2>1
    <3> HIDE DEF h, file
    <3>3. IsSeq(written') /\ WrittenStored(written', file)
      BY <3>1, <3>2, WrittenMore
    <3> QED
      BY <3>3 DEF file
  <2>3. ~r.closed => BlockGood(r.data_block, current')
    <3>1. ~r.closed => r.options \in OptionSets
      BY <1>2 DEF RepInv
    <3> QED
      BY <1>2, <2>1, <3>1, EmptyGood
  <2> QED
    BY <1>2, <2>2, <2>3 DEF TableInv
<1>3. CASE r.ok /\ ~(r.data_block = EmptyBlock /\ entries # <<>>)
  <2>1. current' = entries /\ written' = written
    BY <1>3 DEF Note
  <2>2. ~r.closed => BlockGood(r.data_block, current')
    <3>1. CASE r.data_block = EmptyBlock
      <4>1. entries = <<>>
        BY <1>3, <3>1
      <4>2. ~r.closed => r.options \in OptionSets
        BY <1>3 DEF RepInv
      <4> QED
        BY <2>1, <3>1, <4>1, <4>2, EmptyGood
    <3>2. CASE r.data_block # EmptyBlock
      BY <1>3, <2>1, <3>2
    <3> QED
      BY <3>1, <3>2
  <2> QED
    BY <1>3, <2>1, <2>2 DEF TableInv
<1> QED
  BY <1>1, <1>2, <1>3

\* Add() keeps the invariant.
LEMMA AddStep ==
  ASSUME SizesFit, TableInv, NEW key \in Keys, NEW value \in Values, Add(key, value)
  PROVE  TableInv'
<1> DEFINE r == rep
           f == rep'
           new == Append(current, <<key, value>>)
<1>1. /\ ~rep.closed /\ rep.ok /\ rep' = AddEntry(rep, key, value) /\ Note(rep', new)
  BY DEF Add
<1>2. /\ RepInv(r) /\ BlockGood(r.data_block, current)
      /\ IsSeq(written) /\ WrittenStored(written, r.file)
  BY <1>1 DEF TableInv
<1>3. new = WithEntry(current, key, value) /\ f = AddEntry(r, key, value) /\ r.ok /\ f = rep'
      /\ Note(f, new)
  BY <1>1 DEF WithEntry
<1> HIDE DEF r, f, new
<1>4. Added(f, r, new)
  BY <1>2, <1>3, AddKeeps
<1>5. f.ok => WrittenStored(written, f.file)
  BY <1>2, <1>4, WrittenKept DEF Added
<1>6. f.ok => IsSeq(f.file)
  BY <1>4 DEF Added, RepInv
<1> QED
  BY <1>2, <1>3, <1>4, <1>5, <1>6, NoteKeeps DEF Added

\* Flush() keeps the invariant.
LEMMA FlushStep ==
  ASSUME TableInv, Flush
  PROVE  TableInv'
<1> DEFINE r == rep
           f == rep'
<1>1. /\ ~rep.closed /\ rep.ok /\ rep.data_block # EmptyBlock
      /\ rep' = FlushBlock(rep) /\ Note(rep', current)
  BY DEF Flush
<1>2. /\ RepInv(r) /\ BlockInv(r.data_block, current) /\ SmallBlock(r.data_block)
      /\ IsSeq(written) /\ WrittenStored(written, r.file)
  BY <1>1 DEF TableInv, BlockGood
<1>3. f = FlushBlock(r) /\ r.ok /\ f = rep' /\ r.data_block # EmptyBlock /\ Note(f, current)
  BY <1>1
<1> HIDE DEF r, f
<1>4. /\ IsRep(f) /\ f.options = r.options /\ f.closed = r.closed
      /\ r.data_block = EmptyBlock => f = r
      /\ r.data_block # EmptyBlock => f.data_block = EmptyBlock
      /\ f.ok => /\ RepInv(f) /\ Grown(f.file, r.file)
                 /\ r.data_block # EmptyBlock =>
                      Stored(f.file, f.pending_handle, current)
  BY <1>2, <1>3, FlushKeeps
<1>5. f.ok => WrittenStored(written, f.file)
  BY <1>2, <1>4, WrittenKept
<1>6. f.ok => IsSeq(f.file)
  BY <1>4 DEF RepInv
<1> QED
  BY <1>2, <1>3, <1>4, <1>5, <1>6, NoteKeeps

\* ChangeOptions() keeps the invariant, also inside a block.
LEMMA ChangeOptionsStep ==
  ASSUME TableInv, NEW options \in OptionSets, ChangeOptions(options)
  PROVE  TableInv'
<1> DEFINE r == rep
           f == rep'
<1>1. f = [r EXCEPT !.options = options] /\ current' = current /\ written' = written
  BY DEF ChangeOptions
<1>2. IsRep(r)
  BY DEF TableInv
<1>3. /\ IsRep(f) /\ f.options = options /\ f.offset = r.offset /\ f.ok = r.ok
      /\ f.data_block = r.data_block /\ f.index_block = r.index_block
      /\ f.last_key = r.last_key /\ f.closed = r.closed
      /\ f.filter_block = r.filter_block /\ f.pending_handle = r.pending_handle
      /\ f.file = r.file
  <2> HIDE DEF r, f
  <2>1. f = [r EXCEPT !.options = options]
    BY <1>1
  <2> QED
    BY ONLY <1>2, <2>1 DEF IsRep
<1> HIDE DEF f
<1>4. ASSUME f.ok
      PROVE  /\ IsSeq(written) /\ IsSeq(f.file) /\ WrittenStored(written, f.file)
             /\ ~f.closed => RepInv(f) /\ BlockGood(f.data_block, current)
  <2>1. /\ IsSeq(written) /\ IsSeq(r.file) /\ WrittenStored(written, r.file)
        /\ ~r.closed => RepInv(r) /\ BlockGood(r.data_block, current)
    BY <1>3, <1>4 DEF TableInv
  <2> HIDE DEF r
  <2>2. ~r.closed => RepInv(f)
    BY <1>3, <2>1 DEF RepInv
  <2> QED
    BY <1>3, <2>1, <2>2
<1> QED
  BY <1>1, <1>3, <1>4 DEF TableInv, f

\* Abandon() keeps the invariant.
LEMMA AbandonStep ==
  ASSUME TableInv, Abandon
  PROVE  TableInv'
<1> DEFINE r == rep
           f == rep'
<1>1. f = [r EXCEPT !.closed = TRUE] /\ current' = current /\ written' = written
  BY DEF Abandon
<1>2. IsRep(r)
  BY DEF TableInv
<1>3. /\ IsRep(f) /\ f.closed = TRUE /\ f.ok = r.ok /\ f.file = r.file
      /\ f.data_block = r.data_block /\ f.pending_handle = r.pending_handle
      /\ RepInv(r) => RepInv(f)
  <2> HIDE DEF r, f
  <2> QED
    BY <1>1, <1>2, Closes
<1> HIDE DEF f
<1>4. f.ok => IsSeq(written) /\ IsSeq(f.file) /\ WrittenStored(written, f.file)
  BY <1>3 DEF TableInv
<1> QED
  BY <1>1, <1>3, <1>4 DEF TableInv, f

\* Finish() keeps the invariant.
LEMMA FinishStep ==
  ASSUME TableInv, Finish
  PROVE  TableInv'
<1> DEFINE r == rep
           f == rep'
           g == FlushBlock(r)
<1>1. ~r.closed /\ f = FinishFile(r) /\ Note(f, current) /\ f = rep' /\ IsRep(r)
  BY DEF Finish, TableInv
<1>2. f = FinishAfter(g)
  BY <1>1 DEF FinishFile, FinishAfter
<1>3. r.ok => /\ RepInv(r) /\ BlockInv(r.data_block, current) /\ SmallBlock(r.data_block)
              /\ IsSeq(written) /\ WrittenStored(written, r.file)
  BY <1>1 DEF TableInv, BlockGood
<1> HIDE DEF r, f
<1>4. CASE ~r.ok
  <2>1. g = r
    BY <1>4 DEF FlushBlock
  <2> HIDE DEF g
  <2>2. IsRep(f) /\ (f.ok => g.ok)
    BY <1>1, <1>2, <1>4, <2>1, FinishKeeps
  <2>3. ~f.ok
    BY <1>4, <2>1, <2>2
  <2> QED
    BY <2>2, <2>3 DEF TableInv, f
<1>5. CASE r.ok
  <2>1. g = FlushBlock(r)
    OBVIOUS
  <2> HIDE DEF g
  <2>2. /\ IsRep(g) /\ g.options = r.options /\ g.closed = r.closed
        /\ r.data_block = EmptyBlock => g = r
        /\ r.data_block # EmptyBlock => g.data_block = EmptyBlock
        /\ g.ok => /\ RepInv(g) /\ Grown(g.file, r.file)
                   /\ r.data_block # EmptyBlock =>
                        Stored(g.file, g.pending_handle, current)
    BY <1>3, <1>5, <2>1, FlushKeeps
  <2>3. /\ IsRep(f) /\ f.closed = TRUE /\ f.data_block = g.data_block
        /\ f.pending_handle = g.pending_handle
        /\ f.ok => g.ok /\ IsSeq(f.file) /\ Grown(f.file, g.file)
    BY <1>2, <2>2, FinishKeeps
  <2>4. f.ok => WrittenStored(written, f.file)
    <3>1. f.ok => Grown(f.file, r.file)
      BY <2>2, <2>3, GrownTwice
    <3> QED
      BY <1>3, <1>5, <3>1, WrittenKept
  <2>5. r.data_block = EmptyBlock => current = <<>>
    BY <1>3, <1>5, EmptyHasNone
  <2>6. f.ok /\ r.data_block # EmptyBlock => Stored(f.file, f.pending_handle, current)
    BY <2>2, <2>3, StoredKept
  <2>7. f.ok /\ current # <<>> => Stored(f.file, f.pending_handle, current)
    BY <2>5, <2>6
  <2>8. IsSeq(written)
    BY <1>3, <1>5
  <2>9. f.closed
    BY <2>3
  <2> QED
    BY <1>1, <2>3, <2>4, <2>7, <2>8, <2>9, NoteKeeps
<1> QED
  BY <1>4, <1>5

\* Every step keeps the invariant.
LEMMA NextHolds ==
  ASSUME SizesFit, TableInv, [Next]_vars
  PROVE  TableInv'
<1>1. CASE UNCHANGED vars
  BY <1>1 DEF TableInv, vars
<1>2. CASE Next
  BY <1>2, AddStep, ChangeOptionsStep, FlushStep, FinishStep, AbandonStep DEF Next
<1> QED
  BY <1>1, <1>2

\* The invariant implies that everything can be read back.
LEMMA ReadsBack ==
  ASSUME TableInv
  PROVE  EntriesKept
<1> SUFFICES ASSUME rep.ok
             PROVE  /\ \A i \in 1 .. Len(written) :
                         LET h == written[i].handle
                         IN  /\ Holds(ReadBlock(h), written[i].entries)
                             /\ Trailer(ReadBlock(h)) =
                                  ReadBlock([offset |-> h.offset + h.size,
                                             size |-> kBlockTrailerSize])
                    /\ ~ rep.closed => Holds(BlockFinish(rep.data_block), current)
  BY DEF EntriesKept
<1>1. ASSUME NEW i \in 1 .. Len(written)
      PROVE  LET h == written[i].handle
             IN  /\ Holds(ReadBlock(h), written[i].entries)
                 /\ Trailer(ReadBlock(h)) =
                      ReadBlock([offset |-> h.offset + h.size,
                                 size |-> kBlockTrailerSize])
  <2>1. Stored(rep.file, written[i].handle, written[i].entries)
    BY DEF TableInv, WrittenStored
  <2> QED
    BY <2>1, StoredRead
<1>2. ASSUME ~rep.closed
      PROVE  Holds(BlockFinish(rep.data_block), current)
  <2> DEFINE b == rep.data_block
  <2>1. BlockInv(b, current) /\ SmallBlock(b)
    BY <1>2 DEF TableInv, BlockGood
  <2> HIDE DEF b
  <2>2. /\ Entries(BlockFinish(b)) = current
        /\ \A i \in 0 .. NumRestarts(BlockFinish(b)) - 1 :
             current # <<>> => WholeKeyAt(BlockFinish(b), GetRestartPoint(BlockFinish(b), i))
    BY <2>1, BlockReadBack DEF SmallBlock
  <2> QED
    BY <2>2 DEF Holds, b
<1> QED
  BY <1>1, <1>2

\* What was added to a table can be read back, from the blocks that BlockBuilder and
\* WriteRawBlock() put into the file and from the one being built: for all keys, values
\* and options, if a block fits into the 32 bits of the format, whatever the options are
\* changed to on the way and whatever file operation fails.
THEOREM BlocksReadBack ==
  ASSUME SizesFit
  PROVE  Spec => []EntriesKept
<1>1. Init => TableInv
  BY InitHolds
<1>2. TableInv /\ [Next]_vars => TableInv'
  BY NextHolds
<1>3. TableInv => EntriesKept
  BY ReadsBack
<1> QED
  BY <1>1, <1>2, <1>3, PTL DEF Spec

-----------------------------------------------------------------------------
(* The order of internal keys, and the keys of the index.                  *)

\* a and b differ behind n bytes, and a comes first.
Differ(a, b, n) ==
  /\ n \in Nat /\ n <= Len(a) /\ n < Len(b)
  /\ \A i \in 1..n : a[i] = b[i]
  /\ n = Len(a) \/ a[n + 1] < b[n + 1]

\* Slice::compare() is negative exactly if they do somewhere.
LEMMA LessDiffers ==
  ASSUME NEW a \in Seq(Nat), NEW b \in Seq(Nat), Less(a, b)
  PROVE  \E n : Differ(a, b, n)
<1> DEFINE n == SharedLength(a, b)
<1>1. n \in Nat /\ n <= Len(a) /\ n <= Len(b) /\ \A i \in 1..n : a[i] = b[i]
  BY SharedIs
<1>2. Len(a) \in Nat /\ Len(b) \in Nat
  BY LenProperties
<1>3. IF n = Shorter(a, b) THEN Len(a) < Len(b) ELSE a[n + 1] < b[n + 1]
  BY DEF Less
<1> HIDE DEF n
<1>4. CASE n = Shorter(a, b)
  <2>1. n = Len(a) /\ n < Len(b)
    BY <1>2, <1>3, <1>4 DEF Shorter
  <2> QED
    BY <1>1, <2>1 DEF Differ
<1>5. CASE n # Shorter(a, b)
  <2>1. n < Len(b)
    BY <1>1, <1>2, <1>5 DEF Shorter
  <2> QED
    BY <1>1, <1>3, <1>5, <2>1 DEF Differ
<1> QED
  BY <1>4, <1>5

\* And the other way round.
LEMMA DiffersLess ==
  ASSUME NEW a \in Seq(Nat), NEW b \in Seq(Nat), NEW n, Differ(a, b, n)
  PROVE  Less(a, b)
<1> DEFINE S == {m \in 0 .. Shorter(a, b) : SubSeq(a, 1, m) = SubSeq(b, 1, m)}
           m == SharedLength(a, b)
<1>1. Len(a) \in Nat /\ Len(b) \in Nat /\ Shorter(a, b) \in Nat
  BY LenProperties DEF Shorter
<1>2. n \in Nat /\ n <= Len(a) /\ n < Len(b) /\ \A i \in 1..n : a[i] = b[i]
  BY DEF Differ
<1>3. m \in Nat /\ m <= Len(a) /\ m <= Len(b) /\ \A i \in 1..m : a[i] = b[i]
  BY SharedIs
<1>4. n <= m
  <2>1. n \in 0..Shorter(a, b)
    BY <1>1, <1>2 DEF Shorter
  <2>2. SubSeq(a, 1, n) = SubSeq(b, 1, n)
    <3> DEFINE x == SubSeq(a, 1, n)
               y == SubSeq(b, 1, n)
    <3>1. /\ x \in Seq(Nat) /\ Len(x) = n /\ \A i \in 1..n : x[i] = a[i]
      BY <1>1, <1>2, SubSeqProperties
    <3>2. /\ y \in Seq(Nat) /\ Len(y) = n /\ \A i \in 1..n : y[i] = b[i]
      BY <1>1, <1>2, SubSeqProperties
    <3> HIDE DEF x, y
    <3> QED
      BY <1>2, <3>1, <3>2, SeqEqual DEF x, y
  <2>3. n \in S
    BY <2>1, <2>2
  <2>4. S \subseteq Nat /\ \A y \in S : y <= Shorter(a, b)
    BY <1>1
  <2> HIDE DEF S
  <2>5. n <= Max(S)
    BY <1>1, <2>3, <2>4, MaxNat
  <2> QED
    BY <2>5 DEF SharedLength, S
<1> HIDE DEF m
<1>5. CASE n = Len(a)
  <2>1. m = Shorter(a, b) /\ Len(a) < Len(b)
    BY <1>1, <1>2, <1>3, <1>4, <1>5 DEF Shorter
  <2> QED
    BY <2>1 DEF Less, m
<1>6. CASE n # Len(a)
  <2>1. n + 1 \in 1..Len(a) /\ n + 1 \in 1..Len(b)
    BY <1>1, <1>2, <1>6
  <2>2. a[n + 1] \in Nat /\ b[n + 1] \in Nat
    BY <2>1, ElementOfSeq
  <2>3. a[n + 1] < b[n + 1]
    BY <1>6 DEF Differ
  <2>4. m = n
    <3>1. ~(n < m)
      <4>1. n < m => n + 1 \in 1..m
        BY <1>2, <1>3
      <4>2. a[n + 1] # b[n + 1]
        BY <2>2, <2>3
      <4> QED
        BY <1>3, <4>1, <4>2
    <3> QED
      BY <1>2, <1>3, <1>4, <3>1
  <2>5. m # Shorter(a, b)
    BY <1>1, <2>1, <2>4, <1>2 DEF Shorter
  <2> QED
    BY <2>3, <2>4, <2>5 DEF Less, m
<1> QED
  BY <1>5, <1>6

\* Two strings that both differ from a third one, the one before it and the other behind it.
LEMMA DifferTwice ==
  ASSUME NEW a \in Seq(Nat), NEW b \in Seq(Nat), NEW c \in Seq(Nat),
         NEW n, Differ(a, b, n), NEW m, Differ(b, c, m)
  PROVE  \E k : Differ(a, c, k)
<1>1. Len(a) \in Nat /\ Len(b) \in Nat /\ Len(c) \in Nat
  BY LenProperties
<1>2. /\ n \in Nat /\ n <= Len(a) /\ n < Len(b) /\ \A i \in 1..n : a[i] = b[i]
      /\ n = Len(a) \/ a[n + 1] < b[n + 1]
  BY DEF Differ
<1>3. /\ m \in Nat /\ m <= Len(b) /\ m < Len(c) /\ \A i \in 1..m : b[i] = c[i]
      /\ m = Len(b) \/ b[m + 1] < c[m + 1]
  BY DEF Differ
<1>4. CASE n < m
  <2>1. /\ n < Len(c) /\ n + 1 \in 1..m /\ \A i \in 1..n : i \in 1..m
    BY <1>1, <1>2, <1>3, <1>4
  <2>2. b[n + 1] = c[n + 1] /\ \A i \in 1..n : a[i] = c[i]
    BY <1>2, <1>3, <2>1
  <2>3. Differ(a, c, n)
    BY <1>2, <2>1, <2>2 DEF Differ
  <2> QED
    BY <2>3
<1>5. CASE n = m
  <2>1. \A i \in 1..n : a[i] = c[i]
    BY <1>2, <1>3, <1>5
  <2>2. b[n + 1] < c[n + 1]
    BY <1>1, <1>2, <1>3, <1>5
  <2>3. n # Len(a) => a[n + 1] < c[n + 1]
    <3>1. n # Len(a) => n + 1 \in 1..Len(a) /\ n + 1 \in 1..Len(b) /\ n + 1 \in 1..Len(c)
      BY <1>1, <1>2, <1>3, <1>5
    <3>2. n # Len(a) => a[n + 1] \in Nat /\ b[n + 1] \in Nat /\ c[n + 1] \in Nat
      BY <3>1, ElementOfSeq
    <3> QED
      BY <1>2, <2>2, <3>2
  <2>4. Differ(a, c, n)
    BY <1>2, <1>3, <1>5, <2>1, <2>3 DEF Differ
  <2> QED
    BY <2>4
<1>6. CASE m < n
  <2>1. /\ m <= Len(a) /\ m + 1 \in 1..n /\ m # Len(b) /\ \A i \in 1..m : i \in 1..n
    BY <1>1, <1>2, <1>3, <1>6
  <2>2. a[m + 1] = b[m + 1] /\ \A i \in 1..m : a[i] = c[i]
    BY <1>2, <1>3, <2>1
  <2>3. a[m + 1] < c[m + 1]
    BY <1>3, <2>1, <2>2
  <2>4. Differ(a, c, m)
    BY <1>3, <2>1, <2>2, <2>3 DEF Differ
  <2> QED
    BY <2>4
<1> QED
  BY <1>2, <1>3, <1>4, <1>5, <1>6

\* BytewiseComparatorImpl::Compare() is transitive.
LEMMA LessTransitive ==
  ASSUME NEW a \in Seq(Nat), NEW b \in Seq(Nat), NEW c \in Seq(Nat),
         Less(a, b), Less(b, c)
  PROVE  Less(a, c)
<1>1. PICK n : Differ(a, b, n)
  BY LessDiffers
<1>2. PICK m : Differ(b, c, m)
  BY LessDiffers
<1>3. PICK k : Differ(a, c, k)
  BY <1>1, <1>2, DifferTwice
<1> QED
  BY <1>3, DiffersLess

\* and no string is less than itself.
LEMMA LessIrreflexive ==
  ASSUME NEW a \in Seq(Nat)
  PROVE  ~Less(a, a)
<1> SUFFICES ASSUME Less(a, a) PROVE FALSE
  OBVIOUS
<1>1. PICK n : Differ(a, a, n)
  BY LessDiffers
<1>2. n \in Nat /\ n < Len(a) /\ Len(a) \in Nat /\ a[n + 1] < a[n + 1]
  BY <1>1, LenProperties DEF Differ
<1>3. n + 1 \in 1..Len(a)
  BY <1>2
<1>4. a[n + 1] \in Nat
  BY <1>3, ElementOfSeq
<1> QED
  BY <1>2, <1>4

\* An internal key: there is a tag.
IsKey(k) == k \in Seq(Nat) /\ Len(k) >= 8

\* The sequence number and the type, the high byte first, are a string.
LEMMA TagType ==
  ASSUME NEW k, IsKey(k)
  PROVE  Reverse(Tag(k)) \in Seq(Nat)
<1> DEFINE t == Tag(k)
<1>1. k \in Seq(Nat) /\ Len(k) \in Nat /\ Len(k) >= 8
  BY LenProperties DEF IsKey
<1>2. t \in Seq(Nat)
  <2> DEFINE m == Len(k) - 7
             n == Len(k)
  <2>1. m \in Int /\ n \in Int /\ \A i \in m..n : k[i] \in Nat
    <3>1. \A i \in m..n : i \in 1..Len(k)
      BY <1>1
    <3> QED
      BY <1>1, <3>1, ElementOfSeq
  <2>2. t = SubSeq(k, m, n)
    BY DEF Tag
  <2> HIDE DEF m, n
  <2> QED
    BY <2>1, <2>2, SubSeqProperties
<1> HIDE DEF t
<1>3. Len(t) \in Nat
  BY <1>2, LenProperties
<1>4. ASSUME NEW i \in 1..Len(t)
      PROVE  t[(Len(t) - i) + 1] \in Nat
  <2>1. (Len(t) - i) + 1 \in 1..Len(t)
    BY <1>3
  <2> QED
    BY <1>2, <2>1, ElementOfSeq
<1>5. [i \in 1..Len(t) |-> t[(Len(t) - i) + 1]] \in Seq(Nat)
  BY <1>3, <1>4
<1> QED
  BY <1>5 DEF Reverse, t

\* InternalKeyComparator::Compare() is transitive: ascending user keys, then descending tags.
LEMMA KeyTransitive ==
  ASSUME NEW a, IsKey(a), NEW b, IsKey(b), NEW c, IsKey(c), KeyLess(a, b), KeyLess(b, c)
  PROVE  KeyLess(a, c)
<1> DEFINE u == ExtractUserKey(a)
           v == ExtractUserKey(b)
           w == ExtractUserKey(c)
           r == Reverse(Tag(a))
           s == Reverse(Tag(b))
           t == Reverse(Tag(c))
<1>1. u \in Seq(Nat) /\ v \in Seq(Nat) /\ w \in Seq(Nat)
  BY UserKeyType DEF IsKey
<1>2. r \in Seq(Nat) /\ s \in Seq(Nat) /\ t \in Seq(Nat)
  BY TagType
<1>3. Less(u, v) \/ (u = v /\ Less(s, r))
  BY DEF KeyLess
<1>4. Less(v, w) \/ (v = w /\ Less(t, s))
  BY DEF KeyLess
<1> HIDE DEF u, v, w, r, s, t
<1>5. Less(u, w) \/ (u = w /\ Less(t, r))
  BY <1>1, <1>2, <1>3, <1>4, LessTransitive
<1> QED
  BY <1>5 DEF KeyLess, u, w, r, t

\* and no internal key is less than itself.
LEMMA KeyIrreflexive ==
  ASSUME NEW a, IsKey(a)
  PROVE  ~KeyLess(a, a)
<1>1. ExtractUserKey(a) \in Seq(Nat) /\ Reverse(Tag(a)) \in Seq(Nat)
  BY UserKeyType, TagType DEF IsKey
<1> QED
  BY <1>1, LessIrreflexive DEF KeyLess

\* a <= b in the order of internal keys.
NotAfter(a, b) == a = b \/ KeyLess(a, b)

\* How <= and < of internal keys combine.
LEMMA NotAfterThenLess ==
  ASSUME NEW a, IsKey(a), NEW b, IsKey(b), NEW c, IsKey(c)
  PROVE  /\ NotAfter(a, b) /\ KeyLess(b, c) => KeyLess(a, c)
         /\ KeyLess(a, b) /\ NotAfter(b, c) => KeyLess(a, c)
         /\ NotAfter(a, b) /\ NotAfter(b, c) => NotAfter(a, c)
         /\ NotAfter(a, b) => ~KeyLess(b, a)
BY KeyTransitive, KeyIrreflexive DEF NotAfter

\* The first n bytes of a string.
LEMMA FrontOf ==
  ASSUME NEW s \in Seq(Nat), NEW n \in Nat, n <= Len(s)
  PROVE  /\ SubSeq(s, 1, n) \in Seq(Nat) /\ Len(SubSeq(s, 1, n)) = n
         /\ \A j \in 1..n : SubSeq(s, 1, n)[j] = s[j]
<1> DEFINE f == SubSeq(s, 1, n)
<1>1. Len(s) \in Nat /\ \A j \in 1..Len(s) : s[j] \in Nat
  BY LenProperties, ElementOfSeq
<1>2. \A j \in 1..n : s[j] \in Nat
  BY <1>1
<1>3. /\ SubSeq(s, 1, n) \in Seq(Nat)
      /\ Len(SubSeq(s, 1, n)) = IF 1 <= n THEN n - 1 + 1 ELSE 0
      /\ \A j \in 1..n - 1 + 1 : SubSeq(s, 1, n)[j] = s[1 + j - 1]
  BY <1>2, SubSeqProperties
<1> HIDE DEF f
<1>4. \A j \in 1..n : j \in 1..n - 1 + 1 /\ 1 + j - 1 = j
  OBVIOUS
<1>5. Len(f) = n
  BY <1>3 DEF f
<1>6. \A j \in 1..n : f[j] = s[j]
  BY <1>3, <1>4 DEF f
<1> QED
  BY <1>3, <1>5, <1>6 DEF f

\* A user key with the earliest tag is an internal key.
LEMMA TaggedKey ==
  ASSUME NEW u \in Seq(Nat)
  PROVE  /\ IsKey(u \o EarliestTag) /\ ExtractUserKey(u \o EarliestTag) = u
         /\ Len(u \o EarliestTag) = Len(u) + 8
<1> DEFINE t == EarliestTag
           k == u \o t
<1>1. t \in Seq(Nat) /\ Len(t) = 8
  BY DEF EarliestTag
<1> HIDE DEF t
<1>2. Len(u) \in Nat
  BY LenProperties
<1>3. k \in Seq(Nat) /\ Len(k) = Len(u) + 8
  <2>1. u \o t \in Seq(Nat) /\ Len(u \o t) = Len(u) + Len(t)
    BY <1>1, ConcatProperties
  <2> QED
    BY <1>1, <2>1
<1>4. \A i \in 1..Len(u) : k[i] = u[i]
  BY <1>1, <1>2, ConcatProperties
<1> HIDE DEF k
<1>5. Len(k) - 8 = Len(u) /\ Len(k) >= 8
  BY <1>2, <1>3
<1> DEFINE x == SubSeq(k, 1, Len(u))
<1>6. x \in Seq(Nat) /\ Len(x) = Len(u) /\ \A i \in 1..Len(u) : x[i] = k[i]
  BY <1>2, <1>3, SubSeqProperties
<1>7. ExtractUserKey(k) = x
  BY <1>5 DEF ExtractUserKey
<1> HIDE DEF x
<1>8. x = u
  BY <1>4, <1>6, SeqEqual
<1> QED
  BY <1>3, <1>5, <1>7, <1>8 DEF IsKey, k, t

\* ExtractUserKey() drops the eight bytes of the tag.
LEMMA UserKeyLength ==
  ASSUME NEW key, IsKey(key)
  PROVE  ExtractUserKey(key) \in Seq(Nat) /\ Len(ExtractUserKey(key)) = Len(key) - 8
<1>1. key \in Seq(Nat) /\ Len(key) \in Nat /\ Len(key) - 8 \in Nat
  BY LenProperties DEF IsKey
<1> DEFINE n == Len(key) - 8
<1>2. n \in Nat /\ n <= Len(key)
  BY <1>1
<1> HIDE DEF n
<1>3. SubSeq(key, 1, n) \in Seq(Nat) /\ Len(SubSeq(key, 1, n)) = n
  BY <1>1, <1>2, SubSeqProperties
<1> QED
  BY <1>3 DEF ExtractUserKey, n

\* A shortened internal key is not less than the key it replaces, and not longer.
LEMMA ShortenedOrder ==
  ASSUME NEW key, IsKey(key), NEW user \in Seq(Nat)
  PROVE  /\ IsKey(Shortened(key, user)) /\ NotAfter(key, Shortened(key, user))
         /\ Len(Shortened(key, user)) <= Len(key)
         /\ Shortened(key, user) = key \/
            (Shortened(key, user) = user \o EarliestTag /\ Len(user) < Len(ExtractUserKey(key)))
<1>1. /\ Len(ExtractUserKey(key)) = Len(key) - 8 /\ Len(key) \in Nat /\ Len(user) \in Nat
  BY UserKeyLength, LenProperties DEF IsKey
<1>2. CASE Len(user) < Len(ExtractUserKey(key)) /\ Less(ExtractUserKey(key), user)
  <2> DEFINE k == user \o EarliestTag
  <2>1. Shortened(key, user) = k
    BY <1>2 DEF Shortened
  <2>2. IsKey(k) /\ ExtractUserKey(k) = user /\ Len(k) = Len(user) + 8
    BY TaggedKey
  <2> HIDE DEF k
  <2>3. KeyLess(key, k)
    BY <1>2, <2>2 DEF KeyLess
  <2>4. Len(k) <= Len(key)
    BY <1>1, <1>2, <2>2
  <2> QED
    BY <1>2, <2>1, <2>2, <2>3, <2>4 DEF NotAfter, k
<1>3. CASE ~(Len(user) < Len(ExtractUserKey(key)) /\ Less(ExtractUserKey(key), user))
  <2>1. Shortened(key, user) = key
    BY <1>3 DEF Shortened
  <2> QED
    BY <1>1, <2>1 DEF NotAfter
<1> QED
  BY <1>2, <1>3

\* InternalKeyComparator::FindShortestSeparator() gives start <= separator < limit.
LEMMA SeparatorOrder ==
  ASSUME NEW start, IsKey(start), NEW limit, IsKey(limit), KeyLess(start, limit)
  PROVE  /\ IsKey(FindShortestSeparator(start, limit))
         /\ NotAfter(start, FindShortestSeparator(start, limit))
         /\ KeyLess(FindShortestSeparator(start, limit), limit)
         /\ Len(FindShortestSeparator(start, limit)) <= Len(start)
<1> DEFINE a == ExtractUserKey(start)
           c == ExtractUserKey(limit)
           u == BytewiseSeparator(a, c)
           sep == FindShortestSeparator(start, limit)
           n == SharedLength(a, c)
           i == n + 1
<1>1. a \in Seq(Nat) /\ c \in Seq(Nat)
  BY UserKeyLength
<1>2. sep = Shortened(start, u)
  BY DEF FindShortestSeparator
<1> HIDE DEF a, c
<1>3. n \in Nat /\ n <= Len(a) /\ n <= Len(c) /\ \A j \in 1..n : a[j] = c[j]
  BY <1>1, SharedIs
<1>4. Len(a) \in Nat /\ Len(c) \in Nat /\ Shorter(a, c) <= Len(a) /\ Shorter(a, c) <= Len(c)
      /\ Shorter(a, c) \in Nat
  BY <1>1, LenProperties DEF Shorter
<1> DEFINE cut == i <= Shorter(a, c) /\ a[i] < 255 /\ a[i] + 1 < c[i]
           x == SubSeq(a, 1, n) \o <<a[i] + 1>>
<1>5. u = IF cut THEN x ELSE a
  <2>1. i - 1 = n
    BY <1>3
  <2> QED
    BY <2>1 DEF BytewiseSeparator
<1> HIDE DEF n
<1>6. cut => x \in Seq(Nat) /\ Less(x, c)
  <2> SUFFICES ASSUME cut PROVE x \in Seq(Nat) /\ Less(x, c)
    OBVIOUS
  <2> DEFINE f == SubSeq(a, 1, n)
             b == a[i] + 1
             o == <<b>>
  <2>1. i \in 1..Len(a) /\ i \in 1..Len(c)
    BY <1>3, <1>4
  <2>2. a[i] \in Nat /\ c[i] \in Nat /\ b \in Nat /\ b < c[i]
    BY <1>1, <2>1, ElementOfSeq
  <2>3. f \in Seq(Nat) /\ Len(f) = n /\ \A j \in 1..n : f[j] = a[j]
    BY <1>1, <1>3, FrontOf
  <2> HIDE DEF f, b
  <2>4. o \in Seq(Nat) /\ Len(o) = 1 /\ o[1] = b
    BY <2>2
  <2>5. x = f \o o
    BY DEF f, b
  <2> HIDE DEF o, x
  <2>6. /\ x \in Seq(Nat) /\ Len(x) = n + 1 /\ \A j \in 1..n : x[j] = f[j]
        /\ x[n + 1] = b
    <3>1. /\ f \o o \in Seq(Nat) /\ Len(f \o o) = Len(f) + Len(o)
          /\ \A j \in 1..(Len(f) + Len(o)) : (f \o o)[j] = IF j <= Len(f) THEN f[j] ELSE o[j - Len(f)]
      BY <2>3, <2>4, ConcatProperties
    <3>2. n + 1 \in 1..(n + 1) /\ ~(n + 1 <= n) /\ (n + 1) - n = 1
          /\ \A j \in 1..n : j \in 1..(n + 1) /\ j <= n
      BY <1>3
    <3> QED
      BY <1>3, <2>3, <2>4, <2>5, <3>1, <3>2
  <2>7. Differ(x, c, n)
    <3>1. n < Len(c) /\ n <= Len(x)
      BY <1>3, <1>4, <2>1, <2>6
    <3>2. x[n + 1] < c[n + 1]
      BY <2>2, <2>6
    <3> QED
      BY <1>3, <2>3, <2>6, <3>1, <3>2 DEF Differ
  <2> QED
    BY <1>1, <2>6, <2>7, DiffersLess
<1> HIDE DEF cut, x
<1>7. u \in Seq(Nat)
  BY <1>1, <1>5, <1>6
<1> HIDE DEF u
<1>8. /\ IsKey(sep) /\ NotAfter(start, sep) /\ Len(sep) <= Len(start)
      /\ sep = start \/ (sep = u \o EarliestTag /\ Len(u) < Len(a))
  <2>1. /\ IsKey(Shortened(start, u)) /\ NotAfter(start, Shortened(start, u))
        /\ Len(Shortened(start, u)) <= Len(start)
        /\ Shortened(start, u) = start \/
           (Shortened(start, u) = u \o EarliestTag /\ Len(u) < Len(ExtractUserKey(start)))
    BY <1>7, ShortenedOrder
  <2> HIDE DEF sep
  <2> QED
    BY <1>2, <2>1 DEF a
<1> HIDE DEF sep
<1>9. KeyLess(sep, limit)
  <2>1. CASE sep = start
    BY <2>1
  <2>2. CASE sep = u \o EarliestTag /\ Len(u) < Len(a)
    <3>1. u # a
      BY <1>4, <2>2
    <3>2. Less(u, c)
      BY <1>5, <1>6, <3>1
    <3>3. ExtractUserKey(sep) = u
      BY <1>7, <2>2, TaggedKey
    <3> QED
      BY <3>2, <3>3 DEF KeyLess, c
  <2> QED
    BY <1>8, <2>1, <2>2
<1> QED
  BY <1>8, <1>9 DEF sep

\* InternalKeyComparator::FindShortSuccessor() gives a key that is not less.
LEMMA SuccessorOrder ==
  ASSUME NEW key, IsKey(key)
  PROVE  /\ IsKey(FindShortSuccessor(key)) /\ NotAfter(key, FindShortSuccessor(key))
         /\ Len(FindShortSuccessor(key)) <= Len(key)
<1> DEFINE a == ExtractUserKey(key)
           u == BytewiseSuccessor(a)
<1>1. a \in Seq(Nat)
  BY UserKeyLength
<1>2. FindShortSuccessor(key) = Shortened(key, u)
  BY DEF FindShortSuccessor
<1> HIDE DEF a
<1>3. u \in Seq(Nat)
  BY <1>1, BytewiseSuccessorType
<1> HIDE DEF u
<1>4. /\ IsKey(Shortened(key, u)) /\ NotAfter(key, Shortened(key, u))
      /\ Len(Shortened(key, u)) <= Len(key)
      /\ Shortened(key, u) = key \/
         (Shortened(key, u) = u \o EarliestTag /\ Len(u) < Len(ExtractUserKey(key)))
  BY <1>3, ShortenedOrder
<1> QED
  BY <1>2, <1>4

-----------------------------------------------------------------------------
(* What the steps of the operations do to the other fields.                *)

\* What the operations on the blocks leave alone.
SameFile(a, r) ==
  /\ a.file = r.file /\ a.offset = r.offset /\ a.ok = r.ok /\ a.ops = r.ops
  /\ a.fail_at = r.fail_at /\ a.closed = r.closed /\ a.options = r.options
  /\ a.pending_handle = r.pending_handle /\ a.handle = r.handle

\* A call that does no file operation keeps Clean().
LEMMA SameFileClean ==
  ASSUME NEW a, NEW r, SameFile(a, r), Clean(r)
  PROVE  Clean(a)
BY DEF SameFile, Clean

\* All that the pending index entry changes.
LEMMA IndexEntryIs ==
  ASSUME NEW r, IsRep(r), NEW sep, NEW a, a = AddIndexEntry(r, sep)
  PROVE  /\ IsRep(a) /\ SameFile(a, r) /\ a.data_block = r.data_block
         /\ a.num_entries = r.num_entries
         /\ a.pending_index_entry = r.pending_index_entry
         /\ a.filter_block = r.filter_block
         /\ ~r.pending_index_entry => a = r
         /\ r.pending_index_entry =>
              /\ a.last_key = sep
              /\ a.index_block =
                   BlockAdd(r.index_block, sep, EncodeHandle(r.pending_handle), 1)
<1>1. CASE ~r.pending_index_entry
  BY <1>1 DEF AddIndexEntry, SameFile
<1>2. CASE r.pending_index_entry
  <2> DEFINE n == BlockAdd(r.index_block, sep, EncodeHandle(r.pending_handle), 1)
  <2>1. a = [r EXCEPT !.last_key = sep, !.index_block = n]
    BY <1>2 DEF AddIndexEntry, IsRep
  <2> HIDE DEF n
  <2>2. a = [options |-> r.options, offset |-> r.offset, ok |-> r.ok,
             data_block |-> r.data_block, index_block |-> n,
             last_key |-> sep, num_entries |-> r.num_entries, closed |-> r.closed,
             filter_block |-> r.filter_block,
             pending_index_entry |-> r.pending_index_entry,
             pending_handle |-> r.pending_handle, handle |-> r.handle,
             file |-> r.file, ops |-> r.ops, fail_at |-> r.fail_at]
    BY <2>1 DEF IsRep
  <2>3. /\ IsRep(a) /\ SameFile(a, r) /\ a.data_block = r.data_block
        /\ a.num_entries = r.num_entries
        /\ a.pending_index_entry = r.pending_index_entry
        /\ a.filter_block = r.filter_block
        /\ a.index_block = n /\ a.last_key = sep
    BY ONLY <2>2 DEF IsRep, SameFile
  <2> QED
    BY <1>2, <2>3 DEF n
<1> QED
  BY <1>1, <1>2

\* All that adding an entry to the data block changes.
LEMMA AddToBlockIs ==
  ASSUME NEW r, IsRep(r), NEW key, NEW value, NEW a, a = AddToBlock(r, key, value)
  PROVE  /\ IsRep(a) /\ SameFile(a, r) /\ a.index_block = r.index_block
         /\ a.pending_index_entry = r.pending_index_entry
         /\ a.last_key = key /\ a.num_entries = r.num_entries + 1
         /\ a.data_block =
              BlockAdd(r.data_block, key, value, r.options.block_restart_interval)
<1> DEFINE fb == IF r.options.filter_policy THEN AddKey(r.filter_block, key)
                 ELSE r.filter_block
           ne == r.num_entries + 1
           n == BlockAdd(r.data_block, key, value, r.options.block_restart_interval)
<1>1. a = [r EXCEPT !.filter_block = fb, !.last_key = key, !.num_entries = ne,
                    !.data_block = n]
  BY DEF AddToBlock, IsRep
<1> HIDE DEF fb, ne, n
<1>2. a = [options |-> r.options, offset |-> r.offset, ok |-> r.ok,
           data_block |-> n, index_block |-> r.index_block,
           last_key |-> key, num_entries |-> ne, closed |-> r.closed,
           filter_block |-> fb,
           pending_index_entry |-> r.pending_index_entry,
           pending_handle |-> r.pending_handle, handle |-> r.handle,
           file |-> r.file, ops |-> r.ops, fail_at |-> r.fail_at]
  BY <1>1 DEF IsRep
<1>3. /\ IsRep(a) /\ SameFile(a, r) /\ a.index_block = r.index_block
      /\ a.pending_index_entry = r.pending_index_entry
      /\ a.last_key = key /\ a.num_entries = ne /\ a.data_block = n
  BY ONLY <1>2 DEF IsRep, SameFile
<1> QED
  BY <1>3 DEF ne, n

\* The order of entries in the index and the blocks they lead to.

\* blk says which of the blocks w an entry of the index leads to.
Points(ies, blk, w) ==
  /\ ies \in Seq(Entry) /\ IsSeq(blk) /\ Len(blk) = Len(ies)
  /\ \A i \in 1..Len(ies) : /\ blk[i] \in 1..Len(w) /\ IsKey(ies[i][1])
                            /\ ies[i][2] = EncodeHandle(w[blk[i]].handle)

\* The keys of the index ascend.
Ascends(ies) == \A i \in 1..Len(ies) - 1 : KeyLess(ies[i][1], ies[i + 1][1])

\* All keys of the index are less than this one.
Below(ies, key) == \A i \in 1..Len(ies) : KeyLess(ies[i][1], key)

\* All of these entries are behind the key, or none.
Follow(key, es) == \A n \in 1..Len(es) : KeyLess(key, es[n][1])

\* None of these entries is behind the key.
Precede(es, key) == \A n \in 1..Len(es) : IsKey(es[n][1]) /\ NotAfter(es[n][1], key)

\* Entry i of the index is the first for block b, not less than its keys and less
\* than all that follow.
Finds(ies, blk, w, b, i) ==
  /\ i \in 1..Len(ies) /\ blk[i] = b /\ \A j \in 1..i - 1 : blk[j] # b
  /\ Precede(w[b].entries, ies[i][1])
  /\ \A c \in b + 1..Len(w) : Follow(ies[i][1], w[c].entries)

\* The index leads to block b, and not to what is in the block being built.
Indexed(ies, blk, w, cur, b) ==
  \E i : Finds(ies, blk, w, b, i) /\ Follow(ies[i][1], cur)

\* The index of the blocks w while cur is in the block being built: only the last
\* block may lack an entry, and it does as long as nothing was added behind it.
IndexMap(ies, blk, w, cur) ==
  /\ Points(ies, blk, w) /\ Ascends(ies)
  /\ \A b \in 1..Len(w) : b < Len(w) \/ cur # <<>> => Indexed(ies, blk, w, cur, b)
  /\ cur = <<>> => \A i \in 1..Len(ies) : blk[i] # Len(w)

\* All keys so far are at most key.
KeysUpTo(w, cur, key) ==
  /\ Precede(cur, key)
  /\ \A b \in 1..Len(w) : Precede(w[b].entries, key)

\* A sequence of entries, and one more.
LEMMA EntrySeq ==
  ASSUME NEW ies \in Seq(Entry), NEW e \in Entry
  PROVE  /\ Append(ies, e) \in Seq(Entry) /\ Len(Append(ies, e)) = Len(ies) + 1
         /\ Len(ies) \in Nat
         /\ \A i \in 1..Len(ies) : Append(ies, e)[i] = ies[i]
         /\ Append(ies, e)[Len(ies) + 1] = e
<1>1. Len(ies) \in Nat
  BY LenProperties
<1>2. /\ Append(ies, e) \in Seq(Entry) /\ Len(Append(ies, e)) = Len(ies) + 1
      /\ \A i \in 1..(Len(ies) + 1) :
           Append(ies, e)[i] = IF i = Len(ies) + 1 THEN e ELSE ies[i]
  BY AppendProperties
<1>3. Len(ies) + 1 \in 1..(Len(ies) + 1)
      /\ \A i \in 1..Len(ies) : i \in 1..(Len(ies) + 1) /\ i # Len(ies) + 1
  BY <1>1
<1> QED
  BY <1>1, <1>2, <1>3

\* An index entry for the last block under a key that is not less than all keys so
\* far, and larger than the ones of the index: then every block is in the index.
LEMMA EntryIndexed ==
  ASSUME NEW ies, NEW blk, NEW w, NEW cur, NEW last, IsSeq(w), w # <<>>,
         IndexMap(ies, blk, w, cur), KeysUpTo(w, cur, last), Below(ies, last),
         IsKey(last), NEW sep, IsKey(sep), NotAfter(last, sep),
         NEW e \in Entry, e = <<sep, EncodeHandle(w[Len(w)].handle)>>,
         NEW more, more = Append(ies, e), NEW to, to = Append(blk, Len(w))
  PROVE  /\ Points(more, to, w) /\ Ascends(more)
         /\ \A b \in 1..Len(w) : Indexed(more, to, w, cur, b)
<1> DEFINE n == Len(w)
           m == Len(ies)
<1>1. n \in Nat /\ n >= 1
  BY SeqLen, EmptySeq DEF IsSeq
<1>2. /\ ies \in Seq(Entry) /\ IsSeq(blk) /\ Len(blk) = m
      /\ \A i \in 1..m : /\ blk[i] \in 1..n /\ IsKey(ies[i][1])
                         /\ ies[i][2] = EncodeHandle(w[blk[i]].handle)
  BY DEF IndexMap, Points
<1>3. /\ more \in Seq(Entry) /\ Len(more) = m + 1 /\ m \in Nat
      /\ \A i \in 1..m : more[i] = ies[i]
      /\ more[m + 1] = e
  BY <1>2, EntrySeq
<1>4. /\ IsSeq(to) /\ Len(to) = m + 1 /\ to[m + 1] = n /\ \A i \in 1..m : to[i] = blk[i]
  <2>1. /\ IsSeq(Append(blk, n)) /\ Len(Append(blk, n)) = Len(blk) + 1
        /\ \A i \in 1..(Len(blk) + 1) :
             Append(blk, n)[i] = IF i = Len(blk) + 1 THEN n ELSE blk[i]
    BY <1>2, SeqAppend
  <2>2. m + 1 \in 1..(m + 1) /\ \A i \in 1..m : i \in 1..(m + 1) /\ i # m + 1
    BY <1>3
  <2> QED
    BY <1>2, <2>1, <2>2
<1>5. e[1] = sep /\ e[2] = EncodeHandle(w[n].handle)
  OBVIOUS
<1> HIDE DEF n, m
<1>6. Points(more, to, w)
  <2>1. ASSUME NEW i \in 1..(m + 1)
        PROVE  /\ to[i] \in 1..n /\ IsKey(more[i][1])
               /\ more[i][2] = EncodeHandle(w[to[i]].handle)
    <3>1. CASE i = m + 1
      <4>1. to[i] = n /\ more[i] = e /\ n \in 1..n
        BY <1>1, <1>3, <1>4, <3>1
      <4> QED
        BY <1>5, <4>1
    <3>2. CASE i # m + 1
      <4>1. i \in 1..m
        BY <1>3, <3>2
      <4>2. to[i] = blk[i] /\ more[i] = ies[i]
        BY <1>3, <1>4, <4>1
      <4> QED
        BY <1>2, <4>1, <4>2
    <3> QED
      BY <3>1, <3>2
  <2> QED
    BY <1>3, <1>4, <2>1 DEF Points, n
<1>7. Ascends(more)
  <2> SUFFICES ASSUME NEW i \in 1..m PROVE KeyLess(more[i][1], more[i + 1][1])
    BY <1>3 DEF Ascends
  <2>1. more[i] = ies[i] /\ IsKey(ies[i][1])
    BY <1>2, <1>3
  <2>2. CASE i = m
    <3>1. more[i + 1] = e
      BY <1>3, <2>2
    <3>2. KeyLess(ies[i][1], last)
      BY DEF Below, m
    <3>3. KeyLess(ies[i][1], sep)
      BY <2>1, <3>2, NotAfterThenLess
    <3> QED
      BY <1>5, <2>1, <3>1, <3>3
  <2>3. CASE i # m
    <3>1. i + 1 \in 1..m /\ i \in 1..m - 1
      BY <1>3, <2>3
    <3>2. KeyLess(ies[i][1], ies[i + 1][1])
      BY <3>1 DEF IndexMap, Ascends, m
    <3> QED
      BY <1>3, <2>1, <3>1, <3>2
  <2> QED
    BY <2>2, <2>3
<1>8. ASSUME NEW b \in 1..n, b < n \/ cur # <<>>
      PROVE  Indexed(more, to, w, cur, b)
  <2>1. PICK i : Finds(ies, blk, w, b, i) /\ Follow(ies[i][1], cur)
    BY <1>8 DEF IndexMap, Indexed, n
  <2>2. i \in 1..m /\ i \in 1..(m + 1)
    BY <1>3, <2>1 DEF Finds, m
  <2>3. more[i] = ies[i] /\ to[i] = blk[i] /\ \A j \in 1..i - 1 : to[j] = blk[j]
    BY <1>3, <1>4, <2>2
  <2>4. Finds(more, to, w, b, i)
    BY <1>3, <2>1, <2>2, <2>3 DEF Finds
  <2> QED
    BY <2>1, <2>3, <2>4 DEF Indexed
<1>9. ASSUME cur = <<>>
      PROVE  Indexed(more, to, w, cur, n)
  <2>1. \A j \in 1..m : to[j] # n
    BY <1>4, <1>9 DEF IndexMap, m, n
  <2>2. m + 1 \in 1..(m + 1) /\ (m + 1) - 1 = m /\ n \in 1..n
    BY <1>1, <1>3
  <2>3. more[m + 1][1] = sep
    BY <1>3, <1>5
  <2>4. Precede(w[n].entries, sep)
    <3>1. Precede(w[n].entries, last)
      BY <2>2 DEF KeysUpTo, n
    <3> QED
      BY <3>1, NotAfterThenLess DEF Precede
  <2>5. Follow(sep, cur)
    <3>1. Len(cur) = 0
      BY <1>9
    <3> QED
      BY <3>1 DEF Follow
  <2>6. \A c \in n + 1..n : FALSE
    BY <1>1
  <2>7. Finds(more, to, w, n, m + 1)
    BY <1>3, <1>4, <2>1, <2>2, <2>3, <2>4, <2>6 DEF Finds, n
  <2> QED
    BY <2>3, <2>5, <2>7 DEF Indexed
<1>10. ASSUME NEW b \in 1..n
       PROVE  Indexed(more, to, w, cur, b)
  <2>1. b < n \/ b = n
    BY <1>1
  <2> QED
    BY <1>8, <1>9, <2>1
<1> QED
  BY <1>6, <1>7, <1>10 DEF n

\* Entries up to a key are up to every later one.
LEMMA PrecedeMore ==
  ASSUME NEW es, NEW a, Precede(es, a), IsKey(a), NEW b, IsKey(b), NotAfter(a, b)
  PROVE  Precede(es, b)
BY NotAfterThenLess DEF Precede

\* A key behind all others is added to the block.
LEMMA KeysGrow ==
  ASSUME NEW w, NEW cur, IsSeq(cur), NEW last, NEW key, IsKey(key), NEW value,
         KeysUpTo(w, cur, last), (IsKey(last) /\ KeyLess(last, key)) \/ (w = <<>> /\ cur = <<>>),
         NEW new, new = WithEntry(cur, key, value)
  PROVE  KeysUpTo(w, new, key) /\ new # <<>> /\ IsSeq(new)
<1> DEFINE e == <<key, value>>
           n == Len(cur)
<1>1. e[1] = key
  OBVIOUS
<1>2. new = Append(cur, e)
  BY DEF WithEntry
<1> HIDE DEF e
<1>3. /\ IsSeq(new) /\ Len(new) = n + 1
      /\ \A i \in 1..(n + 1) : new[i] = IF i = n + 1 THEN e ELSE cur[i]
  BY <1>2, SeqAppend
<1>4. n \in Nat
  BY SeqLen
<1> HIDE DEF n
<1>5. new # <<>>
  <2>1. Len(<<>>) = 0
    OBVIOUS
  <2> QED
    BY <1>3, <1>4, <2>1
<1>6. Precede(cur, key) /\ \A b \in 1..Len(w) : Precede(w[b].entries, key)
  <2>1. CASE IsKey(last) /\ KeyLess(last, key)
    <3>1. NotAfter(last, key)
      BY <2>1 DEF NotAfter
    <3> QED
      BY <2>1, <3>1, PrecedeMore DEF KeysUpTo
  <2>2. CASE w = <<>> /\ cur = <<>>
    <3>1. Len(w) = 0 /\ Len(cur) = 0
      BY <2>2
    <3> QED
      BY <3>1 DEF Precede
  <2> QED
    BY <2>1, <2>2
<1>7. Precede(new, key)
  <2> SUFFICES ASSUME NEW i \in 1..Len(new)
               PROVE  IsKey(new[i][1]) /\ NotAfter(new[i][1], key)
    BY DEF Precede
  <2>1. CASE i = n + 1
    BY <1>1, <1>3, <2>1 DEF NotAfter
  <2>2. CASE i # n + 1
    <3>1. i \in 1..n /\ new[i] = cur[i]
      BY <1>3, <1>4, <2>2
    <3> QED
      BY <1>6, <3>1 DEF Precede, n
  <2> QED
    BY <2>1, <2>2
<1> QED
  BY <1>3, <1>5, <1>6, <1>7 DEF KeysUpTo

\* What precedes all entries and the next one precedes them all.
LEMMA FollowMore ==
  ASSUME NEW cur, IsSeq(cur), NEW key, NEW value, NEW k, Follow(k, cur), KeyLess(k, key)
  PROVE  Follow(k, WithEntry(cur, key, value))
<1> DEFINE e == <<key, value>>
           n == Len(cur)
           new == WithEntry(cur, key, value)
<1>1. e[1] = key
  OBVIOUS
<1>2. new = Append(cur, e)
  BY DEF WithEntry
<1> HIDE DEF e, new
<1>3. /\ IsSeq(new) /\ Len(new) = n + 1
      /\ \A i \in 1..(n + 1) : new[i] = IF i = n + 1 THEN e ELSE cur[i]
  BY <1>2, SeqAppend
<1>4. n \in Nat
  BY SeqLen
<1> HIDE DEF n
<1>5. ASSUME NEW i \in 1..Len(new)
      PROVE  KeyLess(k, new[i][1])
  <2>1. CASE i = n + 1
    BY <1>1, <1>3, <2>1
  <2>2. CASE i # n + 1
    <3>1. i \in 1..n /\ new[i] = cur[i]
      BY <1>3, <1>4, <2>2
    <3> QED
      BY <3>1 DEF Follow, n
  <2> QED
    BY <2>1, <2>2
<1> QED
  BY <1>5 DEF Follow, new

\* With every block in the index below the key, the key may go into the block being
\* built.
LEMMA MapGrows ==
  ASSUME NEW ies, NEW blk, NEW w, NEW cur, IsSeq(cur), NEW key, NEW value,
         Points(ies, blk, w), Ascends(ies), Below(ies, key),
         \A b \in 1..Len(w) : Indexed(ies, blk, w, cur, b),
         WithEntry(cur, key, value) # <<>>
  PROVE  IndexMap(ies, blk, w, WithEntry(cur, key, value))
<1> DEFINE new == WithEntry(cur, key, value)
<1>1. ASSUME NEW b \in 1..Len(w)
      PROVE  Indexed(ies, blk, w, new, b)
  <2>1. PICK i : Finds(ies, blk, w, b, i) /\ Follow(ies[i][1], cur)
    BY DEF Indexed
  <2>2. KeyLess(ies[i][1], key)
    BY <2>1 DEF Finds, Below
  <2>3. Follow(ies[i][1], new)
    BY <2>1, <2>2, FollowMore
  <2> HIDE DEF new
  <2> QED
    BY <2>1, <2>3 DEF Indexed
<1> HIDE DEF new
<1>2. new # <<>>
  BY DEF new
<1>3. IndexMap(ies, blk, w, new)
  BY <1>1, <1>2 DEF IndexMap
<1> QED
  BY <1>3 DEF new

\* An index below a key is below every later one.
LEMMA BelowMore ==
  ASSUME NEW ies \in Seq(Entry), \A i \in 1..Len(ies) : IsKey(ies[i][1]),
         NEW last, IsKey(last), Below(ies, last), NEW key, IsKey(key), KeyLess(last, key)
  PROVE  Below(ies, key)
BY KeyTransitive DEF Below

\* and with one more entry, when that is below it too.
LEMMA BelowAppend ==
  ASSUME NEW ies \in Seq(Entry), NEW key, Below(ies, key), NEW e \in Entry,
         KeyLess(e[1], key)
  PROVE  Below(Append(ies, e), key)
<1> DEFINE more == Append(ies, e)
           m == Len(ies)
<1>1. /\ Len(more) = m + 1 /\ m \in Nat
      /\ \A i \in 1..m : more[i] = ies[i]
      /\ more[m + 1] = e
  BY EntrySeq
<1> HIDE DEF more, m
<1>2. ASSUME NEW i \in 1..Len(more)
      PROVE  KeyLess(more[i][1], key)
  <2>1. CASE i = m + 1
    BY <1>1, <2>1
  <2>2. CASE i # m + 1
    <3>1. i \in 1..m
      BY <1>1, <2>2
    <3> QED
      BY <1>1, <3>1 DEF Below, m
  <2> QED
    BY <2>1, <2>2
<1> QED
  BY <1>2 DEF Below, more

\* The block being built becomes the last of the blocks.
LEMMA MapFlushed ==
  ASSUME NEW ies, NEW blk, NEW w, IsSeq(w), NEW cur, cur # <<>>,
         IndexMap(ies, blk, w, cur), NEW h, NEW v,
         v = Append(w, [handle |-> h, entries |-> cur])
  PROVE  IndexMap(ies, blk, v, <<>>)
<1> DEFINE x == [handle |-> h, entries |-> cur]
           n == Len(w)
<1>1. x.handle = h /\ x.entries = cur
  OBVIOUS
<1> HIDE DEF x
<1>2. v = Append(w, x)
  BY DEF x
<1>3. /\ IsSeq(v) /\ Len(v) = n + 1
      /\ \A i \in 1..(n + 1) : v[i] = IF i = n + 1 THEN x ELSE w[i]
  BY <1>2, SeqAppend
<1>4. n \in Nat
  BY SeqLen
<1> HIDE DEF n
<1>5. v[n + 1] = x /\ \A i \in 1..n : v[i] = w[i]
  BY <1>3, <1>4
<1>6. Points(ies, blk, w) /\ Ascends(ies)
  BY DEF IndexMap
<1>7. \A i \in 1..Len(ies) : blk[i] \in 1..n
  BY <1>6 DEF Points, n
<1>8. Points(ies, blk, v)
  <2>1. \A i \in 1..Len(ies) : blk[i] \in 1..Len(v) /\ v[blk[i]] = w[blk[i]]
    BY <1>3, <1>4, <1>5, <1>7
  <2> QED
    BY <1>6, <2>1 DEF Points
<1>9. \A i \in 1..Len(ies) : blk[i] # Len(v)
  BY <1>3, <1>4, <1>7
<1>10. ASSUME NEW b \in 1..Len(v), b < Len(v)
       PROVE  Indexed(ies, blk, v, <<>>, b)
  <2>1. b \in 1..n /\ v[b] = w[b]
    BY <1>3, <1>4, <1>5, <1>10
  <2>2. PICK i : Finds(ies, blk, w, b, i) /\ Follow(ies[i][1], cur)
    BY <2>1 DEF IndexMap, Indexed, n
  <2> DEFINE k == ies[i][1]
  <2>3. ASSUME NEW c \in b + 1..Len(v)
        PROVE  Follow(k, v[c].entries)
    <3>1. CASE c = n + 1
      BY <1>1, <1>5, <2>2, <3>1
    <3>2. CASE c # n + 1
      <4>1. c \in b + 1..n /\ c \in 1..n
        BY <1>3, <1>4, <2>1, <3>2
      <4>2. v[c] = w[c]
        BY <1>5, <4>1
      <4> QED
        BY <2>2, <4>1, <4>2 DEF Finds, n
    <3> QED
      BY <3>1, <3>2
  <2>4. Finds(ies, blk, v, b, i)
    BY <2>1, <2>2, <2>3 DEF Finds
  <2>5. Follow(k, <<>>)
    <3>1. Len(<<>>) = 0
      OBVIOUS
    <3> QED
      BY <3>1 DEF Follow
  <2> QED
    BY <2>4, <2>5 DEF Indexed
<1>11. \A b \in 1..Len(v) : b < Len(v) \/ <<>> # <<>> => Indexed(ies, blk, v, <<>>, b)
  BY <1>10
<1> QED
  BY <1>6, <1>8, <1>9, <1>11 DEF IndexMap

\* The keys stay up to the last one when the block is written.
LEMMA KeysFlushed ==
  ASSUME NEW w, IsSeq(w), NEW cur, NEW last, KeysUpTo(w, cur, last), NEW h, NEW v,
         v = Append(w, [handle |-> h, entries |-> cur])
  PROVE  KeysUpTo(v, <<>>, last)
<1> DEFINE x == [handle |-> h, entries |-> cur]
           n == Len(w)
<1>1. x.entries = cur
  OBVIOUS
<1> HIDE DEF x
<1>2. v = Append(w, x)
  BY DEF x
<1>3. /\ Len(v) = n + 1
      /\ \A i \in 1..(n + 1) : v[i] = IF i = n + 1 THEN x ELSE w[i]
  BY <1>2, SeqAppend
<1>4. n \in Nat
  BY SeqLen
<1> HIDE DEF n
<1>5. Precede(<<>>, last)
  <2>1. Len(<<>>) = 0
    OBVIOUS
  <2> QED
    BY <2>1 DEF Precede
<1>6. ASSUME NEW b \in 1..Len(v)
      PROVE  Precede(v[b].entries, last)
  <2>1. CASE b = n + 1
    BY <1>1, <1>3, <2>1 DEF KeysUpTo
  <2>2. CASE b # n + 1
    <3>1. b \in 1..n /\ v[b] = w[b]
      BY <1>3, <1>4, <2>2
    <3> QED
      BY <3>1 DEF KeysUpTo, n
  <2> QED
    BY <2>1, <2>2
<1> QED
  BY <1>5, <1>6 DEF KeysUpTo

\* The blocks are in the file one after the other.
Placed(w, end) ==
  /\ \A b \in 1..Len(w) :
       /\ IsHandle(w[b].handle) /\ w[b].handle.offset + w[b].handle.size + 5 <= end
       /\ w[b].handle = [offset |-> w[b].handle.offset, size |-> w[b].handle.size]
  /\ \A b, c \in 1..Len(w) : b < c => w[b].handle.offset < w[c].handle.offset

\* Blocks before a position are before every later one.
LEMMA PlacedKept ==
  ASSUME NEW w, NEW m \in Nat, NEW n \in Nat, m <= n, Placed(w, m)
  PROVE  Placed(w, n)
<1>1. ASSUME NEW b \in 1..Len(w)
      PROVE  w[b].handle.offset + w[b].handle.size + 5 <= n
  <2>1. w[b].handle.offset \in Nat /\ w[b].handle.size \in Nat
        /\ w[b].handle.offset + w[b].handle.size + 5 <= m
    BY DEF Placed, IsHandle
  <2> QED
    BY <2>1
<1> QED
  BY <1>1 DEF Placed

\* The blocks with one more.
WithBlock(w, h, es) == Append(w, [handle |-> h, entries |-> es])

\* The handle of what is written at a position.
HandleOf(h, at, size) == h = [offset |-> at, size |-> size]

\* One more block behind the others.
LEMMA PlacedNext ==
  ASSUME NEW w, IsSeq(w), NEW at \in Nat, NEW size \in Nat, Placed(w, at), NEW h,
         HandleOf(h, at, size), NEW cur, NEW v,
         v = WithBlock(w, h, cur), NEW end, end = at + size + 5
  PROVE  /\ Placed(v, end) /\ v # <<>> /\ IsSeq(v) /\ v[Len(v)].handle = h
         /\ IsHandle(h)
<1> DEFINE x == [handle |-> h, entries |-> cur]
           n == Len(w)
<1>1. x.handle = h /\ x.entries = cur
  OBVIOUS
<1> HIDE DEF x
<1>2. v = Append(w, x)
  BY DEF x, WithBlock
<1>3. /\ IsSeq(v) /\ Len(v) = n + 1
      /\ \A i \in 1..(n + 1) : v[i] = IF i = n + 1 THEN x ELSE w[i]
  BY <1>2, SeqAppend
<1>4. n \in Nat
  BY SeqLen
<1> HIDE DEF n
<1>5. v[n + 1] = x /\ \A i \in 1..n : v[i] = w[i]
  BY <1>3, <1>4
<1>6. h.offset = at /\ h.size = size /\ IsHandle(h) /\ h = [offset |-> h.offset, size |-> h.size]
  BY DEF IsHandle, HandleOf
<1>7. ASSUME NEW b \in 1..Len(v)
      PROVE  /\ IsHandle(v[b].handle)
             /\ v[b].handle.offset + v[b].handle.size + 5 <= end
             /\ v[b].handle = [offset |-> v[b].handle.offset, size |-> v[b].handle.size]
  <2>1. CASE b = n + 1
    <3>1. v[b].handle = h
      BY <1>1, <1>5, <2>1
    <3>2. h.offset + h.size + 5 <= end
      BY <1>6
    <3> QED
      BY <1>6, <3>1, <3>2
  <2>2. CASE b # n + 1
    <3>1. b \in 1..n /\ v[b] = w[b]
      BY <1>3, <1>4, <1>5, <2>2
    <3>2. /\ IsHandle(w[b].handle) /\ w[b].handle.offset + w[b].handle.size + 5 <= at
          /\ w[b].handle = [offset |-> w[b].handle.offset, size |-> w[b].handle.size]
      BY <3>1 DEF Placed, n
    <3>3. w[b].handle.offset + w[b].handle.size + 5 <= end
      BY <3>2 DEF IsHandle
    <3> QED
      BY <3>1, <3>2, <3>3
  <2> QED
    BY <2>1, <2>2
<1>8. ASSUME NEW b \in 1..Len(v), NEW c \in 1..Len(v), b < c
      PROVE  v[b].handle.offset < v[c].handle.offset
  <2>1. b \in 1..n /\ v[b] = w[b]
    BY <1>3, <1>4, <1>5, <1>8
  <2>2. CASE c = n + 1
    <3>1. v[c].handle = h
      BY <1>1, <1>5, <2>2
    <3>2. IsHandle(w[b].handle) /\ w[b].handle.offset + w[b].handle.size + 5 <= at
      BY <2>1 DEF Placed, n
    <3> DEFINE o == w[b].handle.offset
               s == w[b].handle.size
    <3>3. o \in Nat /\ s \in Nat /\ o + s + 5 <= at
      BY <3>2 DEF IsHandle
    <3> HIDE DEF o, s
    <3>4. o < at
      BY <3>3
    <3> QED
      BY <1>6, <2>1, <3>1, <3>4 DEF o
  <2>3. CASE c # n + 1
    <3>1. c \in 1..n /\ v[c] = w[c]
      BY <1>3, <1>4, <1>5, <2>3
    <3> QED
      BY <1>8, <2>1, <3>1 DEF Placed, n
  <2> QED
    BY <2>2, <2>3
<1>9. Placed(v, end)
  BY <1>7, <1>8 DEF Placed
<1>10. v # <<>>
  <2>1. Len(<<>>) = 0
    OBVIOUS
  <2> QED
    BY <1>3, <1>4, <2>1
<1> QED
  BY <1>1, <1>3, <1>5, <1>6, <1>9, <1>10

\* A handle into a small file takes two varints of at most five bytes.
LEMMA HandleLength ==
  ASSUME NEW h, IsHandle(h), h.offset < Max32, h.size < Max32
  PROVE  /\ EncodeHandle(h) \in Seq(Nat) /\ Len(EncodeHandle(h)) <= 10
         /\ Len(EncodeHandle(h)) = Len(PutVarint[h.offset]) + Len(PutVarint[h.size])
<1> DEFINE x == PutVarint[h.offset]
           y == PutVarint[h.size]
<1>1. Max32 <= Max35 /\ Max32 \in Nat /\ Max35 \in Nat
  BY DEF Max32, Max35
<1>2. h.offset \in Nat /\ h.size \in Nat /\ h.offset < Max35 /\ h.size < Max35
  BY <1>1 DEF IsHandle
<1>3. x \in Seq(Nat) /\ y \in Seq(Nat)
  BY <1>2, VarintType
<1>4. Len(x) \in 1..5 /\ Len(y) \in 1..5
  <2>1. ASSUME NEW a \in Nat, a < Max35
        PROVE  Len(PutVarint[a]) \in 1..5
    <3>1. PICK m \in 1..5 : \E d : Coded(a, m, d)
      BY <2>1, CodedFive
    <3> QED
      BY <3>1 DEF Coded
  <2> QED
    BY <1>2, <2>1
<1>5. EncodeHandle(h) = x \o y
  BY DEF EncodeHandle
<1> HIDE DEF x, y
<1>6. x \o y \in Seq(Nat) /\ Len(x \o y) = Len(x) + Len(y)
  BY <1>3, ConcatProperties
<1>7. Len(x) + Len(y) <= 10
  <2>1. \A a, b \in 1..5 : a + b <= 10
    OBVIOUS
  <2> QED
    BY <1>4, <2>1
<1>8. EncodeHandle(h) \in Seq(Nat) /\ Len(EncodeHandle(h)) = Len(x) + Len(y)
  BY <1>5, <1>6
<1>9. Len(EncodeHandle(h)) <= 10
  BY <1>7, <1>8
<1> QED
  BY <1>8, <1>9 DEF x, y

-----------------------------------------------------------------------------
(* The index while the table is built.                                     *)

\* What the Rep r knows of the blocks w and of the entries cur since the last one.
IndexState(r, w, cur) ==
  /\ Clean(r) /\ IsSeq(w) /\ IsSeq(cur)
  /\ r.num_entries \in Nat
  /\ r.num_entries = 0 => w = <<>> /\ cur = <<>>
  /\ r.num_entries # 0 => IsKey(r.last_key) /\ Len(r.last_key) < Max32
  /\ cur = <<>> => r.data_block = EmptyBlock
  /\ w = <<>> => r.pending_index_entry = FALSE
  /\ w # <<>> => r.pending_index_entry = TRUE /\ r.pending_handle = w[Len(w)].handle
  /\ Placed(w, r.offset) /\ KeysUpTo(w, cur, r.last_key)
  /\ r.offset < Max32 =>
       \E ies, blk : /\ BlockInv(r.index_block, ies) /\ IndexMap(ies, blk, w, cur)
                     /\ Below(ies, r.last_key)

\* TableBuilder::Flush() makes a block of the entries since the last one, and its index
\* entry is pending.
LEMMA FlushIndexed ==
  ASSUME NEW r, RepInv(r), r.ok, NEW w, NEW cur, IndexState(r, w, cur), cur # <<>>,
         r.data_block # EmptyBlock, BlockType(r.data_block),
         NEW f, f = FlushBlock(r), f.ok,
         NEW v, v = Append(w, [handle |-> f.pending_handle, entries |-> cur])
  PROVE  IndexState(f, v, <<>>)
<1> DEFINE x == BlockFinish(r.data_block)
           n == Len(x)
           at == r.offset
           h == [offset |-> at, size |-> n]
           last == r.last_key
<1>1. /\ f.index_block = r.index_block /\ f.last_key = r.last_key
      /\ f.num_entries = r.num_entries /\ f.data_block = EmptyBlock
      /\ f.pending_handle = h
      /\ f.offset = r.offset + n + kBlockTrailerSize
      /\ f.pending_index_entry = TRUE /\ (Clean(r) => Clean(f))
  <2>1. IsRep(r) /\ x = BlockFinish(r.data_block)
    BY DEF RepInv
  <2>2. r.ok /\ f = FlushBlock(r) /\ f.ok /\ r.data_block # EmptyBlock
    OBVIOUS
  <2> HIDE DEF x
  <2>3. /\ IsRep(f) /\ f.options = r.options /\ f.index_block = r.index_block
        /\ f.last_key = r.last_key /\ f.closed = r.closed
        /\ f.num_entries = r.num_entries /\ f.data_block = EmptyBlock
        /\ f.pending_handle = [offset |-> r.offset, size |-> Len(x)]
        /\ f.handle = f.pending_handle
        /\ f.filter_block = r.filter_block
             \/ f.filter_block = StartBlock(r.filter_block, f.offset)
        /\ f.ok => /\ f.file = ((r.file \o x) \o Trailer(x)) \o <<>>
                   /\ f.offset = r.offset + Len(x) + kBlockTrailerSize
                   /\ f.pending_index_entry = TRUE /\ (Clean(r) => Clean(f))
    <3>1. Flushed(f, r, x)
      BY ONLY <2>1, <2>2, FlushBlockIs
    <3> QED
      BY ONLY <3>1 DEF Flushed
  <2> QED
    BY <2>2, <2>3
<1>2. n \in Nat
  BY FinishParts, LenProperties
<1>3. at \in Nat
  BY SeqLen DEF RepInv
<1>0. r.num_entries # 0
  BY DEF IndexState
<1>4. /\ Clean(r) /\ IsSeq(w) /\ IsSeq(cur)
      /\ r.num_entries \in Nat /\ r.num_entries # 0
      /\ IsKey(last) /\ Len(last) < Max32
      /\ Placed(w, at) /\ KeysUpTo(w, cur, last)
      /\ r.offset < Max32 =>
           \E ies, blk : /\ BlockInv(r.index_block, ies) /\ IndexMap(ies, blk, w, cur)
                         /\ Below(ies, last)
  BY <1>0 DEF IndexState
<1>5. v = Append(w, [handle |-> h, entries |-> cur])
  BY <1>1
<1> HIDE DEF x, n, at, last
<1>6. HandleOf(h, at, n)
  BY DEF HandleOf
<1> HIDE DEF h
<1> DEFINE end == at + n + 5
<1>7. /\ Placed(v, end) /\ v # <<>> /\ IsSeq(v) /\ v[Len(v)].handle = h
      /\ IsHandle(h)
  <2>1. IsSeq(w) /\ Placed(w, at)
    BY <1>4
  <2>2. end = at + n + 5
    OBVIOUS
  <2>3. v = WithBlock(w, h, cur)
    BY <1>5 DEF WithBlock
  <2> HIDE DEF end
  <2> QED
    BY ONLY <1>2, <1>3, <1>6, <2>1, <2>2, <2>3, PlacedNext
<1>8. f.offset = at + n + 5
  BY <1>1 DEF at, kBlockTrailerSize
<1>9. KeysUpTo(v, <<>>, last)
  BY <1>4, <1>5, KeysFlushed
<1>10. ASSUME f.offset < Max32
       PROVE  \E ies, blk : /\ BlockInv(f.index_block, ies) /\ IndexMap(ies, blk, v, <<>>)
                            /\ Below(ies, last)
  <2>1. r.offset < Max32
    <3>1. at < Max32
      BY <1>2, <1>3, <1>8, <1>10, Max32Nat
    <3> QED
      BY <3>1 DEF at
  <2>2. PICK ies, blk : /\ BlockInv(r.index_block, ies) /\ IndexMap(ies, blk, w, cur)
                        /\ Below(ies, last)
    BY <1>4, <2>1
  <2>3. IndexMap(ies, blk, v, <<>>)
    BY <1>4, <1>5, <2>2, MapFlushed
  <2> QED
    BY <1>1, <2>2, <2>3
<1>11. IsSeq(<<>>)
  BY EmptySeq DEF IsSeq
<1>12. Clean(f) /\ f.last_key = last
  BY <1>1, <1>4 DEF last
<1> QED
  BY <1>1, <1>4, <1>7, <1>8, <1>9, <1>10, <1>11, <1>12 DEF IndexState

\* The keys and values that Add() gets.
LEMMA KeyFits ==
  ASSUME SizesFit, NEW o \in OptionSets, NEW key \in Keys, NEW value \in Values
  PROVE  /\ IsKey(key) /\ Len(key) < Max32 /\ value \in Seq(Nat) /\ Len(value) < Max32
<1>1. key \in Seq(Nat) /\ value \in Seq(Nat) /\ Len(key) \in Nat /\ Len(value) \in Nat
  BY InputTypes
<1>2. o.block_size \in Nat
  BY OptionsType
<1>3. o.block_size + Len(key) + Len(value) + 27 <= Max32
  BY DEF SizesFit
<1>4. Len(key) < Max32 /\ Len(value) < Max32
  BY <1>1, <1>2, <1>3, Max32Nat
<1>5. Len(key) >= 8
  BY TableAssumption
<1> QED
  BY <1>1, <1>4, <1>5 DEF IsKey

\* The handle of a block in the file of less than 4 GB.
LEMMA PlacedHandle ==
  ASSUME NEW w, NEW end \in Nat, Placed(w, end), end < Max32, NEW b \in 1..Len(w), NEW h,
         h = w[b].handle
  PROVE  /\ IsHandle(h) /\ h.offset < Max32 /\ h.size < Max32
         /\ h = [offset |-> h.offset, size |-> h.size]
<1>1. /\ IsHandle(h) /\ h.offset + h.size + 5 <= end
      /\ h = [offset |-> h.offset, size |-> h.size]
  BY DEF Placed
<1> DEFINE o == h.offset
           s == h.size
<1>2. o \in Nat /\ s \in Nat /\ o + s + 5 <= end
  BY <1>1 DEF IsHandle
<1> HIDE DEF o, s
<1>3. o < Max32 /\ s < Max32
  BY <1>2, Max32Nat
<1> QED
  BY <1>1, <1>3 DEF o, s

\* The index entry that Add() and Finish() make for the last block.
LEMMA EntryMade ==
  ASSUME NEW i, NEW ies, BlockInv(i, ies), NEW sep, IsKey(sep), Len(sep) < Max32,
         NEW h, IsHandle(h), h.offset < Max32, h.size < Max32,
         NEW e, e = <<sep, EncodeHandle(h)>>
  PROVE  /\ e \in Entry /\ e[1] = sep
         /\ BlockInv(BlockAdd(i, sep, EncodeHandle(h), 1), Append(ies, e))
<1> DEFINE v == EncodeHandle(h)
<1>1. v \in Seq(Nat) /\ Len(v) <= 10
  BY HandleLength
<1>2. sep \in Seq(Nat)
  BY DEF IsKey
<1>3. e = <<sep, v>>
  OBVIOUS
<1> HIDE DEF v
<1>4. Len(v) < Max32
  <2>1. Len(v) \in Nat /\ 10 < Max32 /\ Max32 \in Nat
    BY <1>1, LenProperties DEF Max32
  <2> QED
    BY <1>1, <2>1
<1>5. e \in Entry /\ e[1] = sep
  BY <1>1, <1>2, <1>3 DEF Entry
<1>6. BlockInv(BlockAdd(i, sep, v, 1), Append(ies, <<sep, v>>))
  <2>1. 1 \in Nat \ {0}
    OBVIOUS
  <2> QED
    BY <1>1, <1>2, <1>4, <2>1, BlockAdded
<1> QED
  BY <1>3, <1>5, <1>6 DEF v

\* The order of the keys is the client's.
InOrder(r, key) == r.num_entries # 0 => KeyLess(r.last_key, key)

\* Add() before the block is looked at.
LEMMA AddIndexed ==
  ASSUME SizesFit, NEW r, RepInv(r), NEW w, NEW cur, IndexState(r, w, cur),
         NEW key \in Keys, NEW value \in Values, InOrder(r, key),
         NEW a, a = AddIndexEntry(r, FindShortestSeparator(r.last_key, key)),
         NEW c, c = AddToBlock(a, key, value), NEW new, new = WithEntry(cur, key, value)
  PROVE  IndexState(c, w, new) /\ new # <<>>
<1> DEFINE last == r.last_key
           sep == FindShortestSeparator(last, key)
           h == r.pending_handle
           e == <<sep, EncodeHandle(h)>>
           i == r.index_block
<1>1. IsKey(key) /\ Len(key) < Max32
  BY KeyFits DEF RepInv
<1>2. IsRep(r) /\ r.offset \in Nat
  BY SeqLen DEF RepInv
<1>3. /\ Clean(r) /\ IsSeq(w) /\ IsSeq(cur)
      /\ r.num_entries \in Nat
      /\ r.num_entries = 0 => w = <<>> /\ cur = <<>>
      /\ r.num_entries # 0 => IsKey(last) /\ Len(last) < Max32
      /\ w = <<>> => r.pending_index_entry = FALSE
      /\ w # <<>> => r.pending_index_entry = TRUE /\ h = w[Len(w)].handle
      /\ Placed(w, r.offset) /\ KeysUpTo(w, cur, last)
  BY DEF IndexState
<1>4. r.offset < Max32 =>
        \E ies, blk : /\ BlockInv(i, ies) /\ IndexMap(ies, blk, w, cur)
                      /\ Below(ies, last)
  BY DEF IndexState
<1>5. /\ IsRep(a) /\ SameFile(a, r) /\ a.data_block = r.data_block
      /\ a.num_entries = r.num_entries
      /\ a.pending_index_entry = r.pending_index_entry
      /\ a.filter_block = r.filter_block
      /\ ~r.pending_index_entry => a = r
      /\ r.pending_index_entry =>
           /\ a.last_key = sep
           /\ a.index_block = BlockAdd(i, sep, EncodeHandle(h), 1)
  <2>1. a = AddIndexEntry(r, sep)
    OBVIOUS
  <2> HIDE DEF sep
  <2> QED
    BY ONLY <1>2, <2>1, IndexEntryIs
<1>6. /\ IsRep(c) /\ SameFile(c, a) /\ c.index_block = a.index_block
      /\ c.pending_index_entry = a.pending_index_entry
      /\ c.last_key = key /\ c.num_entries = a.num_entries + 1
  <2>1. /\ IsRep(c) /\ SameFile(c, a) /\ c.index_block = a.index_block
        /\ c.pending_index_entry = a.pending_index_entry
        /\ c.last_key = key /\ c.num_entries = a.num_entries + 1
        /\ c.data_block =
             BlockAdd(a.data_block, key, value, a.options.block_restart_interval)
    <3>1. c = AddToBlock(a, key, value) /\ IsRep(a)
      BY <1>5
    <3> QED
      BY ONLY <3>1, AddToBlockIs
  <2> QED
    BY <2>1
<1>7. Clean(c)
  BY <1>3, <1>5, <1>6, SameFileClean
<1>8. /\ c.offset = r.offset /\ c.pending_handle = h
      /\ c.pending_index_entry = r.pending_index_entry
      /\ c.num_entries = r.num_entries + 1
  BY <1>5, <1>6 DEF SameFile
<1>9. c.num_entries \in Nat /\ c.num_entries # 0
  BY <1>3, <1>8
<1>10. (IsKey(last) /\ KeyLess(last, key)) \/ (w = <<>> /\ cur = <<>>)
  BY <1>3 DEF InOrder
<1> HIDE DEF last
<1>11. KeysUpTo(w, new, key) /\ new # <<>> /\ IsSeq(new)
  BY <1>1, <1>3, <1>10, KeysGrow
<1> HIDE DEF h, i
<1>12. ASSUME c.offset < Max32
       PROVE  \E ies, blk : /\ BlockInv(c.index_block, ies) /\ IndexMap(ies, blk, w, new)
                            /\ Below(ies, key)
  <2>1. r.offset < Max32
    BY <1>8, <1>12
  <2>2. PICK ies, blk : BlockInv(i, ies) /\ IndexMap(ies, blk, w, cur) /\ Below(ies, last)
    BY <1>4, <2>1
  <2>3. Points(ies, blk, w) /\ Ascends(ies)
    BY <2>2 DEF IndexMap
  <2>4. CASE w = <<>>
    <3>1. c.index_block = i
      <4>1. ~r.pending_index_entry
        BY <1>3, <2>4
      <4>2. a = r
        BY <1>5, <4>1
      <4> QED
        BY <1>6, <4>2 DEF i
    <3>2. Len(w) = 0
      BY <2>4
    <3>3. Len(ies) = 0
      <4>1. Len(ies) \in Nat
        BY <2>3, LenProperties DEF Points
      <4>2. \A j \in 1..Len(ies) : FALSE
        BY <2>3, <3>2 DEF Points
      <4> QED
        BY <4>1, <4>2
    <3>4. Below(ies, key)
      BY <3>3 DEF Below
    <3>5. \A b \in 1..Len(w) : Indexed(ies, blk, w, cur, b)
      BY <3>2
    <3>6. IndexMap(ies, blk, w, new)
      BY <1>3, <1>11, <2>3, <3>4, <3>5, MapGrows
    <3> QED
      BY <2>2, <3>1, <3>4, <3>6
  <2>5. CASE w # <<>>
    <3>1. IsKey(last) /\ KeyLess(last, key) /\ Len(last) < Max32 /\ Len(last) \in Nat
      BY <1>3, <1>10, <2>5, LenProperties DEF IsKey
    <3>2. /\ IsKey(sep) /\ NotAfter(last, sep) /\ KeyLess(sep, key) /\ Len(sep) <= Len(last)
      BY <1>1, <3>1, SeparatorOrder
    <3>3. e = <<sep, EncodeHandle(h)>>
      OBVIOUS
    <3> HIDE DEF sep, e
    <3>4. Len(sep) < Max32
      <4>1. Len(sep) \in Nat
        BY <3>2, LenProperties DEF IsKey
      <4> QED
        BY <3>1, <3>2, <4>1, Max32Nat
    <3>5. Len(w) \in 1..Len(w)
      <4>1. Len(w) \in Nat /\ Len(w) # 0
        BY <1>3, <2>5, SeqLen, EmptySeq DEF IsSeq
      <4> QED
        BY <4>1
    <3>6. h = w[Len(w)].handle
      BY <1>3, <2>5
    <3>7. IsHandle(h) /\ h.offset < Max32 /\ h.size < Max32
      BY <1>2, <1>3, <2>1, <3>5, <3>6, PlacedHandle
    <3> DEFINE more == Append(ies, e)
               to == Append(blk, Len(w))
    <3>8. /\ e \in Entry /\ e[1] = sep
          /\ BlockInv(BlockAdd(i, sep, EncodeHandle(h), 1), Append(ies, e))
      BY <2>2, <3>2, <3>3, <3>4, <3>7, EntryMade
    <3>9. c.index_block = BlockAdd(i, sep, EncodeHandle(h), 1)
      <4>1. r.pending_index_entry
        BY <1>3, <2>5
      <4> QED
        BY <1>5, <1>6, <4>1
    <3>10. /\ Points(more, to, w) /\ Ascends(more)
           /\ \A b \in 1..Len(w) : Indexed(more, to, w, cur, b)
      <4>1. e = <<sep, EncodeHandle(w[Len(w)].handle)>>
        BY <3>3, <3>6
      <4>2. more = Append(ies, e) /\ to = Append(blk, Len(w))
        OBVIOUS
      <4> HIDE DEF more, to
      <4> QED
        BY <1>3, <2>2, <2>5, <3>1, <3>2, <3>8, <4>1, <4>2, EntryIndexed
    <3>11. Below(more, key)
      <4>1. ies \in Seq(Entry) /\ \A j \in 1..Len(ies) : IsKey(ies[j][1])
        BY <2>3 DEF Points
      <4>2. Below(ies, key)
        BY <1>1, <2>2, <3>1, <4>1, BelowMore
      <4>3. KeyLess(e[1], key)
        BY <3>2, <3>8
      <4> QED
        BY <3>8, <4>1, <4>2, <4>3, BelowAppend
    <3>12. IndexMap(more, to, w, new)
      <4> HIDE DEF more, to
      <4> QED
        BY <1>3, <1>11, <3>10, <3>11, MapGrows
    <3>13. BlockInv(c.index_block, more)
      BY <3>8, <3>9
    <3> QED
      BY <3>11, <3>12, <3>13
  <2> QED
    BY <2>4, <2>5
<1>13. /\ w = <<>> => c.pending_index_entry = FALSE
       /\ w # <<>> => c.pending_index_entry = TRUE /\ c.pending_handle = w[Len(w)].handle
  BY <1>3, <1>8
<1>14. Placed(w, c.offset) /\ c.last_key = key
  BY <1>3, <1>6, <1>8
<1> QED
  BY <1>1, <1>3, <1>7, <1>9, <1>11, <1>12, <1>13, <1>14 DEF IndexState

\* What a call leaves of the blocks and of the entries since the last one.
Noted(f, w, new) ==
  \/ f.data_block = EmptyBlock /\ IndexState(f, WithBlock(w, f.pending_handle, new), <<>>)
  \/ f.data_block # EmptyBlock /\ IndexState(f, w, new)

\* What TableBuilder::Flush() leaves.
LEMMA FlushNoted ==
  ASSUME NEW r, RepInv(r), r.ok, NEW w, NEW cur, IndexState(r, w, cur), cur # <<>>,
         r.data_block # EmptyBlock, BlockType(r.data_block), NEW f, f = FlushBlock(r), f.ok
  PROVE  f.data_block = EmptyBlock /\ Noted(f, w, cur)
<1> DEFINE h == f.pending_handle
           v == WithBlock(w, h, cur)
<1>1. v = Append(w, [handle |-> f.pending_handle, entries |-> cur])
  BY DEF WithBlock
<1> HIDE DEF v
<1>2. IndexState(f, v, <<>>)
  BY <1>1, FlushIndexed
<1>3. f.data_block = EmptyBlock
  <2> DEFINE x == BlockFinish(r.data_block)
  <2>1. IsRep(r) /\ x = BlockFinish(r.data_block)
    BY DEF RepInv
  <2>2. r.ok /\ f = FlushBlock(r) /\ r.data_block # EmptyBlock
    OBVIOUS
  <2> HIDE DEF x
  <2>3. /\ IsRep(f) /\ f.options = r.options /\ f.index_block = r.index_block
        /\ f.last_key = r.last_key /\ f.closed = r.closed
        /\ f.num_entries = r.num_entries /\ f.data_block = EmptyBlock
        /\ f.pending_handle = [offset |-> r.offset, size |-> Len(x)]
        /\ f.handle = f.pending_handle
        /\ f.filter_block = r.filter_block
             \/ f.filter_block = StartBlock(r.filter_block, f.offset)
        /\ f.ok => /\ f.file = ((r.file \o x) \o Trailer(x)) \o <<>>
                   /\ f.offset = r.offset + Len(x) + kBlockTrailerSize
                   /\ f.pending_index_entry = TRUE /\ (Clean(r) => Clean(f))
    <3>1. Flushed(f, r, x)
      BY ONLY <2>1, <2>2, FlushBlockIs
    <3> QED
      BY ONLY <3>1 DEF Flushed
  <2> QED
    BY <2>3
<1> QED
  BY <1>2, <1>3 DEF Noted, v

\* What TableBuilder::Add() leaves, whether it flushes the block or not.
LEMMA AddNoted ==
  ASSUME SizesFit, NEW r, RepInv(r), r.ok, NEW w, NEW cur, IndexState(r, w, cur),
         BlockType(r.data_block), NEW key \in Keys, NEW value \in Values, InOrder(r, key),
         NEW f, f = AddEntry(r, key, value), f.ok
  PROVE  Noted(f, w, WithEntry(cur, key, value)) /\ WithEntry(cur, key, value) # <<>>
<1> DEFINE sep == FindShortestSeparator(r.last_key, key)
           a == AddIndexEntry(r, sep)
           c == AddToBlock(a, key, value)
           new == WithEntry(cur, key, value)
           old == r.data_block
           interval == r.options.block_restart_interval
           b == BlockAdd(old, key, value, interval)
<1>1. f = FlushIfFull(c)
  BY DEF AddEntry
<1>2. IndexState(c, w, new) /\ new # <<>>
  <2>1. /\ a = AddIndexEntry(r, FindShortestSeparator(r.last_key, key))
        /\ c = AddToBlock(a, key, value) /\ new = WithEntry(cur, key, value)
    OBVIOUS
  <2> HIDE DEF a, c, new
  <2> QED
    BY <2>1, AddIndexed
<1> HIDE DEF new
<1>3. IsKey(key) /\ Len(key) < Max32 /\ value \in Seq(Nat) /\ Len(value) < Max32
  BY KeyFits DEF RepInv
<1>4. key \in Seq(Nat)
  BY <1>3 DEF IsKey
<1>5. sep \in Seq(Nat)
  BY <1>4, SeparatorType DEF RepInv
<1> HIDE DEF sep
<1>6. /\ RepInv(a) /\ a.data_block = r.data_block /\ a.file = r.file /\ a.ok = r.ok
      /\ a.closed = r.closed /\ a.options = r.options
      /\ a.pending_handle = r.pending_handle
  BY <1>5, IndexEntryKeeps
<1> HIDE DEF a
<1>7. /\ RepInv(c) /\ c.file = a.file /\ c.ok = a.ok
      /\ c.closed = a.closed /\ c.options = a.options
      /\ c.data_block =
           BlockAdd(a.data_block, key, value, a.options.block_restart_interval)
  <2>1. c = AddToBlock(a, key, value)
    OBVIOUS
  <2>2. RepInv(a) /\ key \in Seq(Nat)
    BY <1>4, <1>6
  <2> HIDE DEF c
  <2> QED
    BY ONLY <2>1, <2>2, AddToBlockKeeps
<1> HIDE DEF c
<1>8. c.data_block = b /\ c.ok
  BY <1>6, <1>7
<1>9. interval \in Nat
  BY OptionsType DEF RepInv
<1>10. BlockType(old)
  OBVIOUS
<1> HIDE DEF old, interval
<1>11. BlockType(b) /\ b.buffer # <<>>
  BY <1>3, <1>4, <1>9, <1>10, BlockAddSize
<1> HIDE DEF b
<1>12. b # EmptyBlock
  BY <1>11 DEF EmptyBlock
<1>13. f = FlushBlock(c) \/ f = c
  BY <1>1 DEF FlushIfFull
<1>14. Noted(f, w, new)
  <2>1. CASE f = FlushBlock(c)
    BY <1>2, <1>7, <1>8, <1>11, <1>12, <2>1, FlushNoted
  <2>2. CASE f = c
    BY <1>2, <1>8, <1>12, <2>2 DEF Noted
  <2> QED
    BY <1>13, <2>1, <2>2
<1> QED
  BY <1>2, <1>14 DEF new

-----------------------------------------------------------------------------
(* The finished file.                                                      *)

\* The handle i leads to an index of all blocks.
IndexStored(file, i, w) ==
  \E b, ies, blk : /\ BlockInv(b, ies) /\ i.size = Len(BlockFinish(b))
                   /\ Piece(file, i.offset, BlockFinish(b))
                   /\ Points(ies, blk, w) /\ Ascends(ies)
                   /\ \A n \in 1..Len(w) : Indexed(ies, blk, w, <<>>, n)

\* A block, or nothing, ends before the footer.
InFile(h, file) == IsHandle(h) /\ h.offset + h.size <= Len(file)

\* The file that a successful Finish() leaves, with the metaindex at m: no file operation
\* failed, the blocks are in it, and the footer at its end leads to the index.
WholeWith(r, w, m) ==
  /\ Clean(r) /\ IsSeq(r.file) /\ r.offset = Len(r.file) /\ Placed(w, r.offset)
  /\ \E i : /\ InFile(m, r.file) /\ InFile(i, r.file)
            /\ Len(r.file) - 48 \in Nat
            /\ Piece(r.file, Len(r.file) - 48, Footer(m, i))
            /\ Len(r.file) < Max32 => IndexStored(r.file, i, w)

\* The same, wherever the metaindex is.
WholeFile(r, w) == \E m : WholeWith(r, w, m)

\* The inductive invariant about the index, on top of TableInv.
IndexInv ==
  /\ rep.ok /\ ~rep.closed => IndexState(rep, written, current)
  /\ finish # "none" => rep.closed
  /\ finish = "ok" => rep.ok /\ WholeFile(rep, written)

\* Add() and Flush() keep the invariant once what they leave is known.
LEMMA NotedKeeps ==
  ASSUME NEW f, f = rep', NEW new, new # <<>>, Note(f, new), f.ok => Noted(f, written, new),
         IndexInv, ~rep.closed, finish' = finish
  PROVE  IndexInv'
<1>1. finish' = "none"
  BY DEF IndexInv
<1>2. ASSUME f.ok
      PROVE  IndexState(f, written', current')
  <2>1. CASE f.data_block = EmptyBlock
    <3>1. /\ written' = Append(written, [handle |-> f.pending_handle, entries |-> new])
          /\ current' = <<>>
      BY <1>2, <2>1 DEF Note
    <3>2. written' = WithBlock(written, f.pending_handle, new)
      BY <3>1 DEF WithBlock
    <3>3. IndexState(f, WithBlock(written, f.pending_handle, new), <<>>)
      BY <1>2, <2>1 DEF Noted
    <3> QED
      BY <3>1, <3>2, <3>3
  <2>2. CASE f.data_block # EmptyBlock
    <3>1. written' = written /\ current' = new
      BY <2>2 DEF Note
    <3> QED
      BY <1>2, <2>2, <3>1 DEF Noted
  <2> QED
    BY <2>1, <2>2
<1> QED
  BY <1>1, <1>2 DEF IndexInv

\* TableBuilder::Add() keeps the invariant.
LEMMA AddIndexStep ==
  ASSUME SizesFit, TableInv, IndexInv, NEW key \in Keys, NEW value \in Values,
         Add(key, value)
  PROVE  IndexInv'
<1> DEFINE r == rep
           f == rep'
           new == Append(current, <<key, value>>)
<1>1. /\ ~rep.closed /\ rep.ok /\ rep' = AddEntry(rep, key, value) /\ Note(rep', new)
      /\ (rep.num_entries > 0 => KeyLess(rep.last_key, key)) /\ finish' = finish
  BY DEF Add
<1>2. RepInv(r) /\ BlockType(r.data_block)
  BY <1>1 DEF TableInv, BlockGood, BlockInv
<1>3. IndexState(r, written, current)
  BY <1>1 DEF IndexInv
<1>4. InOrder(r, key)
  <2>1. rep.num_entries # 0 => rep.num_entries > 0
    BY <1>3 DEF IndexState
  <2> QED
    BY <1>1, <2>1 DEF InOrder
<1>5. new = WithEntry(current, key, value) /\ f = AddEntry(r, key, value) /\ r.ok /\ f = rep'
      /\ Note(f, new)
  BY <1>1 DEF WithEntry
<1> HIDE DEF r, f, new
<1>6. f.ok => Noted(f, written, new) /\ new # <<>>
  BY <1>2, <1>3, <1>4, <1>5, AddNoted
<1>7. new # <<>>
  <2>1. IsSeq(current)
    BY <1>3 DEF IndexState
  <2>2. Len(new) = Len(current) + 1 /\ Len(current) \in Nat
    BY <1>5, <2>1, SeqAppend, SeqLen DEF new
  <2>3. Len(<<>>) = 0
    OBVIOUS
  <2> QED
    BY <2>2, <2>3
<1> QED
  BY <1>1, <1>5, <1>6, <1>7, NotedKeeps

\* TableBuilder::Flush() keeps the invariant.
LEMMA FlushIndexStep ==
  ASSUME TableInv, IndexInv, Flush
  PROVE  IndexInv'
<1> DEFINE r == rep
           f == rep'
<1>1. /\ ~rep.closed /\ rep.ok /\ rep.data_block # EmptyBlock
      /\ rep' = FlushBlock(rep) /\ Note(rep', current) /\ finish' = finish
  BY DEF Flush
<1>2. RepInv(r) /\ BlockType(r.data_block)
  BY <1>1 DEF TableInv, BlockGood, BlockInv
<1>3. IndexState(r, written, current) /\ current # <<>>
  BY <1>1 DEF IndexInv, IndexState
<1>4. f = FlushBlock(r) /\ r.ok /\ f = rep' /\ r.data_block # EmptyBlock /\ Note(f, current)
  BY <1>1
<1> HIDE DEF r, f
<1>5. f.ok => Noted(f, written, current)
  BY <1>2, <1>3, <1>4, FlushNoted
<1> QED
  BY <1>1, <1>3, <1>4, <1>5, NotedKeeps

\* What the index is made of stays, while the file may grow.
SameIndex(q, r) ==
  /\ q.last_key = r.last_key /\ q.num_entries = r.num_entries
  /\ q.data_block = r.data_block /\ q.index_block = r.index_block
  /\ q.pending_handle = r.pending_handle
  /\ q.pending_index_entry = r.pending_index_entry

\* The index stays what it is when only the file grows.
LEMMA IndexCarried ==
  ASSUME NEW r, NEW q, NEW w, NEW cur, IndexState(r, w, cur), SameIndex(q, r), Clean(q),
         r.offset \in Nat, q.offset \in Nat, r.offset <= q.offset
  PROVE  IndexState(q, w, cur)
<1> DEFINE m == r.offset
           n == q.offset
<1>1. Placed(w, m) /\ m \in Nat /\ n \in Nat /\ m <= n
  BY DEF IndexState
<1>2. n < Max32 => m < Max32
  BY <1>1, Max32Nat
<1> HIDE DEF m, n
<1>3. Placed(w, n)
  BY <1>1, PlacedKept
<1>4. Placed(w, q.offset) /\ (q.offset < Max32 => r.offset < Max32)
  BY <1>2, <1>3 DEF m, n
<1>5. /\ IsSeq(w) /\ IsSeq(cur)
      /\ q.num_entries \in Nat
      /\ q.num_entries = 0 => w = <<>> /\ cur = <<>>
      /\ q.num_entries # 0 => IsKey(q.last_key) /\ Len(q.last_key) < Max32
      /\ cur = <<>> => q.data_block = EmptyBlock
  BY DEF IndexState, SameIndex
<1>6. /\ w = <<>> => q.pending_index_entry = FALSE
      /\ w # <<>> => q.pending_index_entry = TRUE /\ q.pending_handle = w[Len(w)].handle
      /\ KeysUpTo(w, cur, q.last_key)
  BY DEF IndexState, SameIndex
<1>7. r.offset < Max32 =>
        \E ies, blk : /\ BlockInv(q.index_block, ies) /\ IndexMap(ies, blk, w, cur)
                      /\ Below(ies, q.last_key)
  BY DEF IndexState, SameIndex
<1> QED
  BY <1>4, <1>5, <1>6, <1>7 DEF IndexState

\* A block written behind what is in the file.
LEMMA RawBlockAt ==
  ASSUME NEW r, RepInv(r), Clean(r), NEW x, IsSeq(x), NEW w, w = WriteRawBlock(r, x), w.ok
  PROVE  /\ RepInv(w) /\ Clean(w) /\ SameIndex(w, r) /\ w.closed = r.closed
         /\ w.options = r.options
         /\ w.handle = [offset |-> r.offset, size |-> Len(x)]
         /\ Piece(w.file, r.offset, x)
         /\ w.offset = r.offset + Len(x) + 5 /\ w.offset \in Nat /\ r.offset \in Nat
         /\ Len(x) \in Nat
<1>1. /\ IsRep(w) /\ SameBlocks(w, r)
      /\ w.handle = [offset |-> r.offset, size |-> Len(x)]
      /\ w.ok => /\ w.file = (r.file \o x) \o Trailer(x)
                 /\ w.offset = r.offset + Len(x) + kBlockTrailerSize
      /\ w.ok /\ Clean(r) => Clean(w)
  <2>1. IsRep(r)
    BY DEF RepInv
  <2> QED
    BY <2>1, WriteRawBlockIs
<1>2. /\ IsRep(w) /\ SameBlocks(w, r) /\ IsHandle(w.handle)
      /\ w.ok => RepInv(w) /\ Grown(w.file, r.file)
  BY RawBlockKeeps
<1> DEFINE file == r.file
           c == w.file
<1>3. IsSeq(file) /\ r.offset = Len(file) /\ Len(file) \in Nat /\ Len(x) \in Nat
  BY SeqLen DEF RepInv
<1>4. c = ((file \o x) \o Trailer(x)) \/ c = (((file \o x) \o Trailer(x)) \o <<>>)
  BY <1>1
<1> HIDE DEF file, c
<1>5. /\ IsSeq(c) /\ Grown(c, file) /\ Len(c) = Len(file) + Len(x) + 5
      /\ Piece(c, Len(file), x) /\ Piece(c, Len(file) + Len(x), Trailer(x))
  BY <1>3, <1>4, WriteStores
<1>6. SameIndex(w, r) /\ w.closed = r.closed /\ w.options = r.options
  BY <1>1 DEF SameBlocks, SameIndex
<1>7. w.offset = r.offset + Len(x) + 5 /\ w.offset \in Nat /\ r.offset \in Nat
  BY <1>1, <1>3 DEF kBlockTrailerSize
<1>8. Piece(w.file, r.offset, x)
  BY <1>3, <1>5 DEF c
<1> QED
  BY <1>1, <1>2, <1>3, <1>6, <1>7, <1>8

\* The index with the entry for the last block.
FullIndex(b, w) ==
  \E ies, blk : /\ BlockInv(b, ies) /\ Points(ies, blk, w) /\ Ascends(ies)
                /\ \A n \in 1..Len(w) : Indexed(ies, blk, w, <<>>, n)

\* The last index entry, with the short successor as its key, makes the index full.
LEMMA IndexEnds ==
  ASSUME NEW r, RepInv(r), NEW w, IndexState(r, w, <<>>), r.offset < Max32,
         NEW a, a = AddIndexEntry(r, FindShortSuccessor(r.last_key))
  PROVE  FullIndex(a.index_block, w)
<1> DEFINE last == r.last_key
           sep == FindShortSuccessor(last)
           h == r.pending_handle
           e == <<sep, EncodeHandle(h)>>
           i == r.index_block
<1>1. IsRep(r) /\ r.offset \in Nat
  BY SeqLen DEF RepInv
<1>2. /\ IsSeq(w)
      /\ r.num_entries = 0 => w = <<>>
      /\ r.num_entries # 0 => IsKey(last) /\ Len(last) < Max32
      /\ w = <<>> => r.pending_index_entry = FALSE
      /\ w # <<>> => r.pending_index_entry = TRUE /\ h = w[Len(w)].handle
      /\ Placed(w, r.offset) /\ KeysUpTo(w, <<>>, last)
  BY DEF IndexState
<1>3. PICK ies, blk : BlockInv(i, ies) /\ IndexMap(ies, blk, w, <<>>) /\ Below(ies, last)
  BY DEF IndexState
<1>4. /\ IsRep(a) /\ SameFile(a, r) /\ a.data_block = r.data_block
      /\ a.num_entries = r.num_entries
      /\ a.pending_index_entry = r.pending_index_entry
      /\ a.filter_block = r.filter_block
      /\ ~r.pending_index_entry => a = r
      /\ r.pending_index_entry =>
           /\ a.last_key = sep
           /\ a.index_block = BlockAdd(i, sep, EncodeHandle(h), 1)
  <2>1. a = AddIndexEntry(r, sep)
    OBVIOUS
  <2> HIDE DEF sep
  <2> QED
    BY ONLY <1>1, <2>1, IndexEntryIs
<1> HIDE DEF h, i, last
<1>5. Points(ies, blk, w) /\ Ascends(ies)
  BY <1>3 DEF IndexMap
<1>6. CASE w = <<>>
  <2>1. ~r.pending_index_entry
    BY <1>2, <1>6
  <2>2. a = r
    BY <1>4, <2>1
  <2>3. Len(w) = 0
    BY <1>6
  <2> QED
    BY <1>3, <1>5, <2>2, <2>3 DEF FullIndex, i
<1>7. CASE w # <<>>
  <2>1. IsKey(last) /\ Len(last) < Max32 /\ Len(last) \in Nat
    BY <1>2, <1>7, LenProperties DEF IsKey
  <2>2. IsKey(sep) /\ NotAfter(last, sep) /\ Len(sep) <= Len(last)
    BY <2>1, SuccessorOrder
  <2>3. e = <<sep, EncodeHandle(h)>>
    OBVIOUS
  <2> HIDE DEF sep, e
  <2>4. Len(sep) < Max32
    <3>1. Len(sep) \in Nat
      BY <2>2, LenProperties DEF IsKey
    <3> QED
      BY <2>1, <2>2, <3>1, Max32Nat
  <2>5. Len(w) \in 1..Len(w)
    <3>1. Len(w) \in Nat /\ Len(w) # 0
      BY <1>2, <1>7, SeqLen, EmptySeq DEF IsSeq
    <3> QED
      BY <3>1
  <2>6. h = w[Len(w)].handle
    BY <1>2, <1>7
  <2>7. IsHandle(h) /\ h.offset < Max32 /\ h.size < Max32
    BY <1>1, <1>2, <2>5, <2>6, PlacedHandle
  <2> DEFINE more == Append(ies, e)
             to == Append(blk, Len(w))
  <2>8. /\ e \in Entry /\ e[1] = sep
        /\ BlockInv(BlockAdd(i, sep, EncodeHandle(h), 1), Append(ies, e))
    BY <1>3, <2>2, <2>3, <2>4, <2>7, EntryMade
  <2>9. a.index_block = BlockAdd(i, sep, EncodeHandle(h), 1)
    <3>1. r.pending_index_entry
      BY <1>2, <1>7
    <3> QED
      BY <1>4, <3>1
  <2>10. /\ Points(more, to, w) /\ Ascends(more)
         /\ \A b \in 1..Len(w) : Indexed(more, to, w, <<>>, b)
    <3>1. e = <<sep, EncodeHandle(w[Len(w)].handle)>>
      BY <2>3, <2>6
    <3>2. more = Append(ies, e) /\ to = Append(blk, Len(w))
      OBVIOUS
    <3> HIDE DEF more, to
    <3> QED
      BY <1>2, <1>3, <1>7, <2>1, <2>2, <2>8, <3>1, <3>2, EntryIndexed
  <2>11. BlockInv(a.index_block, more)
    BY <2>8, <2>9
  <2> HIDE DEF more, to
  <2> QED
    BY <2>10, <2>11 DEF FullIndex
<1> QED
  BY <1>6, <1>7

\* Footer::EncodeTo(): the two handles from the front, the magic number at the end.
LEMMA FooterParts ==
  ASSUME NEW h, NEW i
  PROVE  /\ IsSeq(Footer(h, i)) /\ Len(Footer(h, i)) = 48
         /\ \A j \in 1..40 : j <= Len(EncodeHandle(h) \o EncodeHandle(i)) =>
              Footer(h, i)[j] = (EncodeHandle(h) \o EncodeHandle(i))[j]
         /\ Piece(Footer(h, i), 40, kTableMagicNumber)
<1> DEFINE handles == EncodeHandle(h) \o EncodeHandle(i)
           At(j) == IF j <= Len(handles) THEN handles[j] ELSE 0
           front == [j \in 1..(kEncodedLength - 8) |-> At(j)]
           magic == kTableMagicNumber
           foot == Footer(h, i)
<1>1. foot = front \o magic
  BY DEF Footer
<1> HIDE DEF handles, foot
<1>2. \A j \in 1..40 : j <= Len(handles) => At(j) = handles[j]
  OBVIOUS
<1> HIDE DEF At
<1>3. /\ front = [j \in 1..40 |-> At(j)] /\ IsSeq(front) /\ Len(front) = 40
      /\ \A j \in 1..40 : front[j] = At(j)
  <2> DEFINE V == {At(j) : j \in 1..40}
             s == [j \in 1..40 |-> At(j)]
  <2>1. \A j \in 1..40 : At(j) \in V
    OBVIOUS
  <2>2. front = s
    BY DEF kEncodedLength
  <2> HIDE DEF V, front
  <2>3. s \in Seq(V) /\ Len(s) = 40 /\ \A j \in 1..40 : s[j] = At(j)
    BY <2>1
  <2> QED
    BY <2>2, <2>3 DEF IsSeq
<1> HIDE DEF front
<1>4. IsSeq(magic) /\ Len(magic) = 8
  <2>1. kTableMagicNumber \in Seq(Nat) /\ Len(kTableMagicNumber) = 8
    BY DEF kTableMagicNumber
  <2> QED
    BY <2>1 DEF IsSeq
<1> HIDE DEF magic
<1>5. /\ IsSeq(foot) /\ Len(foot) = Len(front) + Len(magic) /\ Grown(foot, front)
      /\ Piece(foot, Len(front), magic)
  BY <1>1, <1>3, <1>4, SeqConcat
<1>6. \A j \in 1..40 : foot[j] = At(j)
  BY <1>3, <1>5 DEF Grown
<1>7. Len(foot) = 48 /\ Piece(foot, 40, magic)
  BY <1>3, <1>4, <1>5
<1> QED
  BY <1>2, <1>5, <1>6, <1>7 DEF foot, handles, magic

\* A handle into a file is one into the file that grew.
LEMMA InFileKept ==
  ASSUME NEW h, NEW file, NEW c, Grown(c, file), InFile(h, file)
  PROVE  InFile(h, c)
<1> DEFINE o == h.offset
           s == h.size
           m == Len(file)
           n == Len(c)
<1>1. o \in Nat /\ s \in Nat /\ o + s <= m /\ m \in Nat /\ n \in Nat /\ m <= n
  BY DEF InFile, IsHandle, Grown
<1> HIDE DEF o, s, m, n
<1>2. o + s <= n
  BY <1>1
<1> QED
  BY <1>2 DEF InFile, o, s, n

\* IndexOf() but for what the entry is.
LEMMA IndexOfIs ==
  ASSUME NEW r, RepInv(r), Clean(r), NEW a, a = AddIndexEntry(r, FindShortSuccessor(r.last_key)),
         NEW i, i = IndexOf(r)
  PROVE  /\ RepInv(i) /\ Clean(i) /\ i.index_block = a.index_block
         /\ i.file = r.file /\ i.offset = r.offset
<1> DEFINE sep == FindShortSuccessor(r.last_key)
<1>1. sep \in Seq(Nat)
  BY SuccessorType DEF RepInv
<1>2. a = AddIndexEntry(r, sep) /\ IsRep(r)
  BY DEF RepInv
<1>3. i = [a EXCEPT !.pending_index_entry = FALSE]
  BY DEF IndexOf
<1> HIDE DEF sep
<1>4. /\ RepInv(a) /\ a.data_block = r.data_block /\ a.file = r.file /\ a.ok = r.ok
      /\ a.closed = r.closed /\ a.options = r.options
      /\ a.pending_handle = r.pending_handle
  BY ONLY <1>1, <1>2, RepInv(r), IndexEntryKeeps
<1>5. Clean(a)
  <2>1. /\ IsRep(a) /\ SameFile(a, r) /\ a.data_block = r.data_block
        /\ a.num_entries = r.num_entries
        /\ a.pending_index_entry = r.pending_index_entry
        /\ a.filter_block = r.filter_block
        /\ ~r.pending_index_entry => a = r
        /\ r.pending_index_entry =>
             /\ a.last_key = sep
             /\ a.index_block =
                  BlockAdd(r.index_block, sep, EncodeHandle(r.pending_handle), 1)
    BY ONLY <1>2, IndexEntryIs
  <2> QED
    BY <2>1, SameFileClean
<1> DEFINE no == FALSE
<1>6. i = [a EXCEPT !.pending_index_entry = no]
  BY <1>3
<1>7. IsRep(a)
  BY <1>4 DEF RepInv
<1> HIDE DEF no
<1>8. i = [options |-> a.options, offset |-> a.offset, ok |-> a.ok,
           data_block |-> a.data_block, index_block |-> a.index_block,
           last_key |-> a.last_key, num_entries |-> a.num_entries, closed |-> a.closed,
           filter_block |-> a.filter_block,
           pending_index_entry |-> no,
           pending_handle |-> a.pending_handle, handle |-> a.handle,
           file |-> a.file, ops |-> a.ops, fail_at |-> a.fail_at]
  BY ONLY <1>6, <1>7 DEF IsRep
<1>9. /\ IsRep(i) /\ i.options = a.options /\ i.offset = a.offset
      /\ i.data_block = a.data_block /\ i.index_block = a.index_block
      /\ i.last_key = a.last_key /\ i.closed = a.closed
      /\ i.filter_block = a.filter_block /\ i.pending_handle = a.pending_handle
      /\ i.file = a.file /\ i.ops = a.ops /\ i.fail_at = a.fail_at
  BY ONLY <1>8 DEF IsRep
<1>10. RepInv(i)
  BY <1>4, <1>9 DEF RepInv
<1>11. Clean(i)
  BY <1>5, <1>9 DEF Clean
<1>12. i.offset = r.offset
  BY <1>4, <1>9 DEF RepInv
<1> QED
  BY <1>4, <1>9, <1>10, <1>11, <1>12

\* Writing the index and the footer makes the file whole.
LEMMA FooterWhole ==
  ASSUME NEW r, RepInv(r), NEW w, IndexState(r, w, <<>>), InFile(r.handle, r.file),
         NEW f, f = WriteFooter(r), f.ok
  PROVE  WholeWith(f, w, r.handle)
<1> DEFINE a == AddIndexEntry(r, FindShortSuccessor(r.last_key))
           i == IndexOf(r)
           b == i.index_block
           s == BlockFinish(b)
           x == WriteRawBlock(i, s)
           y == WriteIndex(i)
           foot == Footer(r.handle, y.handle)
           z == FileAppend(y, foot)
           off == z.offset + kEncodedLength
           e == [z EXCEPT !.offset = off]
<1>1. f = IF y.ok THEN (IF z.ok THEN e ELSE z) ELSE y
  BY DEF WriteFooter, IfOk
<1>2. Clean(r) /\ Placed(w, r.offset)
  BY DEF IndexState
<1>3. /\ RepInv(i) /\ Clean(i) /\ i.index_block = a.index_block
      /\ i.file = r.file /\ i.offset = r.offset
  BY <1>2, IndexOfIs
<1>4. r.offset < Max32 => FullIndex(a.index_block, w)
  BY IndexEnds
<1>5. y = [x EXCEPT !.index_block = EmptyBlock]
  BY DEF WriteIndex
<1> HIDE DEF a, i
<1>6. s \in Seq(Nat)
  BY <1>3, IndexFinishType DEF RepInv
<1>7. IsSeq(s)
  BY <1>6, SeqOfNat
<1>8. r.offset < Max32 => FullIndex(b, w)
  BY <1>3, <1>4
<1> HIDE DEF b, y, x
<1>9. IsRep(x)
  <2>1. IsRep(i) /\ x = WriteRawBlock(i, s)
    BY <1>3 DEF RepInv, x
  <2>2. /\ IsRep(x) /\ SameBlocks(x, i)
        /\ x.handle = [offset |-> i.offset, size |-> Len(s)]
        /\ x.ok => /\ x.file = (i.file \o s) \o Trailer(s)
                   /\ x.offset = i.offset + Len(s) + kBlockTrailerSize
        /\ x.ok /\ Clean(i) => Clean(x)
    <3> HIDE DEF s
    <3> QED
      BY <2>1, WriteRawBlockIs
  <2> QED
    BY <2>2
<1>10. /\ IsRep(y) /\ y.ok = x.ok /\ y.file = x.file /\ y.offset = x.offset
       /\ y.handle = x.handle /\ y.ops = x.ops /\ y.fail_at = x.fail_at
  <2> DEFINE none == EmptyBlock
  <2>1. y = [x EXCEPT !.index_block = none]
    BY <1>5
  <2> HIDE DEF none
  <2> QED
    BY ONLY <1>9, <2>1 DEF IsRep
<1>11. y.ok /\ x.ok
  BY <1>1, <1>10
<1> HIDE DEF foot, z
<1>12. z.ok /\ f = e
  BY <1>1, <1>11
<1>13. /\ RepInv(x) /\ Clean(x) /\ SameIndex(x, i) /\ x.closed = i.closed
       /\ x.options = i.options
       /\ x.handle = [offset |-> i.offset, size |-> Len(s)]
       /\ Piece(x.file, i.offset, s)
       /\ x.offset = i.offset + Len(s) + 5 /\ x.offset \in Nat /\ i.offset \in Nat
       /\ Len(s) \in Nat
  <2>1. x = WriteRawBlock(i, s)
    BY DEF x
  <2> HIDE DEF s
  <2> QED
    BY ONLY <1>3, <1>7, <1>11, <2>1, RawBlockAt
<1>14. Clean(y)
  BY <1>10, <1>13 DEF Clean
<1>15. /\ IsRep(z) /\ SameBlocks(z, y) /\ z.offset = y.offset /\ z.handle = y.handle
       /\ z.ok => z.file = y.file \o foot
       /\ z.ok /\ Clean(y) => Clean(z)
  <2>1. z = FileAppend(y, foot) /\ IsRep(y)
    BY <1>10 DEF z
  <2> QED
    BY <2>1, FileAppendIs
<1>16. e.offset = off /\ e.file = z.file /\ (Clean(z) => Clean(e))
  <2> HIDE DEF off
  <2> QED
    BY <1>15 DEF IsRep, Clean
<1> HIDE DEF e
<1>17. IsSeq(foot) /\ Len(foot) = 48
  BY FooterParts DEF foot
<1> DEFINE old == x.file
           new == f.file
           h == x.handle
           o == i.offset
<1>18. IsSeq(old) /\ Len(old) = x.offset
  BY <1>13 DEF RepInv
<1>19. new = old \o foot
  BY <1>10, <1>11, <1>12, <1>15, <1>16
<1>20. h = [offset |-> o, size |-> Len(s)] /\ o \in Nat /\ Len(s) \in Nat /\ Piece(old, o, s)
       /\ Len(old) = o + Len(s) + 5 /\ o = r.offset
  BY <1>3, <1>13, <1>18
<1>21. f.offset = Len(old) + 48 /\ Clean(f)
  <2>1. off = Len(old) + 48
    BY <1>10, <1>15, <1>18 DEF off, kEncodedLength
  <2>2. Clean(z) /\ f.offset = off
    BY <1>12, <1>14, <1>15, <1>16
  <2> QED
    BY <1>12, <1>16, <2>1, <2>2
<1> HIDE DEF old, new, h, o, s
<1>22. /\ IsSeq(new) /\ Len(new) = Len(old) + Len(foot) /\ Grown(new, old)
       /\ Piece(new, Len(old), foot)
  BY <1>17, <1>18, <1>19, SeqConcat
<1>23. Len(new) = Len(old) + 48 /\ Len(old) \in Nat /\ Len(new) - 48 = Len(old)
  <2>1. Len(old) \in Nat
    BY <1>18, SeqLen
  <2>2. Len(new) = Len(old) + 48
    BY <1>17, <1>22
  <2> QED
    BY <2>1, <2>2
<1>24. f.offset = Len(new) /\ IsSeq(f.file) /\ f.file = new
  BY <1>21, <1>22, <1>23 DEF new
<1>25. Placed(w, f.offset)
  <2> DEFINE m == r.offset
             n == f.offset
  <2>1. m \in Nat /\ n \in Nat /\ m <= n /\ Placed(w, m)
    BY <1>2, <1>20, <1>21
  <2> HIDE DEF m, n
  <2>2. Placed(w, n)
    BY <2>1, PlacedKept
  <2> QED
    BY <2>2 DEF n
<1>26. h.offset = o /\ h.size = Len(s) /\ IsHandle(h)
  BY <1>20 DEF IsHandle
<1>27. InFile(h, new)
  <2>1. o + Len(s) <= Len(new)
    BY <1>20, <1>23
  <2> QED
    BY <1>26, <2>1 DEF InFile
<1>28. InFile(r.handle, new)
  <2> DEFINE g == r.handle
             p == g.offset
             q == g.size
  <2>1. p \in Nat /\ q \in Nat /\ p + q <= o /\ IsHandle(g)
    <3>1. Len(r.file) = o
      BY <1>20 DEF RepInv
    <3> QED
      BY <3>1 DEF InFile, IsHandle
  <2> HIDE DEF p, q
  <2>2. p + q <= Len(new)
    BY <1>20, <1>23, <2>1
  <2> QED
    BY <2>1, <2>2 DEF InFile, p, q
<1>29. ASSUME Len(new) < Max32
       PROVE  IndexStored(new, h, w)
  <2>1. r.offset < Max32
    <3>1. o < Max32
      BY <1>20, <1>23, <1>29, Max32Nat
    <3> QED
      BY <1>20, <3>1
  <2>2. PICK ies, blk : /\ BlockInv(b, ies) /\ Points(ies, blk, w) /\ Ascends(ies)
                        /\ \A n \in 1..Len(w) : Indexed(ies, blk, w, <<>>, n)
    BY <1>8, <2>1 DEF FullIndex
  <2>3. Piece(new, o, s)
    BY <1>20, <1>22, PieceKept
  <2> QED
    BY <1>26, <2>2, <2>3 DEF IndexStored, s
<1>30. Piece(new, Len(new) - 48, foot) /\ Len(new) - 48 \in Nat
  BY <1>22, <1>23
<1>31. foot = Footer(r.handle, h)
  BY <1>10 DEF foot, h
<1> QED
  BY <1>21, <1>24, <1>25, <1>27, <1>28, <1>29, <1>30, <1>31 DEF WholeWith

\* Closing the builder leaves the index alone.
LEMMA ClosesIndex ==
  ASSUME NEW r, IsRep(r), NEW d, d = [r EXCEPT !.closed = TRUE]
  PROVE  SameIndex(d, r) /\ d.offset = r.offset /\ (Clean(r) => Clean(d))
<1> DEFINE yes == TRUE
<1>1. d = [r EXCEPT !.closed = yes]
  OBVIOUS
<1> HIDE DEF yes
<1>2. d = [options |-> r.options, offset |-> r.offset, ok |-> r.ok,
           data_block |-> r.data_block, index_block |-> r.index_block,
           last_key |-> r.last_key, num_entries |-> r.num_entries, closed |-> yes,
           filter_block |-> r.filter_block,
           pending_index_entry |-> r.pending_index_entry,
           pending_handle |-> r.pending_handle, handle |-> r.handle,
           file |-> r.file, ops |-> r.ops, fail_at |-> r.fail_at]
  BY ONLY <1>1, IsRep(r) DEF IsRep
<1>3. SameIndex(d, r) /\ d.offset = r.offset /\ d.ops = r.ops /\ d.fail_at = r.fail_at
  BY ONLY <1>2 DEF SameIndex
<1> QED
  BY <1>3 DEF Clean

\* A block other than a data block leaves what the index is made of.
LEMMA RawBlockIndexed ==
  ASSUME NEW r, RepInv(r), NEW v, IndexState(r, v, <<>>), NEW x, IsSeq(x),
         NEW w, w = WriteRawBlock(r, x), w.ok
  PROVE  /\ RepInv(w) /\ IndexState(w, v, <<>>) /\ InFile(w.handle, w.file)
         /\ w.closed = r.closed /\ w.options = r.options
<1>1. Clean(r)
  BY DEF IndexState
<1>2. /\ RepInv(w) /\ Clean(w) /\ SameIndex(w, r) /\ w.closed = r.closed
      /\ w.options = r.options
      /\ w.handle = [offset |-> r.offset, size |-> Len(x)]
      /\ Piece(w.file, r.offset, x)
      /\ w.offset = r.offset + Len(x) + 5 /\ w.offset \in Nat /\ r.offset \in Nat
      /\ Len(x) \in Nat
  BY <1>1, RawBlockAt
<1>3. r.offset <= w.offset /\ r.offset + Len(x) <= w.offset
  BY <1>2
<1>4. IndexState(w, v, <<>>)
  BY <1>2, <1>3, IndexCarried
<1>5. InFile(w.handle, w.file)
  <2>1. Len(w.file) = w.offset
    BY <1>2 DEF RepInv
  <2>2. w.handle.offset = r.offset /\ w.handle.size = Len(x)
    BY <1>2
  <2> QED
    BY <1>2, <1>3, <2>1, <2>2 DEF InFile, IsHandle
<1> QED
  BY <1>2, <1>4, <1>5

\* Writing the filter block leaves the index alone.
LEMMA WriteFilterIndexed ==
  ASSUME NEW r, RepInv(r), NEW v, IndexState(r, v, <<>>), NEW w, w = WriteFilter(r), w.ok
  PROVE  /\ RepInv(w) /\ IndexState(w, v, <<>>)
         /\ w.options.filter_policy => IsHandle(w.handle)
<1>1. CASE r.options.filter_policy
  <2> DEFINE g == r.filter_block
             x == FilterFinish(g)
  <2>1. FilterInv(g)
    BY DEF RepInv
  <2>2. w = WriteRawBlock(r, x)
    BY <1>1 DEF WriteFilter
  <2> HIDE DEF g
  <2>3. IsSeq(x)
    BY <2>1, FilterFinishSeq
  <2> HIDE DEF x
  <2>4. /\ RepInv(w) /\ IndexState(w, v, <<>>) /\ InFile(w.handle, w.file)
        /\ w.closed = r.closed /\ w.options = r.options
    BY <2>2, <2>3, RawBlockIndexed
  <2> QED
    BY <2>4 DEF InFile
<1>2. CASE ~r.options.filter_policy
  <2>1. w = r
    BY <1>2 DEF WriteFilter
  <2> QED
    BY <1>2, <2>1
<1> QED
  BY <1>1, <1>2

\* What TableBuilder::Finish() does after the last flush makes the file whole.
LEMMA FinishWhole ==
  ASSUME NEW g, RepInv(g), NEW v, IndexState(g, v, <<>>), NEW f, f = FinishAfter(g), f.ok
  PROVE  WholeFile(f, v)
<1> DEFINE d == [g EXCEPT !.closed = TRUE]
           e == IF d.ok THEN WriteFilter(d) ELSE d
           m == IF e.ok THEN WriteMetaIndex(e) ELSE e
<1>1. f = IF m.ok THEN WriteFooter(m) ELSE m
  BY DEF FinishAfter, IfOk
<1>2. IsRep(g) /\ Clean(g) /\ g.offset \in Nat
  BY SeqLen DEF RepInv, IndexState
<1>3. RepInv(d)
  BY <1>2, Closes
<1>4. SameIndex(d, g) /\ d.offset = g.offset /\ Clean(d)
  BY <1>2, ClosesIndex
<1> HIDE DEF d
<1>5. IndexState(d, v, <<>>)
  <2>1. d.offset \in Nat /\ g.offset <= d.offset
    BY <1>2, <1>4
  <2> QED
    BY <1>2, <1>4, <2>1, IndexCarried
<1>6. m.ok
  BY <1>1
<1>7. f = WriteFooter(m)
  BY <1>1, <1>6
<1>8. e.ok /\ m = WriteMetaIndex(e)
  BY <1>6
<1> HIDE DEF m
<1>9. d.ok /\ e = WriteFilter(d)
  BY <1>8
<1> HIDE DEF e
<1>10. /\ RepInv(e) /\ IndexState(e, v, <<>>)
       /\ e.options.filter_policy => IsHandle(e.handle)
  BY <1>3, <1>5, <1>8, <1>9, WriteFilterIndexed
<1> DEFINE x == MetaIndex(e)
<1>11. IsSeq(x)
  BY <1>10, MetaIndexSeq
<1>12. m = WriteRawBlock(e, x)
  BY <1>8 DEF WriteMetaIndex
<1> HIDE DEF x
<1>13. /\ RepInv(m) /\ IndexState(m, v, <<>>) /\ InFile(m.handle, m.file)
       /\ m.closed = e.closed /\ m.options = e.options
  BY <1>6, <1>10, <1>11, <1>12, RawBlockIndexed
<1> QED
  BY <1>7, <1>13, FooterWhole DEF WholeFile

\* TableBuilder::Finish() keeps the invariant.
LEMMA FinishIndexStep ==
  ASSUME TableInv, IndexInv, Finish
  PROVE  IndexInv'
<1> DEFINE r == rep
           f == rep'
           g == FlushBlock(r)
<1>1. /\ ~r.closed /\ f = FinishFile(r) /\ Note(f, current) /\ f = rep' /\ IsRep(r)
      /\ finish' = IF f.ok THEN "ok" ELSE "error"
  BY DEF Finish, TableInv
<1>2. f = FinishAfter(g)
  BY <1>1 DEF FinishFile, FinishAfter
<1>3. r.ok => /\ RepInv(r) /\ BlockInv(r.data_block, current) /\ SmallBlock(r.data_block)
              /\ BlockType(r.data_block) /\ IndexState(r, written, current)
  BY <1>1 DEF TableInv, BlockGood, BlockInv, IndexInv
<1> HIDE DEF r, f
<1>4. CASE ~r.ok
  <2>1. g = r
    BY <1>4 DEF FlushBlock
  <2> HIDE DEF g
  <2>2. IsRep(f) /\ f.closed = TRUE /\ (f.ok => g.ok)
    BY <1>1, <1>2, <1>4, <2>1, FinishKeeps
  <2>3. ~f.ok /\ f.closed
    BY <1>4, <2>1, <2>2
  <2>4. finish' = "error"
    BY <1>1, <2>3
  <2> QED
    BY <2>3, <2>4 DEF IndexInv, f
<1>5. CASE r.ok
  <2>1. g = FlushBlock(r)
    OBVIOUS
  <2> HIDE DEF g
  <2>2. /\ IsRep(g) /\ g.options = r.options /\ g.closed = r.closed
        /\ r.data_block = EmptyBlock => g = r
        /\ r.data_block # EmptyBlock => g.data_block = EmptyBlock
        /\ g.ok => /\ RepInv(g) /\ Grown(g.file, r.file)
                   /\ r.data_block # EmptyBlock =>
                        Stored(g.file, g.pending_handle, current)
    BY <1>3, <1>5, <2>1, FlushKeeps
  <2>3. /\ IsRep(f) /\ f.closed = TRUE /\ f.data_block = g.data_block
        /\ f.pending_handle = g.pending_handle
        /\ f.ok => g.ok /\ IsSeq(f.file) /\ Grown(f.file, g.file)
    BY <1>2, <2>2, FinishKeeps
  <2>4. ASSUME f.ok
        PROVE  WholeFile(f, written')
    <3>1. g.ok /\ RepInv(g)
      BY <2>2, <2>3, <2>4
    <3>2. CASE r.data_block = EmptyBlock
      <4>1. current = <<>> /\ g = r
        BY <1>3, <1>5, <2>2, <3>2, EmptyHasNone
      <4>2. written' = written
        BY <1>1, <4>1 DEF Note
      <4>3. IndexState(g, written, <<>>)
        BY <1>3, <1>5, <4>1
      <4> QED
        BY <1>2, <2>4, <3>1, <4>2, <4>3, FinishWhole
    <3>3. CASE r.data_block # EmptyBlock
      <4>1. current # <<>>
        BY <1>3, <1>5, <3>3 DEF IndexState
      <4>2. g.data_block = EmptyBlock /\ Noted(g, written, current)
        BY <1>3, <1>5, <2>1, <3>1, <3>3, <4>1, FlushNoted
      <4> DEFINE v == WithBlock(written, g.pending_handle, current)
      <4>3. IndexState(g, v, <<>>)
        BY <4>2 DEF Noted
      <4>4. written' = v
        <5>1. f.data_block = EmptyBlock /\ f.pending_handle = g.pending_handle
          BY <2>3, <4>2
        <5>2. written' = Append(written, [handle |-> f.pending_handle, entries |-> current])
          BY <1>1, <2>4, <4>1, <5>1 DEF Note
        <5> QED
          BY <5>1, <5>2 DEF WithBlock
      <4> HIDE DEF v
      <4> QED
        BY <1>2, <2>4, <3>1, <4>3, <4>4, FinishWhole
    <3> QED
      BY <3>2, <3>3
  <2>5. f.closed
    BY <2>3
  <2>6. finish' = "ok" => f.ok
    BY <1>1
  <2> QED
    BY <2>4, <2>5, <2>6 DEF IndexInv, f
<1> QED
  BY <1>4, <1>5

\* TableBuilder::ChangeOptions() keeps the invariant.
LEMMA ChangeOptionsIndexStep ==
  ASSUME TableInv, IndexInv, NEW options \in OptionSets, ChangeOptions(options)
  PROVE  IndexInv'
<1> DEFINE r == rep
           f == rep'
<1>1. /\ f = [r EXCEPT !.options = options] /\ current' = current /\ written' = written
      /\ ~r.closed /\ finish' = finish
  BY DEF ChangeOptions
<1>2. IsRep(r)
  BY DEF TableInv
<1>3. finish' = "none"
  BY <1>1 DEF IndexInv
<1>4. /\ SameIndex(f, r) /\ f.offset = r.offset /\ f.ok = r.ok /\ f.ops = r.ops
      /\ f.fail_at = r.fail_at
  <2> HIDE DEF r, f
  <2>1. f = [r EXCEPT !.options = options]
    BY <1>1
  <2> QED
    BY ONLY <1>2, <2>1 DEF IsRep, SameIndex
<1>5. ASSUME f.ok
      PROVE  IndexState(f, written, current)
  <2>1. IndexState(r, written, current) /\ RepInv(r)
    BY <1>1, <1>4, <1>5 DEF IndexInv, TableInv
  <2>2. r.offset \in Nat
    BY <2>1, SeqLen DEF RepInv
  <2> HIDE DEF r, f
  <2>3. Clean(f) /\ f.offset \in Nat /\ r.offset <= f.offset
    BY <1>4, <2>1, <2>2 DEF IndexState, Clean
  <2> QED
    BY <1>4, <2>1, <2>2, <2>3, IndexCarried
<1> HIDE DEF f
<1> QED
  BY <1>1, <1>3, <1>5 DEF IndexInv, f

\* TableBuilder::Abandon() keeps the invariant.
LEMMA AbandonIndexStep ==
  ASSUME TableInv, IndexInv, Abandon
  PROVE  IndexInv'
<1> DEFINE r == rep
           f == rep'
<1>1. f = [r EXCEPT !.closed = TRUE] /\ ~r.closed /\ finish' = finish
  BY DEF Abandon
<1>2. IsRep(r)
  BY DEF TableInv
<1>3. finish' = "none"
  BY <1>1 DEF IndexInv
<1>4. f.closed = TRUE
  <2> HIDE DEF r, f
  <2> QED
    BY <1>1, <1>2, Closes
<1> HIDE DEF f
<1> QED
  BY <1>3, <1>4 DEF IndexInv, f

\* The invariant holds of a new builder.
LEMMA IndexInit ==
  ASSUME Init
  PROVE  IndexInv
<1>1. PICK o \in OptionSets, n \in 0..MaxOps :
        rep = [options |-> o, offset |-> 0, ok |-> TRUE,
               data_block |-> EmptyBlock, index_block |-> EmptyBlock,
               last_key |-> <<>>, num_entries |-> 0, closed |-> FALSE,
               filter_block |-> StartBlock(EmptyFilterBlock, 0),
               pending_index_entry |-> FALSE,
               pending_handle |-> [offset |-> 0, size |-> 0],
               handle |-> [offset |-> 0, size |-> 0],
               file |-> <<>>, ops |-> 0, fail_at |-> n]
  BY DEF Init
<1>2. /\ rep.offset = 0 /\ rep.data_block = EmptyBlock /\ rep.index_block = EmptyBlock
      /\ rep.num_entries = 0 /\ rep.ops = 0 /\ rep.fail_at = n
  <2> DEFINE t == TRUE
             f == FALSE
             g == StartBlock(EmptyFilterBlock, 0)
             h == [offset |-> 0, size |-> 0]
  <2>1. rep = [options |-> o, offset |-> 0, ok |-> t,
               data_block |-> EmptyBlock, index_block |-> EmptyBlock,
               last_key |-> <<>>, num_entries |-> 0, closed |-> f,
               filter_block |-> g, pending_index_entry |-> f,
               pending_handle |-> h, handle |-> h,
               file |-> <<>>, ops |-> 0, fail_at |-> n]
    BY <1>1
  <2> HIDE DEF t, f, g, h
  <2> QED
    BY ONLY <2>1
<1>3. rep.pending_index_entry = FALSE
  BY <1>1
<1>4. current = <<>> /\ written = <<>> /\ finish = "none"
  BY DEF Init
<1>5. Clean(rep)
  BY <1>2, TableAssumption DEF Clean
<1> DEFINE none == <<>>
<1>6. IsSeq(none) /\ Len(none) = 0 /\ none \in Seq(Entry)
  BY EmptySeq DEF IsSeq
<1>7. BlockInv(EmptyBlock, none)
  BY EmptyBlockInv
<1>8. current = none /\ written = none
  BY <1>4
<1> HIDE DEF none
<1>9. Placed(none, 0) /\ KeysUpTo(none, none, rep.last_key)
  BY <1>6 DEF Placed, KeysUpTo, Precede
<1>10. IndexMap(none, none, none, none) /\ Below(none, rep.last_key)
  BY <1>6 DEF IndexMap, Below, Points, Ascends
<1>11. IndexState(rep, none, none)
  BY <1>2, <1>3, <1>5, <1>6, <1>7, <1>9, <1>10 DEF IndexState, none
<1> QED
  BY <1>4, <1>8, <1>11 DEF IndexInv

\* Every step keeps the invariant.
LEMMA IndexNext ==
  ASSUME SizesFit, TableInv, IndexInv, [Next]_vars
  PROVE  IndexInv'
<1>1. CASE UNCHANGED vars
  BY <1>1 DEF IndexInv, vars
<1>2. CASE Next
  BY <1>2, AddIndexStep, ChangeOptionsIndexStep, FlushIndexStep, FinishIndexStep,
     AbandonIndexStep DEF Next
<1> QED
  BY <1>1, <1>2

-----------------------------------------------------------------------------
(* Reading the finished file.                                              *)

\* A piece of two parts is two pieces.
LEMMA PiecesOfPiece ==
  ASSUME NEW s, NEW p \in Nat, NEW x \in Seq(Nat), NEW y \in Seq(Nat), Piece(s, p, x \o y)
  PROVE  Piece(s, p, x) /\ (Len(s) \in Nat => Piece(s, p + Len(x), y))
<1>1. Len(x) \in Nat /\ Len(y) \in Nat
  BY LenProperties
<1> DEFINE z == x \o y
<1>2. /\ z \in Seq(Nat) /\ Len(z) = Len(x) + Len(y)
      /\ \A i \in 1 .. Len(x) + Len(y) :
           z[i] = IF i <= Len(x) THEN x[i] ELSE y[i - Len(x)]
  BY ConcatProperties
<1>3. p + Len(z) <= Len(s) /\ \A i \in 1..Len(z) : s[p + i] = z[i]
  BY DEF Piece
<1> HIDE DEF z
<1>4. ASSUME NEW i \in 1..Len(x)
      PROVE  s[p + i] = x[i]
  <2>1. i \in 1..Len(z) /\ i \in 1..(Len(x) + Len(y)) /\ i <= Len(x)
    BY <1>1, <1>2
  <2> QED
    BY <1>2, <1>3, <2>1
<1>5. ASSUME NEW i \in 1..Len(y)
      PROVE  s[(p + Len(x)) + i] = y[i]
  <2>1. /\ Len(x) + i \in 1..Len(z) /\ Len(x) + i \in 1..(Len(x) + Len(y))
        /\ ~(Len(x) + i <= Len(x)) /\ (Len(x) + i) - Len(x) = i
        /\ p + (Len(x) + i) = (p + Len(x)) + i
    BY <1>1, <1>2
  <2> QED
    BY <1>2, <1>3, <2>1
<1>6. p + (Len(x) + Len(y)) <= Len(s)
  BY <1>2, <1>3
<1> QED
  BY <1>1, <1>4, <1>5, <1>6 DEF Piece

\* The handle in the bytes from p on, and the position behind it.
LEMMA DecodeHandleAt ==
  ASSUME NEW h, IsHandle(h), h.offset < Max32, h.size < Max32,
         NEW s, Len(s) \in Nat, NEW p \in Nat, Piece(s, p, EncodeHandle(h)),
         NEW d, d = DecodeHandle(s, p)
  PROVE  /\ d.offset = h.offset /\ d.size = h.size
         /\ d.next = p + Len(EncodeHandle(h)) /\ d.next \in Nat
<1> DEFINE o == h.offset
           z == h.size
           x == PutVarint[o]
           y == PutVarint[z]
           a == GetVarint(s, p, Len(s))
           q == p + Len(x)
           b == GetVarint(s, q, Len(s))
<1>1. o \in Nat /\ z \in Nat /\ o < Max35 /\ z < Max35
  <2>1. Max32 < Max35 /\ Max32 \in Nat /\ Max35 \in Nat
    BY DEF Max32, Max35
  <2>2. o \in Nat /\ z \in Nat /\ o < Max32 /\ z < Max32
    BY DEF IsHandle
  <2> HIDE DEF o, z
  <2> QED
    BY <2>1, <2>2
<1>2. EncodeHandle(h) = x \o y /\ Len(EncodeHandle(h)) = Len(x) + Len(y)
  BY HandleLength DEF EncodeHandle
<1> HIDE DEF o, z
<1>3. x \in Seq(Nat) /\ y \in Seq(Nat)
  BY <1>1, VarintType
<1>4. Len(x) \in Nat /\ Len(y) \in Nat
  BY <1>3, LenProperties
<1>5. Piece(s, p, x \o y)
  BY <1>2
<1> HIDE DEF x, y
<1>6. Piece(s, p, x) /\ Piece(s, p + Len(x), y)
  BY <1>3, <1>5, PiecesOfPiece
<1> HIDE DEF q
<1>7. q \in Nat /\ Piece(s, q, y)
  BY <1>4, <1>6 DEF q
<1>8. a = [value |-> o, next |-> p + Len(x)]
  <2>1. p + Len(x) <= Len(s) /\ \A i \in 1..Len(x) : s[p + i] = x[i]
    BY <1>6 DEF Piece
  <2> QED
    BY <1>1, <2>1, VarintReadBack DEF x
<1>9. b = [value |-> z, next |-> q + Len(y)]
  <2>1. q + Len(y) <= Len(s) /\ \A i \in 1..Len(y) : s[q + i] = y[i]
    BY <1>7 DEF Piece
  <2> QED
    BY <1>1, <1>7, <2>1, VarintReadBack DEF y
<1> HIDE DEF a, b
<1>10. a.value = o /\ a.next = q /\ b.value = z /\ b.next = q + Len(y)
  BY <1>8, <1>9 DEF q
<1>11. d = [offset |-> a.value, size |-> b.value, next |-> b.next]
  <2>1. d = [offset |-> a.value, size |-> GetVarint(s, a.next, Len(s)).value,
             next |-> GetVarint(s, a.next, Len(s)).next]
    BY DEF DecodeHandle, a
  <2> QED
    BY <1>10, <2>1 DEF b
<1>12. d.offset = o /\ d.size = z /\ d.next = q + Len(y)
  BY <1>10, <1>11
<1>13. q + Len(y) = p + (Len(x) + Len(y)) /\ q + Len(y) \in Nat
  BY <1>4 DEF q
<1> QED
  BY <1>2, <1>12, <1>13 DEF o, z

\* A string is a piece of itself.
LEMMA WholePiece ==
  ASSUME NEW s, Len(s) \in Nat
  PROVE  Piece(s, 0, s)
BY DEF Piece

\* The value of an index entry leads to the block it was made for and to no other.
LEMMA ValuePoints ==
  ASSUME NEW w, NEW end \in Nat, Placed(w, end), end < Max32,
         NEW b \in 1..Len(w), NEW c \in 1..Len(w), Len(w) \in Nat,
         NEW v, v = EncodeHandle(w[c].handle)
  PROVE  PointsAt(v, w[b]) <=> c = b
<1> DEFINE h == w[c].handle
           g == w[b].handle
           d == DecodeHandle(v, 0)
<1>1. /\ IsHandle(h) /\ h.offset < Max32 /\ h.size < Max32
      /\ h = [offset |-> h.offset, size |-> h.size]
  BY PlacedHandle
<1>2. /\ IsHandle(g) /\ g.offset < Max32 /\ g.size < Max32
      /\ g = [offset |-> g.offset, size |-> g.size]
  BY PlacedHandle
<1>3. v = EncodeHandle(h)
  OBVIOUS
<1>4. b < c => g.offset < h.offset
  BY DEF Placed
<1>5. c < b => h.offset < g.offset
  BY DEF Placed
<1>6. PointsAt(v, w[b]) <=> [offset |-> d.offset, size |-> d.size] = g
  BY DEF PointsAt
<1>7. c = b => h = g
  OBVIOUS
<1> HIDE DEF h, g, d
<1>8. v \in Seq(Nat)
  BY <1>1, <1>3, HandleLength
<1>9. Len(v) \in Nat
  BY <1>8, LenProperties
<1>10. Piece(v, 0, EncodeHandle(h))
  BY <1>3, <1>9, WholePiece
<1>11. d.offset = h.offset /\ d.size = h.size
  BY <1>1, <1>9, <1>10, DecodeHandleAt DEF d
<1>12. PointsAt(v, w[b]) <=> h = g
  BY <1>1, <1>6, <1>11
<1>13. h = g => c = b
  <2>1. SUFFICES ASSUME h = g, c # b
                 PROVE  FALSE
    OBVIOUS
  <2>2. b < c \/ c < b
    BY <2>1
  <2>3. h.offset = g.offset /\ h.offset \in Nat
    BY <1>1, <2>1 DEF IsHandle
  <2> QED
    BY <1>4, <1>5, <2>2, <2>3
<1> QED
  BY <1>7, <1>12, <1>13

\* A handle to something inside a small file.
LEMMA InSmallFile ==
  ASSUME NEW h, NEW file, Len(file) \in Nat, Len(file) < Max32, InFile(h, file)
  PROVE  IsHandle(h) /\ h.offset < Max32 /\ h.size < Max32
<1> DEFINE o == h.offset
           s == h.size
           n == Len(file)
<1>1. o \in Nat /\ s \in Nat /\ o + s <= n /\ n \in Nat /\ n < Max32 /\ IsHandle(h)
  BY DEF InFile, IsHandle
<1> HIDE DEF o, s, n
<1>2. o < Max32 /\ s < Max32
  BY <1>1, Max32Nat
<1> QED
  BY <1>1, <1>2 DEF o, s

\* The footer holds the two handles and the magic number.
LEMMA FooterRead ==
  ASSUME NEW file, Len(file) \in Nat, Len(file) < Max32, NEW m, NEW i, InFile(m, file),
         InFile(i, file), NEW at \in Nat, at = Len(file) - 48, Piece(file, at, Footer(m, i)),
         NEW d, d = DecodeHandle(file, at), NEW e, e = DecodeHandle(file, d.next)
  PROVE  /\ e.offset = i.offset /\ e.size = i.size
         /\ SubSeq(file, Len(file) - 7, Len(file)) = kTableMagicNumber
<1> DEFINE x == EncodeHandle(m)
           y == EncodeHandle(i)
           z == x \o y
           foot == Footer(m, i)
<1>1. /\ IsHandle(m) /\ m.offset < Max32 /\ m.size < Max32
      /\ IsHandle(i) /\ i.offset < Max32 /\ i.size < Max32
  BY InSmallFile
<1>2. x \in Seq(Nat) /\ y \in Seq(Nat) /\ Len(x) <= 10 /\ Len(y) <= 10
  BY <1>1, HandleLength
<1>3. /\ Len(foot) = 48 /\ Piece(foot, 40, kTableMagicNumber)
      /\ \A j \in 1..40 : j <= Len(z) => foot[j] = z[j]
  <2>1. /\ IsSeq(Footer(m, i)) /\ Len(Footer(m, i)) = 48
        /\ \A j \in 1..40 : j <= Len(EncodeHandle(m) \o EncodeHandle(i)) =>
             Footer(m, i)[j] = (EncodeHandle(m) \o EncodeHandle(i))[j]
        /\ Piece(Footer(m, i), 40, kTableMagicNumber)
    BY ONLY FooterParts
  <2> QED
    BY ONLY <2>1
<1>4. Piece(file, at, foot)
  OBVIOUS
<1> HIDE DEF x, y, foot
<1>5. Len(x) \in Nat /\ Len(y) \in Nat /\ z \in Seq(Nat) /\ Len(z) = Len(x) + Len(y)
  BY <1>2, LenProperties, ConcatProperties
<1> HIDE DEF z
<1>6. /\ at + 48 <= Len(file) /\ \A j \in 1..48 : file[at + j] = foot[j]
  BY <1>3, <1>4 DEF Piece
<1>7. Piece(file, at, z)
  <2>1. Len(z) <= 20
    BY <1>2, <1>5
  <2>2. at + Len(z) <= Len(file)
    BY <1>5, <1>6, <2>1
  <2>3. ASSUME NEW j \in 1..Len(z)
        PROVE  file[at + j] = z[j]
    <3>1. j \in 1..40 /\ j \in 1..48 /\ j <= Len(z)
      BY <1>5, <2>1
    <3> QED
      BY <1>3, <1>6, <3>1
  <2> QED
    BY <2>2, <2>3 DEF Piece
<1>8. Piece(file, at, x) /\ Piece(file, at + Len(x), y)
  BY <1>2, <1>7, PiecesOfPiece DEF z
<1>9. d.next = at + Len(x) /\ d.next \in Nat
  BY <1>1, <1>8, DecodeHandleAt DEF x
<1>10. e.offset = i.offset /\ e.size = i.size
  <2>1. Piece(file, d.next, EncodeHandle(i))
    BY <1>8, <1>9 DEF y
  <2> QED
    BY <1>1, <1>9, <2>1, DecodeHandleAt
<1>11. SubSeq(file, Len(file) - 7, Len(file)) = kTableMagicNumber
  <2> DEFINE magic == kTableMagicNumber
             q == at + 40
  <2>1. magic \in Seq(Nat) /\ Len(magic) = 8
    BY DEF kTableMagicNumber
  <2>2. Piece(foot, 40, magic)
    BY <1>3
  <2> HIDE DEF magic
  <2>3. q \in Nat /\ q + 1 = Len(file) - 7 /\ q + Len(magic) = Len(file)
    BY <2>1
  <2>4. ASSUME NEW j \in 1..Len(magic)
        PROVE  file[q + j] = magic[j]
    <3>1. 40 + j \in 1..48 /\ at + (40 + j) = q + j
      BY <2>1
    <3>2. foot[40 + j] = magic[j]
      BY <2>2 DEF Piece
    <3> QED
      BY <1>6, <3>1, <3>2
  <2>5. Piece(file, q, magic)
    BY <2>3, <2>4 DEF Piece
  <2> HIDE DEF q
  <2>6. SubSeq(file, q + 1, q + Len(magic)) = magic
    BY <2>1, <2>3, <2>5, PieceOfFile
  <2> QED
    BY <2>3, <2>6 DEF magic
<1> QED
  BY <1>10, <1>11

\* A block in a small file is read back.
LEMMA SmallBlockRead ==
  ASSUME NEW file, Len(file) \in Nat, Len(file) < Max32, NEW b, NEW es, BlockInv(b, es),
         NEW o \in Nat, NEW s, s = Len(BlockFinish(b)), Piece(file, o, BlockFinish(b))
  PROVE  Entries(SubSeq(file, o + 1, o + s)) = es
<1> DEFINE x == BlockFinish(b)
           n == Len(b.buffer)
           r == Len(b.restarts)
<1>1. BlockType(b)
  BY DEF BlockInv
<1>2. x \in Seq(Nat) /\ Len(x) = n + 4 * r + 4
  BY <1>1, FinishParts
<1>3. n \in Nat /\ r \in Nat
  BY <1>1, LenProperties DEF BlockType
<1>4. o + Len(x) <= Len(file) /\ Piece(file, o, x) /\ s = Len(x)
  BY DEF Piece
<1> HIDE DEF x, n, r
<1>5. n < Max32 /\ r < Max32
  BY <1>2, <1>3, <1>4, Max32Nat
<1>6. SubSeq(file, o + 1, o + s) = x
  BY <1>2, <1>4, PieceOfFile
<1>7. Entries(BlockFinish(b)) = es
  BY <1>5, BlockReadBack DEF n, r
<1> QED
  BY <1>6, <1>7 DEF x

\* The entry of the index for a block, as a reader sees it.
LEMMA FoundRead ==
  ASSUME NEW w, NEW end \in Nat, Placed(w, end), end < Max32, Len(w) \in Nat,
         \A n \in 1..Len(w) : w[n].entries \in Seq(Entry),
         NEW ies, NEW blk, Points(ies, blk, w), NEW b \in 1..Len(w), NEW i,
         Finds(ies, blk, w, b, i)
  PROVE  /\ i \in 1..Len(ies) /\ PointsAt(ies[i][2], w[b])
         /\ \A j \in 1..i - 1 : ~PointsAt(ies[j][2], w[b])
         /\ \A e \in Range(w[b].entries) : ~KeyLess(ies[i][1], e[1])
         /\ \A c \in b + 1..Len(w) :
              \A e \in Range(w[c].entries) : KeyLess(ies[i][1], e[1])
<1>1. /\ i \in 1..Len(ies) /\ blk[i] = b /\ \A j \in 1..i - 1 : blk[j] # b
      /\ Precede(w[b].entries, ies[i][1])
      /\ \A c \in b + 1..Len(w) : Follow(ies[i][1], w[c].entries)
  BY DEF Finds
<1>2. /\ ies \in Seq(Entry)
      /\ \A j \in 1..Len(ies) : /\ blk[j] \in 1..Len(w) /\ IsKey(ies[j][1])
                                /\ ies[j][2] = EncodeHandle(w[blk[j]].handle)
  BY DEF Points
<1>3. Len(ies) \in Nat
  BY <1>2, LenProperties
<1>4. ASSUME NEW j \in 1..Len(ies)
      PROVE  PointsAt(ies[j][2], w[b]) <=> blk[j] = b
  BY <1>2, ValuePoints
<1>5. \A j \in 1..i - 1 : ~PointsAt(ies[j][2], w[b])
  <2>1. ASSUME NEW j \in 1..i - 1
        PROVE  ~PointsAt(ies[j][2], w[b])
    <3>1. j \in 1..Len(ies)
      BY <1>1, <1>3
    <3> QED
      BY <1>1, <1>4, <3>1
  <2> QED
    BY <2>1
<1>6. ASSUME NEW c \in 1..Len(w), NEW e \in Range(w[c].entries)
      PROVE  \E n \in 1..Len(w[c].entries) : e = w[c].entries[n]
  <2> DEFINE es == w[c].entries
  <2>1. es \in Seq(Entry) /\ e \in Range(es)
    BY <1>6
  <2> HIDE DEF es
  <2>2. DOMAIN es = 1..Len(es)
    BY <2>1, LenProperties
  <2>3. \E n \in 1..Len(es) : e = es[n]
    BY <2>1, <2>2 DEF Range
  <2> QED
    BY <2>3 DEF es
<1>7. ASSUME NEW e \in Range(w[b].entries)
      PROVE  ~KeyLess(ies[i][1], e[1])
  <2>1. PICK n \in 1..Len(w[b].entries) : e = w[b].entries[n]
    BY <1>6, <1>7
  <2>2. IsKey(e[1]) /\ NotAfter(e[1], ies[i][1]) /\ IsKey(ies[i][1])
    BY <1>1, <1>2, <2>1 DEF Precede
  <2> QED
    BY <2>2, NotAfterThenLess
<1>8. ASSUME NEW c \in b + 1..Len(w), NEW e \in Range(w[c].entries)
      PROVE  KeyLess(ies[i][1], e[1])
  <2>1. c \in 1..Len(w) /\ Follow(ies[i][1], w[c].entries)
    BY <1>1, <1>8
  <2>2. PICK n \in 1..Len(w[c].entries) : e = w[c].entries[n]
    BY <1>6, <1>8, <2>1
  <2> QED
    BY <2>1, <2>2 DEF Follow
<1> QED
  BY <1>1, <1>4, <1>5, <1>7, <1>8

\* What Finish() calls good can be read as FinishedWhole says.
LEMMA WholeRead ==
  ASSUME TableInv, IndexInv, Len(rep.file) < Max32
  PROVE  FinishedWhole
<1>1. SUFFICES ASSUME finish = "ok"
               PROVE  /\ rep.fail_at \notin 1 .. rep.ops
                      /\ rep.offset = Len(rep.file)
                      /\ SubSeq(rep.file, rep.offset - 7, rep.offset) = kTableMagicNumber
                      /\ \A i \in 1 .. Len(Index) - 1 : KeyLess(Index[i][1], Index[i + 1][1])
                      /\ \A b \in 1 .. Len(written) :
                           \E i \in 1 .. Len(Index) :
                             /\ PointsAt(Index[i][2], written[b])
                             /\ \A j \in 1 .. i - 1 : ~ PointsAt(Index[j][2], written[b])
                             /\ \A e \in Range(written[b].entries) : ~ KeyLess(Index[i][1], e[1])
                             /\ \A c \in b + 1 .. Len(written) :
                                  \A e \in Range(written[c].entries) : KeyLess(Index[i][1], e[1])
  BY DEF FinishedWhole
<1> DEFINE file == rep.file
           w == written
           at == Len(file) - 48
<1>2. rep.ok /\ WholeFile(rep, written)
  BY <1>1 DEF IndexInv
<1>3. IsSeq(w) /\ IsSeq(file) /\ WrittenStored(w, file)
  BY <1>2 DEF TableInv
<1>4. Clean(rep) /\ rep.offset = Len(file) /\ Placed(w, Len(file))
  BY <1>2 DEF WholeFile, WholeWith
<1>5. PICK m, i : /\ InFile(m, file) /\ InFile(i, file) /\ at \in Nat
                  /\ Piece(file, at, Footer(m, i))
                  /\ Len(file) < Max32 => IndexStored(file, i, w)
  BY <1>2 DEF WholeFile, WholeWith
<1>6. Len(file) \in Nat /\ Len(w) \in Nat /\ Len(file) < Max32
  BY <1>3, SeqLen
<1>7. PICK b, ies, blk :
        /\ BlockInv(b, ies) /\ i.size = Len(BlockFinish(b))
        /\ Piece(file, i.offset, BlockFinish(b))
        /\ Points(ies, blk, w) /\ Ascends(ies)
        /\ \A n \in 1..Len(w) : Indexed(ies, blk, w, <<>>, n)
  BY <1>5, <1>6 DEF IndexStored
<1>8. MetaIndexHandle = DecodeHandle(file, at)
  BY <1>4 DEF MetaIndexHandle, FooterAt, kEncodedLength
<1>9. IndexHandle = DecodeHandle(file, MetaIndexHandle.next)
  BY DEF IndexHandle
<1>10. Index = Entries(SubSeq(file, IndexHandle.offset + 1,
                              IndexHandle.offset + IndexHandle.size))
  BY DEF Index, ReadBlock
<1>11. rep.fail_at \notin 1 .. rep.ops
  BY <1>4 DEF Clean
<1> HIDE DEF file, w, at
<1>12. /\ IndexHandle.offset = i.offset /\ IndexHandle.size = i.size
       /\ SubSeq(file, Len(file) - 7, Len(file)) = kTableMagicNumber
  <2>1. at = Len(file) - 48
    BY DEF at
  <2> QED
    BY <1>5, <1>6, <1>8, <1>9, <2>1, FooterRead
<1>13. Index = ies
  <2>1. i.offset \in Nat
    BY <1>5 DEF InFile, IsHandle
  <2>2. Entries(SubSeq(file, i.offset + 1, i.offset + i.size)) = ies
    BY <1>6, <1>7, <2>1, SmallBlockRead
  <2> QED
    BY <1>10, <1>12, <2>2
<1>14. \A n \in 1..Len(w) : w[n].entries \in Seq(Entry)
  BY <1>3 DEF WrittenStored, Stored, BlockInv
<1>15. ASSUME NEW n \in 1..Len(w)
       PROVE  \E k \in 1..Len(ies) :
                /\ PointsAt(ies[k][2], w[n])
                /\ \A j \in 1..k - 1 : ~PointsAt(ies[j][2], w[n])
                /\ \A e \in Range(w[n].entries) : ~KeyLess(ies[k][1], e[1])
                /\ \A c \in n + 1..Len(w) :
                     \A e \in Range(w[c].entries) : KeyLess(ies[k][1], e[1])
  <2>1. PICK k : Finds(ies, blk, w, n, k)
    BY <1>7, <1>15 DEF Indexed
  <2>2. /\ k \in 1..Len(ies) /\ PointsAt(ies[k][2], w[n])
        /\ \A j \in 1..k - 1 : ~PointsAt(ies[j][2], w[n])
        /\ \A e \in Range(w[n].entries) : ~KeyLess(ies[k][1], e[1])
        /\ \A c \in n + 1..Len(w) :
             \A e \in Range(w[c].entries) : KeyLess(ies[k][1], e[1])
    BY <1>4, <1>6, <1>7, <1>14, <1>15, <2>1, FoundRead
  <2> QED
    BY <2>2
<1>16. \A j \in 1..Len(Index) - 1 : KeyLess(Index[j][1], Index[j + 1][1])
  BY <1>7, <1>13 DEF Ascends
<1>17. SubSeq(file, rep.offset - 7, rep.offset) = kTableMagicNumber
  BY <1>4, <1>12
<1> QED
  BY <1>4, <1>11, <1>13, <1>15, <1>16, <1>17 DEF file, w

\* Every table below 4 GB that Finish() calls good is whole.
THEOREM FinishedTableWhole ==
  ASSUME SizesFit
  PROVE  Spec => [](Len(rep.file) < Max32 => FinishedWhole)
<1> DEFINE Inv == TableInv /\ IndexInv
           Whole == Len(rep.file) < Max32 => FinishedWhole
<1>1. Init => Inv
  BY InitHolds, IndexInit
<1>2. Inv /\ [Next]_vars => Inv'
  BY NextHolds, IndexNext
<1>3. Inv => Whole
  BY WholeRead
<1> QED
  BY <1>1, <1>2, <1>3, PTL DEF Spec

-----------------------------------------------------------------------------
(* The filter block.                                                       *)

\* BloomHash() gives a number.
Hashed(u) == BloomHash(u) \in Nat

\* The probes of a key are bits of the array.
LEMMA BitRange ==
  ASSUME NEW u, Hashed(u), NEW bits \in Nat \ {0}, NEW p \in BitPositions(u, bits)
  PROVE  p \in Nat /\ p < bits
<1> DEFINE h == BloomHash(u)
           M == 2 ^ HashWidth
           delta == (h \div 2 ^ 17) + (h % 2 ^ 17) * 2 ^ (HashWidth - 17)
           k == k_
           Is(f, n) == f = [j \in 1..n |-> IF j = 1 THEN h ELSE (f[j - 1] + delta) % M]
           probe == CHOOSE f : Is(f, k)
<1>1. h \in Nat /\ M \in Nat \ {0} /\ delta \in Nat /\ k \in Nat
  <2>1. /\ 2 ^ 17 \in Nat \ {0} /\ 2 ^ 13 \in Nat /\ 2 ^ 30 \in Nat \ {0} /\ 30 - 17 = 13
    OBVIOUS
  <2>2. h \in Nat
    BY DEF Hashed
  <2> DEFINE a == 2 ^ 17
             b == 2 ^ 13
             c == 2 ^ 30
  <2>3. a \in Nat \ {0} /\ b \in Nat /\ c \in Nat \ {0}
    BY <2>1
  <2>4. delta = (h \div a) + (h % a) * b /\ M = c
    BY <2>1 DEF HashWidth
  <2> HIDE DEF a, b, c, h
  <2>5. h \div a \in Nat /\ h % a \in Nat
    BY <2>2, <2>3
  <2> DEFINE x == h \div a
             y == h % a
  <2> HIDE DEF x, y
  <2>6. x + y * b \in Nat
    BY <2>3, <2>5 DEF x, y
  <2> QED
    BY <2>2, <2>3, <2>4, <2>6, ProbesType DEF x, y
<1>2. BitPositions(u, bits) = {probe[j] % bits : j \in 1..k}
  BY DEF BitPositions
<1> HIDE DEF h, M, delta, k
<1>3. \A n \in Nat : \E f : Is(f, n)
  <2> DEFINE Bad == {n \in Nat : ~\E f : Is(f, n)}
  <2>1. ASSUME NEW n \in Bad, \A y \in Bad : n <= y
        PROVE  FALSE
    <3>1. CASE n = 0
      <4> DEFINE g == [j \in 1..0 |-> h]
      <4>1. Is(g, 0)
        OBVIOUS
      <4> QED
        BY <3>1, <4>1
    <3>2. CASE n # 0
      <4>1. n - 1 \in Nat /\ ~(n <= n - 1)
        BY <3>2
      <4>2. n - 1 \notin Bad
        BY <2>1, <4>1
      <4>3. PICK f : Is(f, n - 1)
        BY <4>1, <4>2
      <4> DEFINE last == IF n = 1 THEN h ELSE (f[n - 1] + delta) % M
                 g == [j \in 1..n |-> IF j = n THEN last ELSE f[j]]
      <4>4. ASSUME NEW j \in 1..n
            PROVE  g[j] = IF j = 1 THEN h ELSE (g[j - 1] + delta) % M
        <5>1. CASE j = n
          <6>1. j # 1 => g[j - 1] = f[n - 1]
            BY <5>1
          <6> QED
            BY <5>1, <6>1
        <5>2. CASE j # n
          <6>1. j \in 1..(n - 1) /\ (j # 1 => j - 1 \in 1..n /\ j - 1 # n)
            BY <5>2
          <6>2. f[j] = IF j = 1 THEN h ELSE (f[j - 1] + delta) % M
            BY <4>3, <6>1
          <6>3. g[j] = f[j] /\ (j # 1 => g[j - 1] = f[j - 1])
            BY <5>2, <6>1
          <6> QED
            BY <6>2, <6>3
        <5> QED
          BY <5>1, <5>2
      <4>5. g = [j \in 1..n |-> g[j]]
        OBVIOUS
      <4> HIDE DEF g
      <4>6. Is(g, n)
        BY <4>4, <4>5
      <4> QED
        BY <4>6
    <3> QED
      BY <3>1, <3>2
  <2>2. Bad \subseteq Nat
    OBVIOUS
  <2> SUFFICES ASSUME NEW n \in Nat, n \in Bad PROVE FALSE
    OBVIOUS
  <2> HIDE DEF Bad
  <2> QED
    BY <2>1, <2>2, Least
<1>4. Is(probe, k)
  BY <1>1, <1>3
<1> HIDE DEF probe
<1>5. \A j \in 1..k : probe[j] = IF j = 1 THEN h ELSE (probe[j - 1] + delta) % M
  BY <1>4
<1> DEFINE Odd == {j \in 1..k : probe[j] \notin Nat}
<1>6. ASSUME NEW j \in Odd, \A y \in Odd : j <= y
      PROVE  FALSE
  <2>1. j # 1 => j - 1 \in 1..k /\ ~(j <= j - 1)
    BY <1>1
  <2>2. j # 1 => probe[j - 1] \in Nat
    BY <1>6, <2>1
  <2>3. ASSUME NEW x \in Nat
        PROVE  (x + delta) % M \in Nat
    <3>1. x + delta \in Nat
      BY <1>1
    <3> QED
      BY <1>1, <3>1
  <2> QED
    BY <1>1, <1>5, <2>2, <2>3
<1>7. Odd \subseteq Nat
  BY <1>1
<1>8. Odd = {}
  <2> HIDE DEF Odd
  <2> QED
    BY <1>6, <1>7, Least
<1>9. PICK j \in 1..k : p = probe[j] % bits
  BY <1>2
<1>10. probe[j] \in Nat
  BY <1>8
<1> QED
  BY <1>9, <1>10

\* BloomFilterPolicy: no key is missing from the filter made of it.
LEMMA BloomMatches ==
  ASSUME NEW keys, IsSeq(keys), NEW i \in 1..Len(keys), NEW u, u = keys[i], Hashed(u),
         NEW x, x = CreateFilter(keys)
  PROVE  BloomMayMatch(u, x) /\ x \in Seq(Nat) /\ Len(x) \in Nat
<1>1. /\ x \in Seq(Nat)
      /\ \E bytes \in Nat :
           /\ bytes >= 8 /\ Len(x) = bytes + 1
           /\ \A n \in 1..bytes : \A q \in 0..7 :
                8 * (n - 1) + q \in SetBits(keys, bytes) => (x[n] \div 2 ^ q) % 2 = 1
  BY FilterBytes
<1>2. PICK bytes \in Nat :
        /\ bytes >= 8 /\ Len(x) = bytes + 1
        /\ \A n \in 1..bytes : \A q \in 0..7 :
             8 * (n - 1) + q \in SetBits(keys, bytes) => (x[n] \div 2 ^ q) % 2 = 1
  BY <1>1
<1> DEFINE bits == 8 * bytes
<1>3. bits \in Nat \ {0} /\ 8 * (Len(x) - 1) = bits /\ Len(x) >= 2
  BY <1>2
<1>4. ASSUME NEW p \in BitPositions(u, bits)
      PROVE  (x[p \div 8 + 1] \div 2 ^ (p % 8)) % 2 = 1
  <2> DEFINE n == p \div 8 + 1
             q == p % 8
  <2>1. p \in Nat /\ p < bits
    BY <1>3, BitRange
  <2>2. n \in 1..bytes /\ q \in 0..7 /\ 8 * (n - 1) + q = p
    BY <2>1
  <2>3. p \in SetBits(keys, bytes)
    BY DEF SetBits
  <2> HIDE DEF n, q
  <2>4. (x[n] \div 2 ^ q) % 2 = 1
    BY <1>2, <2>2, <2>3
  <2> QED
    BY <2>4 DEF n, q
<1>5. BloomMayMatch(u, x)
  BY <1>3, <1>4 DEF BloomMayMatch
<1> QED
  BY <1>1, <1>2, <1>5

\* The key waits for filter number idx, which is the next one.
Waiting(f, idx, u) ==
  /\ idx = Len(f.filter_offsets) /\ Hashed(u)
  /\ \E n \in 1..Len(f.keys) : f.keys[n] = u

\* Where filter number idx ends.
EndOf(f, idx) == IF idx + 1 < Len(f.filter_offsets) THEN f.filter_offsets[idx + 2]
                 ELSE Len(f.result)

\* Filter number idx is there, and does not exclude the key.
Filtered(f, idx, u) ==
  /\ idx < Len(f.filter_offsets)
  /\ \E x \in Seq(Nat) : /\ BloomMayMatch(u, x) /\ Piece(f.result, f.filter_offsets[idx + 1], x)
                         /\ EndOf(f, idx) = f.filter_offsets[idx + 1] + Len(x)

\* The key is in filter number idx, or will be.
Covered(f, idx, u) == idx \in Nat /\ (Waiting(f, idx, u) \/ Filtered(f, idx, u))

\* Filters made of more keys cover what was covered.
Covers(g, f) == \A idx, u : Covered(f, idx, u) => Covered(g, idx, u)

\* GenerateFilter() turns the keys that wait into the next filter and loses no other.
LEMMA GenerateCovers ==
  ASSUME NEW f, FilterInv(f), NEW g, g = GenerateFilter(f)
  PROVE  /\ FilterInv(g) /\ Len(g.filter_offsets) = Len(f.filter_offsets) + 1
         /\ Covers(g, f) /\ g.keys = <<>>
<1> DEFINE o == f.filter_offsets
           s == f.result
           k == f.keys
           m == Len(o)
           p == g.filter_offsets
           t == g.result
           x == CreateFilter(k)
<1>1. FilterInv(g)
  BY GenerateKeeps
<1>2. g = [keys |-> <<>>, filter_offsets |-> Append(o, Len(s)),
           result |-> IF k = <<>> THEN s ELSE s \o x]
  BY DEF GenerateFilter
<1>3. p = Append(o, Len(s)) /\ t = (IF k = <<>> THEN s ELSE s \o x) /\ g.keys = <<>>
  BY <1>2
<1>4. IsSeq(k) /\ o \in Seq(Nat) /\ IsSeq(s) /\ Len(s) \in Nat /\ m \in Nat /\ IsSeq(o)
  BY SeqLen, LenProperties, SeqOfNat DEF FilterInv
<1> HIDE DEF o, s, k, p, t
<1>5. /\ Len(p) = m + 1
      /\ \A i \in 1..m + 1 : p[i] = IF i = m + 1 THEN Len(s) ELSE o[i]
  BY <1>3, <1>4, SeqAppend
<1>6. IsSeq(x)
  BY <1>4, CreateFilterSeq
<1> HIDE DEF x
<1>7. Grown(t, s)
  <2>1. Grown(s, s)
    BY <1>4 DEF Grown
  <2>2. Grown(s \o x, s)
    BY <1>4, <1>6, SeqConcat
  <2> QED
    BY <1>3, <2>1, <2>2
<1> HIDE DEF m
<1>8. ASSUME NEW idx \in Nat, NEW u, Waiting(f, idx, u)
      PROVE  Covered(g, idx, u)
  <2>1. PICK n \in 1..Len(k) : k[n] = u
    BY <1>8 DEF Waiting, k
  <2>2. idx = m /\ Hashed(u)
    BY <1>8 DEF Waiting, m, o
  <2>3. BloomMayMatch(u, x) /\ x \in Seq(Nat) /\ Len(x) \in Nat
    BY <1>4, <2>1, <2>2, BloomMatches DEF x
  <2>4. k # <<>>
    <3>1. Len(<<>>) = 0
      OBVIOUS
    <3> QED
      BY <2>1, <3>1
  <2>5. Len(t) = Len(s) + Len(x) /\ Piece(t, Len(s), x)
    BY <1>3, <1>4, <1>6, <2>4, SeqConcat
  <2>6. p[idx + 1] = Len(s) /\ idx < Len(p) /\ ~(idx + 1 < Len(p))
    BY <1>4, <1>5, <2>2
  <2>7. EndOf(g, idx) = p[idx + 1] + Len(x)
    BY <2>5, <2>6 DEF EndOf, p, t
  <2>8. Filtered(g, idx, u)
    BY <2>3, <2>5, <2>6, <2>7 DEF Filtered, p, t
  <2> QED
    BY <2>8 DEF Covered
<1>9. ASSUME NEW idx \in Nat, NEW u, Filtered(f, idx, u)
      PROVE  Covered(g, idx, u)
  <2>1. PICK y \in Seq(Nat) : /\ BloomMayMatch(u, y) /\ Piece(s, o[idx + 1], y)
                              /\ EndOf(f, idx) = o[idx + 1] + Len(y)
    BY <1>9 DEF Filtered, s, o
  <2>2. idx < m
    BY <1>9 DEF Filtered, m, o
  <2>3. idx + 1 \in 1..m /\ idx + 1 \in 1..m + 1 /\ idx + 1 # m + 1
    BY <1>4, <2>2
  <2>4. p[idx + 1] = o[idx + 1]
    BY <1>5, <2>3
  <2>5. o[idx + 1] \in Nat /\ Len(y) \in Nat
    BY <1>4, <2>1, <2>3, ElementOfSeq, LenProperties DEF m
  <2>6. Piece(t, p[idx + 1], y)
    BY <1>7, <2>1, <2>4, <2>5, PieceKept
  <2>7. EndOf(g, idx) = EndOf(f, idx)
    <3>1. idx + 1 < Len(p)
      BY <1>4, <1>5, <2>2
    <3>2. EndOf(g, idx) = p[idx + 2]
      BY <3>1 DEF EndOf, p
    <3>3. CASE idx + 1 < m
      <4>1. idx + 2 \in 1..m + 1 /\ idx + 2 # m + 1
        BY <1>4, <3>3
      <4>2. EndOf(f, idx) = o[idx + 2]
        BY <3>3 DEF EndOf, m, o
      <4> QED
        BY <1>5, <3>2, <4>1, <4>2
    <3>4. CASE ~(idx + 1 < m)
      <4>1. idx + 2 = m + 1 /\ idx + 2 \in 1..m + 1
        BY <1>4, <2>2, <3>4
      <4>2. EndOf(f, idx) = Len(s)
        BY <3>4 DEF EndOf, m, o, s
      <4> QED
        BY <1>5, <3>2, <4>1, <4>2
    <3> QED
      BY <3>3, <3>4
  <2>8. idx < Len(p)
    BY <1>4, <1>5, <2>2
  <2>9. Filtered(g, idx, u)
    BY <2>1, <2>4, <2>6, <2>7, <2>8 DEF Filtered, p, t
  <2> QED
    BY <2>9 DEF Covered
<1>10. Covers(g, f)
  BY <1>8, <1>9 DEF Covers, Covered
<1> QED
  BY <1>1, <1>3, <1>5, <1>10 DEF p, m, o

\* AddKey() lets the key wait for the next filter.
LEMMA AddKeyCovers ==
  ASSUME NEW f, FilterInv(f), NEW key, NEW u, u = ExtractUserKey(key), Hashed(u),
         NEW g, g = AddKey(f, key)
  PROVE  /\ Covers(g, f) /\ g.filter_offsets = f.filter_offsets
         /\ Covered(g, Len(f.filter_offsets), u)
<1> DEFINE k == f.keys
           n == Append(k, u)
           o == f.filter_offsets
           s == f.result
<1>1. g.keys = n /\ g.filter_offsets = o /\ g.result = s
  <2>1. f = [keys |-> k, filter_offsets |-> o, result |-> s]
    BY DEF FilterInv
  <2>2. g = [f EXCEPT !.keys = n]
    BY DEF AddKey
  <2> HIDE DEF n, k, o, s
  <2> QED
    BY <2>1, <2>2
<1>2. IsSeq(k) /\ Len(o) \in Nat
  BY LenProperties DEF FilterInv
<1> HIDE DEF k
<1>3. /\ Len(n) = Len(k) + 1 /\ Len(k) \in Nat
      /\ \A i \in 1..Len(k) + 1 : n[i] = IF i = Len(k) + 1 THEN u ELSE k[i]
  BY <1>2, SeqAppend, SeqLen
<1> HIDE DEF n
<1>4. ASSUME NEW idx, NEW v, Waiting(f, idx, v)
      PROVE  Waiting(g, idx, v)
  <2>1. PICK i \in 1..Len(k) : k[i] = v
    BY <1>4 DEF Waiting, k
  <2>2. i \in 1..Len(n) /\ n[i] = v
    BY <1>3, <2>1
  <2> QED
    BY <1>1, <1>4, <2>2 DEF Waiting
<1>5. ASSUME NEW idx, NEW v, Filtered(f, idx, v)
      PROVE  Filtered(g, idx, v)
  <2>1. EndOf(g, idx) = EndOf(f, idx)
    BY <1>1 DEF EndOf
  <2> QED
    BY <1>1, <1>5, <2>1 DEF Filtered
<1>6. Covers(g, f)
  BY <1>4, <1>5 DEF Covers, Covered
<1>7. Waiting(g, Len(o), u)
  <2>1. Len(n) \in 1..Len(n) /\ n[Len(n)] = u
    BY <1>3
  <2> QED
    BY <1>1, <2>1 DEF Waiting
<1> QED
  BY <1>1, <1>2, <1>6, <1>7 DEF Covered

\* StartBlock() makes all filters before the one of the block, and loses no key.
LEMMA StartCovers ==
  ASSUME NEW f, FilterInv(f), NEW at \in Nat, NEW g, g = StartBlock(f, at),
         Len(f.filter_offsets) <= FiltersBefore(at)
  PROVE  Covers(g, f) /\ Len(g.filter_offsets) = FiltersBefore(at)
<1>1. /\ FiltersBefore(at) \in Nat
      /\ \E new \in Nat : \E gen :
           /\ StartBlock(f, at) = gen[new] /\ gen[0] = f
           /\ \A i \in 1..new : gen[i] = GenerateFilter(gen[i - 1])
           /\ FiltersBefore(at) >= Len(f.filter_offsets) =>
                new = FiltersBefore(at) - Len(f.filter_offsets)
  BY StartBlockIs
<1>2. PICK new \in Nat : \E gen :
        /\ StartBlock(f, at) = gen[new] /\ gen[0] = f
        /\ \A i \in 1..new : gen[i] = GenerateFilter(gen[i - 1])
        /\ FiltersBefore(at) >= Len(f.filter_offsets) =>
             new = FiltersBefore(at) - Len(f.filter_offsets)
  BY <1>1
<1>3. PICK gen : /\ StartBlock(f, at) = gen[new] /\ gen[0] = f
                 /\ \A i \in 1..new : gen[i] = GenerateFilter(gen[i - 1])
                 /\ FiltersBefore(at) >= Len(f.filter_offsets) =>
                      new = FiltersBefore(at) - Len(f.filter_offsets)
  BY <1>2
<1> DEFINE m == Len(f.filter_offsets)
           Good(i) == /\ FilterInv(gen[i]) /\ Covers(gen[i], f)
                      /\ Len(gen[i].filter_offsets) = m + i
           Odd == {i \in 0..new : ~Good(i)}
<1>4. m \in Nat
  BY LenProperties DEF FilterInv
<1>5. ASSUME NEW i \in Odd, \A y \in Odd : i <= y
      PROVE  FALSE
  <2>1. CASE i = 0
    <3>1. Covers(f, f)
      BY DEF Covers
    <3>2. Good(0)
      BY <1>3, <1>4, <3>1
    <3> QED
      BY <2>1, <3>2
  <2>2. CASE i # 0
    <3>1. i \in 1..new /\ i - 1 \in 0..new /\ ~(i <= i - 1)
      BY <2>2
    <3>2. Good(i - 1)
      BY <1>5, <3>1
    <3> DEFINE a == gen[i - 1]
               b == gen[i]
    <3>3. b = GenerateFilter(a)
      BY <1>3, <3>1
    <3>4. FilterInv(a) /\ Covers(a, f) /\ Len(a.filter_offsets) = m + (i - 1)
      BY <3>2
    <3> HIDE DEF a, b, m
    <3>5. /\ FilterInv(b) /\ Len(b.filter_offsets) = Len(a.filter_offsets) + 1
          /\ Covers(b, a)
      BY <3>3, <3>4, GenerateCovers
    <3>6. Covers(b, f)
      BY <3>4, <3>5 DEF Covers
    <3>7. Len(b.filter_offsets) = m + i
      BY <1>4, <3>1, <3>4, <3>5
    <3> QED
      BY <3>5, <3>6, <3>7 DEF b
  <2> QED
    BY <2>1, <2>2
<1>6. Odd \subseteq Nat
  OBVIOUS
<1>7. Odd = {}
  <2> HIDE DEF Odd
  <2> QED
    BY <1>5, <1>6, Least
<1>8. Good(new)
  <2>1. new \in 0..new
    OBVIOUS
  <2> QED
    BY <1>7, <2>1
<1>9. new = FiltersBefore(at) - m
  BY <1>1, <1>3, <1>4
<1>10. g = gen[new]
  BY <1>3
<1>11. m + new = FiltersBefore(at)
  BY <1>1, <1>4, <1>9
<1> QED
  BY <1>8, <1>10, <1>11

\* The parts of a filter block: the filters, their offsets, the offset of the offsets
\* and kFilterBaseLg.
FilterParts(c, s, o) ==
  /\ IsSeq(c) /\ Grown(c, s) /\ Len(c) = (Len(s) + 4 * Len(o)) + 5
  /\ Piece(c, Len(s), PutAllFixed32(o))
  /\ Piece(c, Len(s) + 4 * Len(o), PutFixed32(Len(s)))
  /\ c[Len(c)] = FilterBaseLg

\* What FilterFinish() puts together has the parts.
LEMMA FilterFinishParts ==
  ASSUME NEW s, IsSeq(s), NEW o \in Seq(Nat), NEW c,
         c = ((s \o PutAllFixed32(o)) \o PutFixed32(Len(s))) \o <<FilterBaseLg>>
  PROVE  FilterParts(c, s, o)
<1> DEFINE b == PutAllFixed32(o)
           d == PutFixed32(Len(s))
           e == <<FilterBaseLg>>
           x == s \o b
           y == x \o d
<1>1. Len(s) \in Nat /\ Len(o) \in Nat
  BY SeqLen, LenProperties
<1>2. b \in Seq(Nat) /\ Len(b) = 4 * Len(o) /\ IsSeq(b)
  BY AllFixed32Bytes, SeqOfNat
<1>3. d \in Seq(Nat) /\ Len(d) = 4 /\ IsSeq(d)
  BY <1>1, Fixed32Type, SeqOfNat
<1>4. IsSeq(e) /\ Len(e) = 1 /\ e[1] = FilterBaseLg
  <2>1. e \in Seq({FilterBaseLg})
    OBVIOUS
  <2> QED
    BY <2>1 DEF IsSeq
<1>5. c = y \o e
  OBVIOUS
<1> HIDE DEF b, d, e
<1>6. IsSeq(x) /\ Len(x) = Len(s) + Len(b) /\ Grown(x, s) /\ Piece(x, Len(s), b)
  BY <1>2, SeqConcat
<1> HIDE DEF x
<1>7. IsSeq(y) /\ Len(y) = Len(x) + Len(d) /\ Grown(y, x) /\ Piece(y, Len(x), d)
  BY <1>3, <1>6, SeqConcat
<1> HIDE DEF y
<1>8. IsSeq(c) /\ Len(c) = Len(y) + Len(e) /\ Grown(c, y) /\ Piece(c, Len(y), e)
  BY <1>4, <1>5, <1>7, SeqConcat
<1>9. Grown(y, s) /\ Grown(c, s)
  BY <1>6, <1>7, <1>8, GrownTwice
<1>10. Len(x) \in Nat /\ Len(y) \in Nat /\ Len(b) \in Nat /\ Len(d) \in Nat
  BY <1>2, <1>3, <1>6, <1>7, SeqLen
<1>11. Piece(y, Len(s), b)
  BY <1>1, <1>6, <1>7, <1>10, PieceKept
<1>12. Piece(c, Len(s), b)
  BY <1>1, <1>8, <1>10, <1>11, PieceKept
<1>13. Piece(c, Len(x), d)
  BY <1>7, <1>8, <1>10, PieceKept
<1>14. Len(x) = Len(s) + 4 * Len(o)
  BY <1>2, <1>6
<1>15. Len(c) = (Len(s) + 4 * Len(o)) + 5
  BY <1>1, <1>3, <1>4, <1>7, <1>8, <1>14
<1>16. c[Len(c)] = FilterBaseLg
  <2>1. Len(c) = Len(y) + 1 /\ 1 \in 1..Len(e)
    BY <1>4, <1>8
  <2>2. c[Len(y) + 1] = e[1]
    BY <1>8, <2>1 DEF Piece
  <2> QED
    BY <1>4, <2>1, <2>2
<1> QED
  BY <1>8, <1>9, <1>12, <1>13, <1>14, <1>15, <1>16 DEF FilterParts, b, d

\* FilterBlockReader finds the offsets.
LEMMA OffsetRead ==
  ASSUME NEW s, Len(s) \in Nat, NEW o \in Seq(Nat), NEW c, FilterParts(c, s, o),
         Len(c) < Max32, NEW idx \in Nat, idx < Len(o), NEW at,
         at = Len(s) + 4 * idx
  PROVE  o[idx + 1] < Max32 => DecodeFixed32(c, at) = o[idx + 1]
<1> DEFINE b == PutAllFixed32(o)
           L == Len(s)
           v == o[idx + 1]
<1>1. Piece(c, L, b) /\ Len(o) \in Nat
  BY LenProperties DEF FilterParts
<1>2. /\ Len(b) = 4 * Len(o)
      /\ \A j \in 1..Len(o) : \A i \in 1..4 : b[4 * (j - 1) + i] = PutFixed32(o[j])[i]
  BY AllFixed32Bytes
<1>3. idx + 1 \in 1..Len(o)
  BY <1>1
<1>4. v \in Nat
  BY <1>3, ElementOfSeq
<1> HIDE DEF b
<1>5. ASSUME NEW i \in 1..4
      PROVE  c[at + i] = PutFixed32(v)[i]
  <2> DEFINE k == 4 * idx + i
  <2>1. k \in 1..Len(b) /\ L + k = at + i /\ 4 * ((idx + 1) - 1) + i = k
    BY <1>1, <1>2, <1>3
  <2>2. c[L + k] = b[k]
    <3> HIDE DEF k
    <3> QED
      BY <1>1, <2>1 DEF Piece
  <2>3. b[4 * ((idx + 1) - 1) + i] = PutFixed32(o[idx + 1])[i]
    BY <1>2, <1>3
  <2> HIDE DEF k
  <2> QED
    BY <2>1, <2>2, <2>3
<1>6. at \in Nat
  OBVIOUS
<1> HIDE DEF v
<1>7. v < Max32 => DecodeFixed32(c, at) = v
  BY <1>4, <1>5, <1>6, Fixed32ReadBack
<1> QED
  BY <1>7 DEF v

\* FilterBlockReader finds where the array of offsets begins.
LEMMA LastWordRead ==
  ASSUME NEW s, Len(s) \in Nat, NEW o \in Seq(Nat), NEW c, FilterParts(c, s, o),
         Len(c) < Max32, NEW at, at = Len(s) + 4 * Len(o)
  PROVE  DecodeFixed32(c, at) = Len(s) /\ Len(s) < Max32
<1> DEFINE d == PutFixed32(Len(s))
<1>1. Piece(c, at, d) /\ Len(o) \in Nat /\ Len(c) = (Len(s) + 4 * Len(o)) + 5
  BY LenProperties DEF FilterParts
<1>2. Len(d) = 4
  BY Fixed32Type
<1> HIDE DEF d
<1>3. Len(s) < Max32 /\ at \in Nat
  BY <1>1, Max32Nat
<1>4. \A i \in 1..4 : c[at + i] = d[i]
  BY <1>1, <1>2 DEF Piece
<1> QED
  BY <1>3, <1>4, Fixed32ReadBack DEF d

\* FilterBlockReader::KeyMayMatch() does not exclude a key that is covered.
LEMMA FilterRead ==
  ASSUME NEW f, FilterInv(f), NEW c, c = FilterFinish(f), Len(c) < Max32, NEW at \in Nat,
         NEW key, Covered(f, FiltersBefore(at), ExtractUserKey(key))
  PROVE  KeyMayMatch(c, at, key)
<1> DEFINE g == IF f.keys = <<>> THEN f ELSE GenerateFilter(f)
           u == ExtractUserKey(key)
           idx == FiltersBefore(at)
           s == g.result
           o == g.filter_offsets
<1>1. FilterInv(g) /\ g.keys = <<>> /\ Covered(g, idx, u)
  <2>1. CASE f.keys = <<>>
    BY <2>1
  <2>2. CASE f.keys # <<>>
    <3>1. g = GenerateFilter(f)
      BY <2>2
    <3> HIDE DEF g
    <3> QED
      BY <3>1, GenerateCovers DEF Covers
  <2> QED
    BY <2>1, <2>2
<1>2. c = ((s \o PutAllFixed32(o)) \o PutFixed32(Len(s))) \o <<FilterBaseLg>>
  BY DEF FilterFinish
<1> HIDE DEF g, u, idx
<1>3. idx \in Nat /\ Filtered(g, idx, u)
  <2>1. Len(g.keys) = 0
    BY <1>1
  <2>2. ~Waiting(g, idx, u)
    BY <2>1 DEF Waiting
  <2> QED
    BY <1>1, <2>2 DEF Covered
<1>4. PICK x \in Seq(Nat) : /\ BloomMayMatch(u, x) /\ Piece(s, o[idx + 1], x)
                            /\ EndOf(g, idx) = o[idx + 1] + Len(x)
  BY <1>3 DEF Filtered
<1>5. IsSeq(s) /\ o \in Seq(Nat) /\ Len(s) \in Nat /\ Len(o) \in Nat /\ idx < Len(o)
  BY <1>1, <1>3, SeqLen, LenProperties DEF FilterInv, Filtered
<1>6. EndOf(g, idx) = IF idx + 1 < Len(o) THEN o[idx + 2] ELSE Len(s)
  BY DEF EndOf
<1> HIDE DEF s, o
<1> DEFINE L == Len(s)
           N == Len(o)
           n == Len(c)
           start == o[idx + 1]
           limit == start + Len(x)
<1>7. FilterParts(c, s, o)
  BY <1>2, <1>5, FilterFinishParts
<1>8. IsSeq(c) /\ Grown(c, s) /\ n = (L + 4 * N) + 5 /\ c[n] = FilterBaseLg
  BY <1>7 DEF FilterParts
<1>9. start \in Nat /\ Len(x) \in Nat /\ limit <= L
  <2>1. idx + 1 \in 1..Len(o)
    BY <1>3, <1>5
  <2> QED
    BY <1>4, <1>5, <2>1, ElementOfSeq, LenProperties DEF Piece
<1>10. DecodeFixed32(c, n - 5) = L /\ L < Max32
  <2>1. n - 5 = L + 4 * N
    BY <1>5, <1>8
  <2> QED
    BY <1>5, <1>7, <2>1, LastWordRead
<1>11. start < Max32 /\ limit < Max32 /\ limit \in Nat
  <2>1. L \in Nat
    BY <1>5
  <2> HIDE DEF L, start
  <2> QED
    BY <1>9, <1>10, <2>1, Max32Nat
<1>12. DecodeFixed32(c, L + 4 * idx) = start
  BY <1>3, <1>5, <1>7, <1>11, OffsetRead
<1>13. DecodeFixed32(c, (L + 4 * idx) + 4) = limit
  <2>1. CASE idx + 1 < N
    <3> DEFINE j == idx + 1
    <3>1. j \in Nat /\ j < Len(o) /\ j + 1 = idx + 2 /\ (L + 4 * idx) + 4 = L + 4 * j
      BY <1>3, <1>5, <2>1
    <3>2. o[idx + 2] = limit
      BY <1>4, <1>6, <2>1
    <3> HIDE DEF j
    <3>3. o[j + 1] < Max32
      BY <1>11, <3>1, <3>2
    <3>4. DecodeFixed32(c, L + 4 * j) = o[j + 1]
      BY <1>5, <1>7, <3>1, <3>3, OffsetRead
    <3> QED
      BY <3>1, <3>2, <3>4
  <2>2. CASE ~(idx + 1 < N)
    <3>1. (L + 4 * idx) + 4 = n - 5
      BY <1>3, <1>5, <1>8, <2>2
    <3>2. limit = L
      BY <1>4, <1>6, <2>2
    <3> QED
      BY <1>10, <3>1, <3>2
  <2> QED
    BY <2>1, <2>2
<1>14. Piece(c, start, x)
  BY <1>4, <1>8, <1>9, PieceKept
<1>15. SubSeq(c, start + 1, limit) = x
  <2> HIDE DEF start
  <2> QED
    BY <1>9, <1>14, PieceOfFile
<1>16. at \div 2 ^ c[n] = idx
  BY <1>8 DEF idx, FiltersBefore
<1>17. start <= limit
  <2> HIDE DEF start
  <2> QED
    BY <1>9
<1> HIDE DEF start, limit, L, n
<1> QED
  <2> DEFINE word == DecodeFixed32(c, n - 5)
             a == DecodeFixed32(c, word + 4 * (at \div 2 ^ c[n]))
             b == DecodeFixed32(c, word + 4 * (at \div 2 ^ c[n]) + 4)
  <2>1. a = start /\ b = limit
    BY <1>10, <1>12, <1>13, <1>16
  <2>2. word = L
    BY <1>10
  <2>3. BloomMayMatch(ExtractUserKey(key), SubSeq(c, start + 1, limit))
    BY <1>4, <1>15 DEF u
  <2>4. KeyMayMatch(c, at, key) <=>
          (n >= 5 /\ word <= n - 5 /\ at \div 2 ^ c[n] < (n - 5 - word) \div 4 =>
             /\ a <= b /\ b <= word =>
                  BloomMayMatch(ExtractUserKey(key), SubSeq(c, a + 1, b))
             /\ ~(a <= b /\ b <= word) => a # b)
    BY DEF KeyMayMatch, n
  <2> HIDE DEF a, b, word
  <2> QED
    BY <1>9, <1>17, <2>1, <2>2, <2>3, <2>4

\* The filter of a block at the offset does not exclude the keys of these entries.
KeysCovered(g, es, at) ==
  \A n \in 1..Len(es) : Covered(g, FiltersBefore(at), ExtractUserKey(es[n][1]))

\* So it is for the keys of every block written.
BlocksCovered(g, w) ==
  \A b \in 1..Len(w) : KeysCovered(g, w[b].entries, w[b].handle.offset)

\* The next filter is the one of the block being built, and all keys are covered.
FilterState(r, w, cur) ==
  r.options.filter_policy =>
    /\ Len(r.filter_block.filter_offsets) = FiltersBefore(r.offset)
    /\ KeysCovered(r.filter_block, cur, r.offset) /\ BlocksCovered(r.filter_block, w)

\* Keys that are covered stay so.
LEMMA KeysStayCovered ==
  ASSUME NEW f, NEW g, Covers(g, f), NEW es, NEW at, KeysCovered(f, es, at)
  PROVE  KeysCovered(g, es, at)
BY DEF KeysCovered, Covers

\* So do the keys of the blocks.
LEMMA BlocksStayCovered ==
  ASSUME NEW f, NEW g, Covers(g, f), NEW w, BlocksCovered(f, w)
  PROVE  BlocksCovered(g, w)
BY KeysStayCovered DEF BlocksCovered

\* A block whose keys are covered joins the others.
LEMMA OneBlockMore ==
  ASSUME NEW g, NEW w, IsSeq(w), BlocksCovered(g, w), NEW h, NEW es, NEW at, h.offset = at,
         KeysCovered(g, es, at), NEW v, v = WithBlock(w, h, es)
  PROVE  BlocksCovered(g, v)
<1> DEFINE x == [handle |-> h, entries |-> es]
           n == Len(w)
<1>1. x.handle = h /\ x.entries = es
  OBVIOUS
<1> HIDE DEF x
<1>2. v = Append(w, x)
  BY DEF x, WithBlock
<1>3. /\ IsSeq(v) /\ Len(v) = n + 1
      /\ \A i \in 1..(n + 1) : v[i] = IF i = n + 1 THEN x ELSE w[i]
  BY <1>2, SeqAppend
<1>4. n \in Nat
  BY SeqLen
<1>5. ASSUME NEW b \in 1..Len(v)
      PROVE  KeysCovered(g, v[b].entries, v[b].handle.offset)
  <2>1. CASE b = n + 1
    <3>1. v[b] = x
      BY <1>3, <2>1
    <3> QED
      BY <1>1, <3>1
  <2>2. CASE b # n + 1
    <3>1. v[b] = w[b] /\ b \in 1..Len(w)
      BY <1>3, <1>4, <2>2
    <3> QED
      BY <3>1 DEF BlocksCovered
  <2> QED
    BY <2>1, <2>2
<1> QED
  BY <1>5 DEF BlocksCovered

\* There are no fewer filters before a later block.
LEMMA MoreFilters ==
  ASSUME NEW a \in Nat, NEW b \in Nat, a <= b
  PROVE  FiltersBefore(a) <= FiltersBefore(b) /\ FiltersBefore(a) \in Nat
<1> DEFINE d == 2 ^ FilterBaseLg
<1>1. d \in Nat \ {0}
  BY FilterAssumption
<1> HIDE DEF d
<1>2. a \div d <= b \div d /\ a \div d \in Nat
  BY <1>1
<1> QED
  BY <1>2 DEF FiltersBefore, d

\* Flush() closes the filters before the next block.
LEMMA FlushFiltered ==
  ASSUME NEW r, RepInv(r), r.ok, NEW w, IsSeq(w), NEW cur, FilterState(r, w, cur),
         r.data_block # EmptyBlock, BlockType(r.data_block), NEW f, f = FlushBlock(r), f.ok,
         NEW v, v = WithBlock(w, f.pending_handle, cur)
  PROVE  FilterState(f, v, <<>>) /\ f.options = r.options
<1> DEFINE x == BlockFinish(r.data_block)
           at == r.offset
           end == f.offset
           g == r.filter_block
           k == f.filter_block
           h == f.pending_handle
<1>1. IsRep(r) /\ x = BlockFinish(r.data_block)
  BY DEF RepInv
<1>2. r.ok /\ f = FlushBlock(r) /\ r.data_block # EmptyBlock
  OBVIOUS
<1>3. x \in Seq(Nat)
  BY FinishParts
<1> HIDE DEF x
<1>4. Flushed(f, r, x)
  BY ONLY <1>1, <1>2, FlushBlockIs
<1>5. /\ f.options = r.options /\ h = [offset |-> at, size |-> Len(x)]
      /\ r.options.filter_policy => k = StartBlock(g, end)
      /\ end = at + Len(x) + 5
  BY <1>4 DEF Flushed, kBlockTrailerSize
<1>6. at \in Nat /\ FilterInv(g)
  BY SeqLen DEF RepInv
<1>7. Len(x) \in Nat
  BY <1>3, LenProperties
<1>8. SUFFICES ASSUME r.options.filter_policy
               PROVE  /\ Len(k.filter_offsets) = FiltersBefore(end)
                      /\ KeysCovered(k, <<>>, end) /\ BlocksCovered(k, v)
  BY <1>5 DEF FilterState
<1>9. Len(g.filter_offsets) = FiltersBefore(at) /\ KeysCovered(g, cur, at) /\ BlocksCovered(g, w)
  BY <1>8 DEF FilterState
<1>10. h.offset = at /\ v = WithBlock(w, h, cur) /\ k = StartBlock(g, end)
  BY <1>5, <1>8
<1> HIDE DEF at, end, g, k, h
<1>11. end \in Nat /\ at <= end
  BY <1>5, <1>6, <1>7
<1>12. Len(g.filter_offsets) <= FiltersBefore(end)
  BY <1>6, <1>9, <1>11, MoreFilters
<1>13. Covers(k, g) /\ Len(k.filter_offsets) = FiltersBefore(end)
  BY <1>6, <1>10, <1>11, <1>12, StartCovers
<1>14. KeysCovered(k, cur, at) /\ BlocksCovered(k, w)
  BY <1>9, <1>13, KeysStayCovered, BlocksStayCovered
<1>15. BlocksCovered(k, v)
  BY <1>10, <1>14, OneBlockMore
<1>16. KeysCovered(k, <<>>, end)
  <2>1. Len(<<>>) = 0
    OBVIOUS
  <2> QED
    BY <2>1 DEF KeysCovered
<1> QED
  BY <1>13, <1>15, <1>16

\* What Add() hands to the filter block.
LEMMA AddToBlockFilter ==
  ASSUME NEW r, IsRep(r), NEW key, NEW value, NEW a, a = AddToBlock(r, key, value)
  PROVE  /\ a.options = r.options /\ a.offset = r.offset
         /\ r.options.filter_policy => a.filter_block = AddKey(r.filter_block, key)
<1> DEFINE fb == IF r.options.filter_policy THEN AddKey(r.filter_block, key)
                 ELSE r.filter_block
           ne == r.num_entries + 1
           n == BlockAdd(r.data_block, key, value, r.options.block_restart_interval)
<1>1. a = [r EXCEPT !.filter_block = fb, !.last_key = key, !.num_entries = ne,
                    !.data_block = n]
  BY DEF AddToBlock, IsRep
<1>2. r.options.filter_policy => fb = AddKey(r.filter_block, key)
  OBVIOUS
<1> HIDE DEF fb, ne, n
<1>3. a.options = r.options /\ a.offset = r.offset /\ a.filter_block = fb
  BY <1>1 DEF IsRep
<1> QED
  BY <1>2, <1>3

\* AddKey() on the way of Add().
LEMMA AddFiltered ==
  ASSUME NEW r, RepInv(r), NEW w, NEW cur, IsSeq(cur), FilterState(r, w, cur),
         NEW key \in Keys, NEW value, NEW c, c = AddToBlock(r, key, value),
         NEW new, new = WithEntry(cur, key, value)
  PROVE  FilterState(c, w, new)
<1> DEFINE g == r.filter_block
           k == c.filter_block
           u == ExtractUserKey(key)
           at == r.offset
           e == <<key, value>>
<1>1. IsRep(r) /\ FilterInv(g)
  BY DEF RepInv
<1>2. /\ c.options = r.options /\ c.offset = at
      /\ r.options.filter_policy => k = AddKey(g, key)
  BY ONLY <1>1, c = AddToBlock(r, key, value), AddToBlockFilter
<1>3. Hashed(u)
  BY TableAssumption DEF Hashed
<1>4. SUFFICES ASSUME r.options.filter_policy
               PROVE  /\ Len(k.filter_offsets) = FiltersBefore(at)
                      /\ KeysCovered(k, new, at) /\ BlocksCovered(k, w)
  BY <1>2 DEF FilterState
<1>5. Len(g.filter_offsets) = FiltersBefore(at) /\ KeysCovered(g, cur, at) /\ BlocksCovered(g, w)
  BY <1>4 DEF FilterState
<1>6. k = AddKey(g, key) /\ u = ExtractUserKey(key)
  BY <1>2, <1>4
<1>7. new = Append(cur, e) /\ e[1] = key
  BY DEF WithEntry
<1> HIDE DEF g, k, u, at, e
<1>8. /\ Covers(k, g) /\ k.filter_offsets = g.filter_offsets
      /\ Covered(k, Len(g.filter_offsets), u)
  BY <1>1, <1>3, <1>6, AddKeyCovers
<1>9. KeysCovered(k, cur, at) /\ BlocksCovered(k, w)
  BY <1>5, <1>8, KeysStayCovered, BlocksStayCovered
<1>10. /\ Len(new) = Len(cur) + 1 /\ Len(cur) \in Nat
       /\ \A i \in 1..Len(cur) + 1 : new[i] = IF i = Len(cur) + 1 THEN e ELSE cur[i]
  BY <1>7, SeqAppend, SeqLen
<1>11. ASSUME NEW n \in 1..Len(new)
       PROVE  Covered(k, FiltersBefore(at), ExtractUserKey(new[n][1]))
  <2>1. CASE n = Len(cur) + 1
    <3>1. new[n] = e
      BY <1>10, <2>1
    <3> QED
      BY <1>5, <1>6, <1>7, <1>8, <3>1
  <2>2. CASE n # Len(cur) + 1
    <3>1. new[n] = cur[n] /\ n \in 1..Len(cur)
      BY <1>10, <2>2
    <3> QED
      BY <1>9, <3>1 DEF KeysCovered
  <2> QED
    BY <2>1, <2>2
<1> QED
  BY <1>5, <1>8, <1>9, <1>11 DEF KeysCovered

\* What a call leaves of the filters.
FilterNoted(f, w, new) ==
  \/ f.data_block = EmptyBlock /\ FilterState(f, WithBlock(w, f.pending_handle, new), <<>>)
  \/ f.data_block # EmptyBlock /\ FilterState(f, w, new)

\* Flush() keeps all keys covered.
LEMMA FlushFilterNoted ==
  ASSUME NEW r, RepInv(r), r.ok, NEW w, IsSeq(w), NEW cur, FilterState(r, w, cur),
         r.data_block # EmptyBlock, BlockType(r.data_block), NEW f, f = FlushBlock(r), f.ok
  PROVE  f.data_block = EmptyBlock /\ FilterNoted(f, w, cur)
<1> DEFINE v == WithBlock(w, f.pending_handle, cur)
           x == BlockFinish(r.data_block)
<1>1. v = WithBlock(w, f.pending_handle, cur)
  OBVIOUS
<1> HIDE DEF v
<1>2. FilterState(f, v, <<>>)
  BY <1>1, FlushFiltered
<1>3. IsRep(r) /\ x = BlockFinish(r.data_block)
  BY DEF RepInv
<1>4. r.ok /\ f = FlushBlock(r) /\ r.data_block # EmptyBlock
  OBVIOUS
<1> HIDE DEF x
<1>5. Flushed(f, r, x)
  BY ONLY <1>3, <1>4, FlushBlockIs
<1>6. f.data_block = EmptyBlock
  BY <1>5 DEF Flushed
<1> QED
  BY <1>1, <1>2, <1>6 DEF FilterNoted

\* Add() keeps all keys covered, whether it writes the block or not.
LEMMA AddFilterNoted ==
  ASSUME SizesFit, NEW r, RepInv(r), r.ok, NEW w, IsSeq(w), NEW cur, IsSeq(cur),
         FilterState(r, w, cur), BlockType(r.data_block), NEW key \in Keys,
         NEW value \in Values, NEW f, f = AddEntry(r, key, value), f.ok,
         NEW new, new = WithEntry(cur, key, value)
  PROVE  FilterNoted(f, w, new)
<1> DEFINE sep == FindShortestSeparator(r.last_key, key)
           a == AddIndexEntry(r, sep)
           c == AddToBlock(a, key, value)
           old == r.data_block
           interval == r.options.block_restart_interval
           b == BlockAdd(old, key, value, interval)
<1>1. f = FlushIfFull(c)
  BY DEF AddEntry
<1>2. IsKey(key) /\ Len(key) < Max32 /\ value \in Seq(Nat) /\ Len(value) < Max32
  BY KeyFits DEF RepInv
<1>3. key \in Seq(Nat)
  BY <1>2 DEF IsKey
<1>4. sep \in Seq(Nat)
  BY <1>3, SeparatorType DEF RepInv
<1> HIDE DEF sep
<1>5. /\ RepInv(a) /\ a.data_block = r.data_block /\ a.file = r.file /\ a.ok = r.ok
      /\ a.closed = r.closed /\ a.options = r.options
      /\ a.pending_handle = r.pending_handle
  BY <1>4, IndexEntryKeeps
<1>6. FilterState(a, w, cur)
  <2>1. IsRep(r) /\ a = AddIndexEntry(r, sep)
    BY DEF RepInv
  <2> HIDE DEF a
  <2>2. /\ IsRep(a) /\ SameFile(a, r) /\ a.data_block = r.data_block
        /\ a.num_entries = r.num_entries
        /\ a.pending_index_entry = r.pending_index_entry
        /\ a.filter_block = r.filter_block
        /\ ~r.pending_index_entry => a = r
        /\ r.pending_index_entry =>
             /\ a.last_key = sep
             /\ a.index_block =
                  BlockAdd(r.index_block, sep, EncodeHandle(r.pending_handle), 1)
    BY ONLY <2>1, IndexEntryIs
  <2> QED
    BY <2>2 DEF FilterState, SameFile
<1> HIDE DEF a
<1>7. /\ RepInv(c) /\ c.file = a.file /\ c.ok = a.ok
      /\ c.closed = a.closed /\ c.options = a.options
      /\ c.data_block =
           BlockAdd(a.data_block, key, value, a.options.block_restart_interval)
  <2>1. c = AddToBlock(a, key, value)
    OBVIOUS
  <2>2. RepInv(a) /\ key \in Seq(Nat)
    BY <1>3, <1>5
  <2> HIDE DEF c
  <2> QED
    BY ONLY <2>1, <2>2, AddToBlockKeeps
<1>8. FilterState(c, w, new)
  <2>1. c = AddToBlock(a, key, value)
    OBVIOUS
  <2> HIDE DEF c
  <2> QED
    BY <1>5, <1>6, <2>1, AddFiltered
<1> HIDE DEF c
<1>9. c.data_block = b /\ c.ok
  BY <1>5, <1>7
<1>10. interval \in Nat
  BY OptionsType DEF RepInv
<1>11. BlockType(old)
  OBVIOUS
<1> HIDE DEF old, interval
<1>12. BlockType(b) /\ b.buffer # <<>>
  BY <1>2, <1>3, <1>10, <1>11, BlockAddSize
<1> HIDE DEF b
<1>13. b # EmptyBlock
  BY <1>12 DEF EmptyBlock
<1>14. f = FlushBlock(c) \/ f = c
  BY <1>1 DEF FlushIfFull
<1>15. CASE f = FlushBlock(c)
  BY <1>7, <1>8, <1>9, <1>12, <1>13, <1>15, FlushFilterNoted
<1>16. CASE f = c
  BY <1>8, <1>9, <1>13, <1>16 DEF FilterNoted
<1> QED
  BY <1>14, <1>15, <1>16

\* The footer leads to the metaindex, that to the filters, and they cover all keys.
FilterStored(file, w) ==
  \E m, i, h, b, g :
    /\ InFile(m, file) /\ InFile(i, file) /\ InFile(h, file) /\ Len(file) - 48 \in Nat
    /\ Piece(file, Len(file) - 48, Footer(m, i))
    /\ BlockInv(b, <<<<FilterName, EncodeHandle(h)>>>>)
    /\ m.size = Len(BlockFinish(b)) /\ Piece(file, m.offset, BlockFinish(b))
    /\ FilterInv(g) /\ BlocksCovered(g, w)
    /\ h.size = Len(FilterFinish(g)) /\ Piece(file, h.offset, FilterFinish(g))

\* The inductive invariant of the filters: all keys are covered while the table is built,
\* and by what a small file holds once Finish() has called it good.
FilterTableInv ==
  /\ rep.ok /\ ~rep.closed => FilterState(rep, written, current)
  /\ finish = "ok" /\ rep.options.filter_policy /\ Len(rep.file) < Max32 =>
       FilterStored(rep.file, written)

\* After a call that noted the block or the entries.
LEMMA FilterNotedKeeps ==
  ASSUME NEW f, f = rep', NEW new, new # <<>>, Note(f, new),
         f.ok => FilterNoted(f, written, new), IndexInv, ~rep.closed, finish' = finish
  PROVE  FilterTableInv'
<1>1. finish' = "none"
  BY DEF IndexInv
<1>2. ASSUME f.ok
      PROVE  FilterState(f, written', current')
  <2>1. CASE f.data_block = EmptyBlock
    <3>1. /\ written' = Append(written, [handle |-> f.pending_handle, entries |-> new])
          /\ current' = <<>>
      BY <1>2, <2>1 DEF Note
    <3>2. written' = WithBlock(written, f.pending_handle, new)
      BY <3>1 DEF WithBlock
    <3>3. FilterState(f, WithBlock(written, f.pending_handle, new), <<>>)
      BY <1>2, <2>1 DEF FilterNoted
    <3> QED
      BY <3>1, <3>2, <3>3
  <2>2. CASE f.data_block # EmptyBlock
    <3>1. written' = written /\ current' = new
      BY <2>2 DEF Note
    <3> QED
      BY <1>2, <2>2, <3>1 DEF FilterNoted
  <2> QED
    BY <2>1, <2>2
<1> QED
  BY <1>1, <1>2 DEF FilterTableInv

\* Add() keeps the invariant of the filters.
LEMMA AddFilterStep ==
  ASSUME SizesFit, TableInv, IndexInv, FilterTableInv, NEW key \in Keys,
         NEW value \in Values, Add(key, value)
  PROVE  FilterTableInv'
<1> DEFINE r == rep
           f == rep'
           new == Append(current, <<key, value>>)
<1>1. /\ ~rep.closed /\ rep.ok /\ rep' = AddEntry(rep, key, value) /\ Note(rep', new)
      /\ finish' = finish
  BY DEF Add
<1>2. RepInv(r) /\ BlockType(r.data_block)
  BY <1>1 DEF TableInv, BlockGood, BlockInv
<1>3. IsSeq(written) /\ IsSeq(current) /\ FilterState(r, written, current)
  BY <1>1 DEF IndexInv, IndexState, FilterTableInv
<1>4. new = WithEntry(current, key, value) /\ f = AddEntry(r, key, value) /\ r.ok /\ f = rep'
      /\ Note(f, new)
  BY <1>1 DEF WithEntry
<1> HIDE DEF r, f, new
<1>5. f.ok => FilterNoted(f, written, new)
  BY <1>2, <1>3, <1>4, AddFilterNoted
<1>6. new # <<>>
  <2>1. Len(new) = Len(current) + 1 /\ Len(current) \in Nat
    BY <1>3, SeqAppend, SeqLen DEF new
  <2>2. Len(<<>>) = 0
    OBVIOUS
  <2> QED
    BY <2>1, <2>2
<1> QED
  BY <1>1, <1>4, <1>5, <1>6, FilterNotedKeeps

\* Flush() keeps it.
LEMMA FlushFilterStep ==
  ASSUME TableInv, IndexInv, FilterTableInv, Flush
  PROVE  FilterTableInv'
<1> DEFINE r == rep
           f == rep'
<1>1. /\ ~rep.closed /\ rep.ok /\ rep.data_block # EmptyBlock
      /\ rep' = FlushBlock(rep) /\ Note(rep', current) /\ finish' = finish
  BY DEF Flush
<1>2. RepInv(r) /\ BlockType(r.data_block)
  BY <1>1 DEF TableInv, BlockGood, BlockInv
<1>3. IsSeq(written) /\ current # <<>> /\ FilterState(r, written, current)
  BY <1>1 DEF IndexInv, IndexState, FilterTableInv
<1>4. f = FlushBlock(r) /\ r.ok /\ f = rep' /\ r.data_block # EmptyBlock /\ Note(f, current)
  BY <1>1
<1> HIDE DEF r, f
<1>5. f.ok => FilterNoted(f, written, current)
  BY <1>2, <1>3, <1>4, FlushFilterNoted
<1> QED
  BY <1>1, <1>3, <1>4, <1>5, FilterNotedKeeps

\* ChangeOptions() keeps it: it does not touch filter_policy.
LEMMA ChangeOptionsFilterStep ==
  ASSUME TableInv, IndexInv, FilterTableInv, NEW options \in OptionSets,
         ChangeOptions(options)
  PROVE  FilterTableInv'
<1> DEFINE r == rep
           f == rep'
<1>1. /\ f = [r EXCEPT !.options = options] /\ current' = current /\ written' = written
      /\ ~r.closed /\ finish' = finish /\ options.filter_policy = r.options.filter_policy
  BY DEF ChangeOptions
<1>2. IsRep(r)
  BY DEF TableInv
<1>3. finish' = "none"
  BY <1>1 DEF IndexInv
<1>4. /\ f.options = options /\ f.offset = r.offset /\ f.ok = r.ok
      /\ f.filter_block = r.filter_block
  <2> HIDE DEF r, f
  <2>1. f = [r EXCEPT !.options = options]
    BY <1>1
  <2> QED
    BY ONLY <1>2, <2>1 DEF IsRep
<1>5. f.ok => FilterState(r, written, current)
  BY <1>1, <1>4 DEF FilterTableInv
<1> HIDE DEF f, r
<1>6. f.ok => FilterState(f, written, current)
  BY <1>1, <1>4, <1>5 DEF FilterState
<1> QED
  BY <1>1, <1>3, <1>6 DEF FilterTableInv, f

\* Abandon() keeps it.
LEMMA AbandonFilterStep ==
  ASSUME TableInv, IndexInv, FilterTableInv, Abandon
  PROVE  FilterTableInv'
<1> DEFINE r == rep
           f == rep'
<1>1. f = [r EXCEPT !.closed = TRUE] /\ ~r.closed /\ finish' = finish
  BY DEF Abandon
<1>2. IsRep(r)
  BY DEF TableInv
<1>3. finish' = "none"
  BY <1>1 DEF IndexInv
<1>4. f.closed = TRUE
  <2> HIDE DEF r, f
  <2> QED
    BY <1>1, <1>2, Closes
<1> HIDE DEF f
<1> QED
  BY <1>3, <1>4 DEF FilterTableInv, f

\* A block that is neither data nor index: where it is, and that what was in the file stays.
RawAt(w, r, x) ==
  /\ InFile(w.handle, w.file) /\ w.handle.offset \in Nat /\ w.handle.size = Len(x)
  /\ Piece(w.file, w.handle.offset, x) /\ Grown(w.file, r.file)

\* WriteRawBlock() puts the block behind what is there.
LEMMA RawBlockPlaced ==
  ASSUME NEW r, RepInv(r), NEW v, IndexState(r, v, <<>>), NEW x, IsSeq(x),
         NEW w, w = WriteRawBlock(r, x), w.ok
  PROVE  RepInv(w) /\ IndexState(w, v, <<>>) /\ w.options = r.options /\ RawAt(w, r, x)
<1>1. /\ RepInv(w) /\ IndexState(w, v, <<>>) /\ InFile(w.handle, w.file)
      /\ w.closed = r.closed /\ w.options = r.options
  BY RawBlockIndexed
<1>2. Clean(r)
  BY DEF IndexState
<1>3. /\ RepInv(w) /\ Clean(w) /\ SameIndex(w, r) /\ w.closed = r.closed
      /\ w.options = r.options
      /\ w.handle = [offset |-> r.offset, size |-> Len(x)]
      /\ Piece(w.file, r.offset, x)
      /\ w.offset = r.offset + Len(x) + 5 /\ w.offset \in Nat /\ r.offset \in Nat
      /\ Len(x) \in Nat
  BY <1>2, RawBlockAt
<1>4. /\ IsRep(w) /\ SameBlocks(w, r) /\ IsHandle(w.handle)
      /\ w.ok => RepInv(w) /\ Grown(w.file, r.file)
  BY RawBlockKeeps
<1>5. w.handle.offset = r.offset /\ w.handle.size = Len(x)
  BY <1>3
<1> QED
  BY <1>1, <1>3, <1>4, <1>5 DEF RawAt

\* The metaindex block has one entry.
LEMMA MetaBlock ==
  ASSUME NEW h, IsHandle(h), h.offset < Max32, h.size < Max32, Len(FilterName) < Max32,
         NEW interval \in Nat \ {0}, NEW b,
         b = BlockAdd(EmptyBlock, FilterName, EncodeHandle(h), interval)
  PROVE  BlockInv(b, <<<<FilterName, EncodeHandle(h)>>>>)
<1> DEFINE val == EncodeHandle(h)
           e == <<FilterName, val>>
<1>1. val \in Seq(Nat) /\ Len(val) <= 10
  BY HandleLength
<1>2. Len(val) < Max32
  BY <1>1, LenProperties DEF Max32
<1>3. FilterName \in Seq(Nat)
  BY InputTypes
<1>4. b = BlockAdd(EmptyBlock, FilterName, val, interval)
  OBVIOUS
<1> HIDE DEF val
<1>5. BlockInv(b, Append(<<>>, <<FilterName, val>>))
  BY <1>1, <1>2, <1>3, <1>4, EmptyBlockInv, BlockAdded
<1> HIDE DEF e
<1>6. Append(<<>>, e) = <<e>>
  OBVIOUS
<1> QED
  BY <1>5, <1>6 DEF e, val

\* Finish() writes the filters and the way to them.
LEMMA FinishFiltered ==
  ASSUME Len(FilterName) < Max32, NEW g, RepInv(g), NEW v, IndexState(g, v, <<>>),
         FilterState(g, v, <<>>), g.options.filter_policy, NEW f, f = FinishAfter(g), f.ok,
         Len(f.file) < Max32
  PROVE  FilterStored(f.file, v)
<1> DEFINE d == [g EXCEPT !.closed = TRUE]
           e == IF d.ok THEN WriteFilter(d) ELSE d
           m == IF e.ok THEN WriteMetaIndex(e) ELSE e
<1>1. f = IF m.ok THEN WriteFooter(m) ELSE m
  BY DEF FinishAfter, IfOk
<1>2. IsRep(g) /\ Clean(g) /\ g.offset \in Nat
  BY SeqLen DEF RepInv, IndexState
<1>3. RepInv(d) /\ d.options = g.options /\ d.filter_block = g.filter_block
  BY <1>2, Closes
<1>4. SameIndex(d, g) /\ d.offset = g.offset /\ Clean(d)
  BY <1>2, ClosesIndex
<1> HIDE DEF d
<1>5. IndexState(d, v, <<>>)
  <2>1. d.offset \in Nat /\ g.offset <= d.offset
    BY <1>2, <1>4
  <2> QED
    BY <1>2, <1>4, <2>1, IndexCarried
<1>6. m.ok
  BY <1>1
<1>7. f = WriteFooter(m)
  BY <1>1, <1>6
<1>8. e.ok /\ m = WriteMetaIndex(e)
  BY <1>6
<1> HIDE DEF m
<1>9. d.ok /\ e = WriteFilter(d)
  BY <1>8
<1> HIDE DEF e
<1> DEFINE fb == d.filter_block
           x == FilterFinish(fb)
           h == e.handle
           b == BlockAdd(EmptyBlock, FilterName, EncodeHandle(h),
                         e.options.block_restart_interval)
           y == BlockFinish(b)
<1>10. FilterInv(fb) /\ BlocksCovered(fb, v)
  BY <1>3 DEF FilterState, RepInv
<1>11. e = WriteRawBlock(d, x)
  BY <1>3, <1>9 DEF WriteFilter
<1> HIDE DEF fb
<1>12. IsSeq(x)
  BY <1>10, FilterFinishSeq
<1> HIDE DEF x
<1>13. RepInv(e) /\ IndexState(e, v, <<>>) /\ e.options = d.options /\ RawAt(e, d, x)
  BY <1>3, <1>5, <1>8, <1>11, <1>12, RawBlockPlaced
<1>14. e.options.filter_policy /\ IsHandle(h)
  BY <1>3, <1>13 DEF RawAt, InFile
<1>15. MetaIndex(e) = y
  BY <1>14 DEF MetaIndex
<1>16. IsSeq(y)
  <2>1. IsSeq(MetaIndex(e))
    BY <1>13, <1>14, MetaIndexSeq
  <2> QED
    BY <1>15, <2>1
<1>17. m = WriteRawBlock(e, y)
  BY <1>8, <1>15 DEF WriteMetaIndex
<1>18. e.options.block_restart_interval \in Nat \ {0}
  BY <1>13, OptionsType DEF RepInv
<1> HIDE DEF h, y
<1>19. RepInv(m) /\ IndexState(m, v, <<>>) /\ m.options = e.options /\ RawAt(m, e, y)
  BY <1>6, <1>13, <1>16, <1>17, RawBlockPlaced
<1>20. InFile(m.handle, m.file)
  BY <1>19 DEF RawAt
<1>21. WholeWith(f, v, m.handle)
  BY <1>7, <1>19, <1>20, FooterWhole
<1>22. Ended(f, m)
  BY <1>7, <1>19, WriteFooterKeeps
<1> DEFINE file == f.file
<1>23. IsSeq(file) /\ Grown(file, m.file) /\ Grown(m.file, e.file)
  BY <1>19, <1>22 DEF Ended, RawAt
<1>24. PICK i : /\ InFile(m.handle, file) /\ InFile(i, file) /\ Len(file) - 48 \in Nat
                /\ Piece(file, Len(file) - 48, Footer(m.handle, i))
  BY <1>21 DEF WholeWith
<1> HIDE DEF file
<1>25. Grown(file, e.file)
  BY <1>23, GrownTwice
<1> DEFINE p == h.offset
           q == m.handle.offset
<1>26. /\ InFile(h, e.file) /\ p \in Nat /\ h.size = Len(x) /\ Piece(e.file, p, x)
       /\ q \in Nat /\ m.handle.size = Len(y) /\ Piece(m.file, q, y)
  BY <1>13, <1>19 DEF RawAt, h
<1> HIDE DEF p, q
<1>27. Piece(file, p, x) /\ Piece(file, q, y)
  BY <1>12, <1>16, <1>23, <1>25, <1>26, PieceKept, SeqLen
<1>28. InFile(h, file)
  BY <1>25, <1>26, InFileKept
<1>29. Len(file) \in Nat /\ Len(file) < Max32
  BY <1>23, SeqLen DEF file
<1>30. IsHandle(h) /\ h.offset < Max32 /\ h.size < Max32
  BY <1>28, <1>29, InSmallFile
<1>31. BlockInv(b, <<<<FilterName, EncodeHandle(h)>>>>)
  BY <1>18, <1>30, MetaBlock
<1> HIDE DEF b
<1>32. FilterStored(file, v)
  BY <1>10, <1>24, <1>26, <1>27, <1>28, <1>31 DEF FilterStored, x, y, p, q
<1> QED
  BY <1>32 DEF file

\* Finish() keeps the invariant of the filters.
LEMMA FinishFilterStep ==
  ASSUME Len(FilterName) < Max32, TableInv, IndexInv, FilterTableInv, Finish
  PROVE  FilterTableInv'
<1> DEFINE r == rep
           f == rep'
           g == FlushBlock(r)
<1>1. /\ ~r.closed /\ f = FinishFile(r) /\ Note(f, current) /\ f = rep' /\ IsRep(r)
      /\ finish' = IF f.ok THEN "ok" ELSE "error"
  BY DEF Finish, TableInv
<1>2. f = FinishAfter(g)
  BY <1>1 DEF FinishFile, FinishAfter
<1>3. r.ok => /\ RepInv(r) /\ BlockInv(r.data_block, current) /\ SmallBlock(r.data_block)
              /\ BlockType(r.data_block) /\ IndexState(r, written, current)
              /\ FilterState(r, written, current)
  BY <1>1 DEF TableInv, BlockGood, BlockInv, IndexInv, FilterTableInv
<1> HIDE DEF r, f
<1>4. CASE ~r.ok
  <2>1. g = r
    BY <1>4 DEF FlushBlock
  <2> HIDE DEF g
  <2>2. IsRep(f) /\ f.closed = TRUE /\ (f.ok => g.ok)
    BY <1>1, <1>2, <1>4, <2>1, FinishKeeps
  <2>3. ~f.ok /\ f.closed
    BY <1>4, <2>1, <2>2
  <2>4. finish' = "error"
    BY <1>1, <2>3
  <2> QED
    BY <2>3, <2>4 DEF FilterTableInv, f
<1>5. CASE r.ok
  <2>1. g = FlushBlock(r)
    OBVIOUS
  <2> HIDE DEF g
  <2>2. /\ IsRep(g) /\ g.options = r.options /\ g.closed = r.closed
        /\ r.data_block = EmptyBlock => g = r
        /\ r.data_block # EmptyBlock => g.data_block = EmptyBlock
        /\ g.ok => /\ RepInv(g) /\ Grown(g.file, r.file)
                   /\ r.data_block # EmptyBlock =>
                        Stored(g.file, g.pending_handle, current)
    BY <1>3, <1>5, <2>1, FlushKeeps
  <2>3. /\ IsRep(f) /\ f.closed = TRUE /\ f.data_block = g.data_block
        /\ f.pending_handle = g.pending_handle /\ f.options = g.options
        /\ f.ok => g.ok /\ IsSeq(f.file) /\ Grown(f.file, g.file)
    BY <1>2, <2>2, FinishKeeps
  <2>4. ASSUME f.ok, f.options.filter_policy, Len(f.file) < Max32
        PROVE  FilterStored(f.file, written')
    <3>1. g.ok /\ RepInv(g) /\ g.options.filter_policy
      BY <2>2, <2>3, <2>4
    <3>2. CASE r.data_block = EmptyBlock
      <4>1. current = <<>> /\ g = r
        BY <1>3, <1>5, <2>2, <3>2, EmptyHasNone
      <4>2. written' = written
        BY <1>1, <4>1 DEF Note
      <4>3. IndexState(g, written, <<>>) /\ FilterState(g, written, <<>>)
        BY <1>3, <1>5, <4>1
      <4> QED
        BY <1>2, <2>4, <3>1, <4>2, <4>3, FinishFiltered
    <3>3. CASE r.data_block # EmptyBlock
      <4>1. current # <<>> /\ IsSeq(written)
        BY <1>3, <1>5, <3>3 DEF IndexState
      <4>2. g.data_block = EmptyBlock /\ Noted(g, written, current)
        BY <1>3, <1>5, <2>1, <3>1, <3>3, <4>1, FlushNoted
      <4>3. g.data_block = EmptyBlock /\ FilterNoted(g, written, current)
        BY <1>3, <1>5, <2>1, <3>1, <3>3, <4>1, FlushFilterNoted
      <4> DEFINE v == WithBlock(written, g.pending_handle, current)
      <4>4. IndexState(g, v, <<>>) /\ FilterState(g, v, <<>>)
        BY <4>2, <4>3 DEF Noted, FilterNoted
      <4>5. written' = v
        <5>1. f.data_block = EmptyBlock /\ f.pending_handle = g.pending_handle
          BY <2>3, <4>2
        <5>2. written' = Append(written, [handle |-> f.pending_handle, entries |-> current])
          BY <1>1, <2>4, <4>1, <5>1 DEF Note
        <5> QED
          BY <5>1, <5>2 DEF WithBlock
      <4> HIDE DEF v
      <4> QED
        BY <1>2, <2>4, <3>1, <4>4, <4>5, FinishFiltered
    <3> QED
      BY <3>2, <3>3
  <2>5. f.closed
    BY <2>3
  <2>6. finish' = "ok" => f.ok
    BY <1>1
  <2> QED
    BY <2>4, <2>5, <2>6 DEF FilterTableInv, f
<1> QED
  BY <1>4, <1>5

\* It holds at the start.
LEMMA FilterInit ==
  ASSUME Init
  PROVE  FilterTableInv
<1>1. PICK o \in OptionSets, n \in 0..MaxOps :
        rep = [options |-> o, offset |-> 0, ok |-> TRUE,
               data_block |-> EmptyBlock, index_block |-> EmptyBlock,
               last_key |-> <<>>, num_entries |-> 0, closed |-> FALSE,
               filter_block |-> StartBlock(EmptyFilterBlock, 0),
               pending_index_entry |-> FALSE,
               pending_handle |-> [offset |-> 0, size |-> 0],
               handle |-> [offset |-> 0, size |-> 0],
               file |-> <<>>, ops |-> 0, fail_at |-> n]
  BY DEF Init
<1> DEFINE e == EmptyFilterBlock
           g == StartBlock(e, 0)
<1>2. FilterInv(e) /\ Len(e.filter_offsets) = 0
  BY EmptySeq DEF FilterInv, IsSeq, EmptyFilterBlock
<1> HIDE DEF e
<1>3. FiltersBefore(0) \in Nat
  BY MoreFilters
<1>4. Covers(g, e) /\ Len(g.filter_offsets) = FiltersBefore(0)
  <2>1. 0 \in Nat /\ Len(e.filter_offsets) <= FiltersBefore(0)
    BY <1>2, <1>3
  <2> QED
    BY <1>2, <2>1, StartCovers
<1> HIDE DEF g
<1>5. rep.filter_block = g /\ rep.offset = 0
  BY <1>1 DEF g, e
<1>6. current = <<>> /\ written = <<>> /\ finish = "none"
  BY DEF Init
<1> DEFINE none == <<>>
<1>7. Len(none) = 0 /\ current = none /\ written = none
  BY <1>6
<1> HIDE DEF none
<1>8. KeysCovered(g, none, 0) /\ BlocksCovered(g, none)
  BY <1>7 DEF KeysCovered, BlocksCovered
<1>9. FilterState(rep, written, current)
  BY <1>4, <1>5, <1>7, <1>8 DEF FilterState
<1> QED
  BY <1>6, <1>9 DEF FilterTableInv

\* Every step keeps it.
LEMMA FilterNext ==
  ASSUME SizesFit, Len(FilterName) < Max32, TableInv, IndexInv, FilterTableInv, [Next]_vars
  PROVE  FilterTableInv'
<1>1. CASE UNCHANGED vars
  BY <1>1 DEF FilterTableInv, vars
<1>2. CASE Next
  BY <1>2, AddFilterStep, ChangeOptionsFilterStep, FlushFilterStep, FinishFilterStep,
     AbandonFilterStep DEF Next
<1> QED
  BY <1>1, <1>2

\* Reading a piece of a file, whatever it is made of.
LEMMA PieceOfSeq ==
  ASSUME NEW file, NEW x, IsSeq(x), NEW at \in Nat, Piece(file, at, x)
  PROVE  SubSeq(file, at + 1, at + Len(x)) = x
<1>1. PICK S : x \in Seq(S)
  BY DEF IsSeq
<1>2. SameBytes(file, at, x)
  BY DEF Piece, SameBytes
<1> QED
  BY <1>1, <1>2, PartRead

\* The footer holds the handle of the metaindex.
LEMMA MetaHandleRead ==
  ASSUME NEW file, Len(file) \in Nat, Len(file) < Max32, NEW m, NEW i, InFile(m, file),
         InFile(i, file), NEW at \in Nat, at = Len(file) - 48, Piece(file, at, Footer(m, i)),
         NEW d, d = DecodeHandle(file, at)
  PROVE  d.offset = m.offset /\ d.size = m.size
<1> DEFINE x == EncodeHandle(m)
           y == EncodeHandle(i)
           z == x \o y
           foot == Footer(m, i)
<1>1. /\ IsHandle(m) /\ m.offset < Max32 /\ m.size < Max32
      /\ IsHandle(i) /\ i.offset < Max32 /\ i.size < Max32
  BY InSmallFile
<1>2. x \in Seq(Nat) /\ y \in Seq(Nat) /\ Len(x) <= 10 /\ Len(y) <= 10
  BY <1>1, HandleLength
<1>3. /\ Len(foot) = 48
      /\ \A j \in 1..40 : j <= Len(z) => foot[j] = z[j]
  <2>1. /\ IsSeq(Footer(m, i)) /\ Len(Footer(m, i)) = 48
        /\ \A j \in 1..40 : j <= Len(EncodeHandle(m) \o EncodeHandle(i)) =>
             Footer(m, i)[j] = (EncodeHandle(m) \o EncodeHandle(i))[j]
        /\ Piece(Footer(m, i), 40, kTableMagicNumber)
    BY ONLY FooterParts
  <2> QED
    BY ONLY <2>1
<1>4. Piece(file, at, foot)
  OBVIOUS
<1> HIDE DEF x, y, foot
<1>5. Len(x) \in Nat /\ Len(y) \in Nat /\ Len(z) = Len(x) + Len(y)
      /\ \A j \in 1..Len(x) : z[j] = x[j]
  BY <1>2, LenProperties, ConcatProperties
<1> HIDE DEF z
<1>6. /\ at + 48 <= Len(file) /\ \A j \in 1..48 : file[at + j] = foot[j]
  BY <1>3, <1>4 DEF Piece
<1>7. ASSUME NEW j \in 1..Len(x)
      PROVE  file[at + j] = x[j]
  <2>1. j \in 1..40 /\ j \in 1..48 /\ j <= Len(z)
    BY <1>2, <1>5
  <2> QED
    BY <1>3, <1>5, <1>6, <2>1
<1>8. Piece(file, at, x)
  <2>1. at + Len(x) <= Len(file)
    BY <1>2, <1>5, <1>6
  <2> QED
    BY <1>7, <2>1 DEF Piece
<1> QED
  BY <1>1, <1>8, DecodeHandleAt DEF x

\* What a reader finds behind the footer keeps every key.
LEMMA FiltersRead ==
  ASSUME TableInv, IndexInv, FilterTableInv, Len(rep.file) < Max32
  PROVE  FilterCovers
<1>1. SUFFICES ASSUME finish = "ok", rep.options.filter_policy,
                      NEW n \in 1 .. Len(written), NEW e \in Range(written[n].entries)
               PROVE  KeyMayMatch(ReadBlock(FilterHandle), written[n].handle.offset, e[1])
  BY DEF FilterCovers
<1> DEFINE file == rep.file
           w == written
           at == Len(file) - 48
<1>2. rep.ok /\ WholeFile(rep, written)
  BY <1>1 DEF IndexInv
<1>3. IsSeq(w) /\ IsSeq(file) /\ WrittenStored(w, file)
  BY <1>2 DEF TableInv
<1>4. rep.offset = Len(file) /\ Placed(w, Len(file))
  BY <1>2 DEF WholeFile, WholeWith
<1>5. FilterStored(file, w)
  BY <1>1 DEF FilterTableInv
<1>6. PICK m, i, h, b, g :
        /\ InFile(m, file) /\ InFile(i, file) /\ InFile(h, file) /\ Len(file) - 48 \in Nat
        /\ Piece(file, Len(file) - 48, Footer(m, i))
        /\ BlockInv(b, <<<<FilterName, EncodeHandle(h)>>>>)
        /\ m.size = Len(BlockFinish(b)) /\ Piece(file, m.offset, BlockFinish(b))
        /\ FilterInv(g) /\ BlocksCovered(g, w)
        /\ h.size = Len(FilterFinish(g)) /\ Piece(file, h.offset, FilterFinish(g))
  BY <1>5 DEF FilterStored
<1>7. Len(file) \in Nat /\ Len(file) < Max32
  BY <1>3, SeqLen
<1> DEFINE d == MetaIndexHandle
           v == EncodeHandle(h)
           es == <<<<FilterName, v>>>>
           c == FilterFinish(g)
           f == FilterHandle
<1>8. d = DecodeHandle(file, at)
  BY <1>4 DEF MetaIndexHandle, FooterAt, kEncodedLength
<1>9. f = DecodeHandle(Entries(SubSeq(file, d.offset + 1, d.offset + d.size))[1][2], 0)
  BY DEF FilterHandle, ReadBlock
<1>10. ReadBlock(f) = SubSeq(file, f.offset + 1, f.offset + f.size)
  BY DEF ReadBlock
<1>11. n \in 1..Len(w) /\ e \in Range(w[n].entries)
  BY <1>1
<1> HIDE DEF file, w, d, f
<1>12. d.offset = m.offset /\ d.size = m.size
  <2>1. at \in Nat /\ at = Len(file) - 48 /\ Piece(file, at, Footer(m, i))
    BY <1>6
  <2> HIDE DEF at
  <2> QED
    BY <1>6, <1>7, <1>8, <2>1, MetaHandleRead
<1>13. Entries(SubSeq(file, m.offset + 1, m.offset + m.size)) = es
  <2>1. m.offset \in Nat
    BY <1>6 DEF InFile, IsHandle
  <2>2. BlockInv(b, es)
    BY <1>6
  <2> HIDE DEF es
  <2> QED
    BY <1>6, <1>7, <2>1, <2>2, SmallBlockRead
<1>14. IsHandle(h) /\ h.offset < Max32 /\ h.size < Max32
  BY <1>6, <1>7, InSmallFile
<1>15. v \in Seq(Nat) /\ Len(v) \in Nat /\ v = EncodeHandle(h)
  BY <1>14, HandleLength, LenProperties
<1> HIDE DEF v
<1>16. es[1][2] = v
  OBVIOUS
<1> HIDE DEF es
<1>17. f = DecodeHandle(v, 0)
  BY <1>9, <1>12, <1>13, <1>16
<1>18. f.offset = h.offset /\ f.size = h.size
  <2>1. Piece(v, 0, EncodeHandle(h))
    BY <1>15, WholePiece
  <2> QED
    BY <1>14, <1>15, <1>17, <2>1, DecodeHandleAt
<1>19. IsSeq(c) /\ Len(c) \in Nat /\ h.offset \in Nat /\ h.size = Len(c)
       /\ Piece(file, h.offset, c)
  BY <1>6, <1>14, FilterFinishSeq, SeqLen DEF IsHandle
<1>20. c = FilterFinish(g)
  OBVIOUS
<1> HIDE DEF c
<1>21. ReadBlock(f) = c
  <2> DEFINE o == h.offset
             s == h.size
  <2>1. o \in Nat /\ s = Len(c) /\ Piece(file, o, c)
    BY <1>19
  <2> HIDE DEF o, s
  <2>2. SubSeq(file, o + 1, o + Len(c)) = c
    BY <1>19, <2>1, PieceOfSeq
  <2> QED
    BY <1>10, <1>18, <2>1, <2>2 DEF o, s
<1>22. Len(c) < Max32
  BY <1>14, <1>19
<1> DEFINE es1 == w[n].entries
           off == w[n].handle.offset
<1>23. PICK k \in 1..Len(es1) : e = es1[k]
  <2>1. es1 \in Seq(Entry) /\ e \in Range(es1)
    BY <1>3, <1>11 DEF WrittenStored, Stored, BlockInv
  <2> HIDE DEF es1
  <2>2. DOMAIN es1 = 1..Len(es1)
    BY <2>1, LenProperties
  <2>3. \E k \in 1..Len(es1) : e = es1[k]
    BY <2>1, <2>2 DEF Range
  <2> QED
    BY <2>3
<1>24. off \in Nat
  BY <1>4, <1>11 DEF Placed, IsHandle
<1>25. KeysCovered(g, es1, off)
  BY <1>6, <1>11 DEF BlocksCovered
<1> DEFINE key == e[1]
<1>26. Covered(g, FiltersBefore(off), ExtractUserKey(key))
  BY <1>23, <1>25 DEF KeysCovered
<1> HIDE DEF es1, off, key
<1>27. KeyMayMatch(c, off, key)
  BY <1>6, <1>20, <1>22, <1>24, <1>26, FilterRead
<1> QED
  BY <1>21, <1>27 DEF off, key, w, f

\* No table below 4 GB that Finish() calls good has a filter that excludes a key from the
\* block that holds it.
THEOREM FiltersCoverKeys ==
  ASSUME SizesFit, Len(FilterName) < Max32
  PROVE  Spec => [](Len(rep.file) < Max32 => FilterCovers)
<1> DEFINE Inv == TableInv /\ IndexInv /\ FilterTableInv
           Covering == Len(rep.file) < Max32 => FilterCovers
<1>1. Init => Inv
  BY InitHolds, IndexInit, FilterInit
<1>2. Inv /\ [Next]_vars => Inv'
  BY NextHolds, IndexNext, FilterNext
<1>3. Inv => Covering
  BY FiltersRead
<1> QED
  BY <1>1, <1>2, <1>3, PTL DEF Spec
=============================================================================
