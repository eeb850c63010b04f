--------------------------- MODULE LRUCacheProofs ---------------------------
(***************************************************************************)
(* Proofs about the cache, for all sets of readers and files, all charges, *)
(* all hash functions, every first length of the hash table and every      *)
(* capacity.                                                               *)
(***************************************************************************)
EXTENDS LRUCache, FiniteSetTheorems, SequenceTheorems, WellFoundedInduction, TLAPS

-----------------------------------------------------------------------------
(* The smallest and the largest of some numbers.                           *)

\* Min() of some numbers is one of them and the smallest.
LEMMA MinNat ==
  ASSUME NEW S, S \subseteq Nat, S # {}
  PROVE  Min(S) \in S /\ \A y \in S : Min(S) <= y
<1> DEFINE R == {ss \in Nat \X Nat : ss[1] < ss[2]}
<1>1. OpToRel(<, Nat) = R
  BY Zenon DEF OpToRel
<1>2. IsWellFoundedOn(R, Nat)
  BY <1>1, NatLessThanWellFounded, Zenon
<1>3. PICK x \in S : \A y \in S : ~(<<y, x>> \in R)
  BY <1>2, WFMin
<1>4. ASSUME NEW y \in S
      PROVE  x <= y
  <2>1. x \in Nat /\ y \in Nat
    OBVIOUS
  <2>2. ~(<<y, x>> \in R)
    BY <1>3
  <2>3. y < x => <<y, x>> \in R
    BY <2>1
  <2> HIDE DEF R
  <2> QED
    BY <2>1, <2>2, <2>3
<1> QED
  BY <1>4 DEF Min

-----------------------------------------------------------------------------
(* The loops: each is a recursive function, which has to be shown to       *)
(* exist.  The argument is the same for each: take the first n for which   *)
(* there is none up to n, and extend the one up to n - 1.                  *)

\* The smallest member of a set of natural numbers.
LEMMA Least ==
  ASSUME NEW S, S \subseteq Nat, S # {}
  PROVE  \E m \in S : \A y \in S : m <= y
BY MinNat

\* The loop of Resize() (cache.cpp:80-83).
LEMMA DoubledDef ==
  ASSUME NEW n \in Nat
  PROVE  Doubled(n) = [i \in 0..n |-> IF i = 0 THEN MinLength
                                      ELSE 2 * Doubled(n)[i - 1]]
<1> DEFINE Is(f, m) == f = [i \in 0..m |-> IF i = 0 THEN MinLength ELSE 2 * f[i - 1]]
           Bad == {m \in Nat : ~\E f : Is(f, m)}
<1>1. ASSUME NEW m \in Bad, \A y \in Bad : m <= y
      PROVE  FALSE
  <2>1. CASE m = 0
    <3> DEFINE g == [i \in 0..0 |-> MinLength]
    <3>1. Is(g, 0)
      OBVIOUS
    <3> QED
      BY <2>1, <3>1
  <2>2. CASE m # 0
    <3>1. m - 1 \in Nat /\ ~(m <= m - 1)
      BY <2>2
    <3>2. m - 1 \notin Bad
      BY <1>1, <3>1
    <3>3. PICK f : Is(f, m - 1)
      BY <3>1, <3>2
    <3> DEFINE g == [i \in 0..m |-> IF i = m THEN 2 * f[m - 1] ELSE f[i]]
    <3>4. Is(g, m)
      <4>1. \A i \in 0..m : i # m => i \in 0..(m - 1) /\ i - 1 # m
        OBVIOUS
      <4>2. ASSUME NEW i \in 0..m
            PROVE  g[i] = IF i = 0 THEN MinLength ELSE 2 * g[i - 1]
        <5>1. CASE i = m
          <6>1. g[i - 1] = f[m - 1] /\ i # 0
            BY <2>2, <5>1
          <6> QED
            BY <5>1, <6>1
        <5>2. CASE i # m
          <6>1. f[i] = IF i = 0 THEN MinLength ELSE 2 * f[i - 1]
            BY <3>3, <4>1, <5>2
          <6>2. i # 0 => g[i - 1] = f[i - 1]
            BY <4>1, <5>2
          <6> QED
            BY <5>2, <6>1, <6>2
        <5> QED
          BY <5>1, <5>2
      <4> HIDE DEF g
      <4>3. g = [i \in 0..m |-> g[i]]
        BY DEF g
      <4> QED
        BY <4>2, <4>3
    <3> QED
      BY <3>4
  <2> QED
    BY <2>1, <2>2
<1>2. n \notin Bad
  <2> SUFFICES ASSUME n \in Bad PROVE FALSE
    OBVIOUS
  <2>1. Bad \subseteq Nat
    OBVIOUS
  <2> HIDE DEF Bad
  <2> QED
    BY <1>1, <2>1, Least
<1>3. \E f : Is(f, n)
  BY <1>2
<1> QED
  BY <1>3 DEF Doubled

\* There are as many handles as can be in use at a time.
LEMMA HandleSupply == MaxHandle \in Nat \ {0}
BY CacheAssumption, FS_CardinalityType DEF MaxHandle

\* The sum of the charges, which UsageBounded states.
LEMMA SumUpToDef ==
  ASSUME NEW w
  PROVE  SumUpTo(w) = [i \in 0..MaxHandle |-> IF i = 0 THEN 0
                 ELSE SumUpTo(w)[i - 1] + w[i]]
<1> DEFINE Step(i, x) == x + w[i]
           Is(f, m) == f = [i \in 0..m |-> IF i = 0 THEN 0 ELSE Step(i, f[i - 1])]
           Bad == {m \in Nat : ~\E f : Is(f, m)}
<1>1. ASSUME NEW m \in Bad, \A y \in Bad : m <= y
      PROVE  FALSE
  <2> HIDE DEF Step
  <2>1. CASE m = 0
    <3> DEFINE g == [i \in 0..0 |-> 0]
    <3>1. Is(g, 0)
      OBVIOUS
    <3> QED
      BY <2>1, <3>1
  <2>2. CASE m # 0
    <3>1. m - 1 \in Nat /\ ~(m <= m - 1)
      BY <2>2
    <3>2. m - 1 \notin Bad
      BY <1>1, <3>1
    <3>3. PICK f : Is(f, m - 1)
      BY <3>1, <3>2
    <3> DEFINE g == [i \in 0..m |-> IF i = m THEN Step(m, f[m - 1]) ELSE f[i]]
    <3>4. Is(g, m)
      <4>1. \A i \in 0..m : i # m => i \in 0..(m - 1) /\ i - 1 # m
        OBVIOUS
      <4>2. ASSUME NEW i \in 0..m
            PROVE  g[i] = IF i = 0 THEN 0 ELSE Step(i, g[i - 1])
        <5>1. CASE i = m
          <6>1. g[i - 1] = f[m - 1] /\ i # 0
            BY <2>2, <5>1
          <6> QED
            BY <5>1, <6>1
        <5>2. CASE i # m
          <6>1. f[i] = IF i = 0 THEN 0 ELSE Step(i, f[i - 1])
            BY <3>3, <4>1, <5>2
          <6>2. i # 0 => g[i - 1] = f[i - 1]
            BY <4>1, <5>2
          <6> QED
            BY <5>2, <6>1, <6>2
        <5> QED
          BY <5>1, <5>2
      <4> HIDE DEF g
      <4>3. g = [i \in 0..m |-> g[i]]
        BY DEF g
      <4> QED
        BY <4>2, <4>3
    <3> QED
      BY <3>4
  <2> QED
    BY <2>1, <2>2
<1>2. MaxHandle \notin Bad
  <2> SUFFICES ASSUME MaxHandle \in Bad PROVE FALSE
    OBVIOUS
  <2>1. Bad \subseteq Nat
    OBVIOUS
  <2> HIDE DEF Bad
  <2> QED
    BY <1>1, <2>1, Least
<1>3. \E f : Is(f, MaxHandle)
  BY <1>2, HandleSupply
<1>4. \E f : f = [i \in 0..MaxHandle |-> IF i = 0 THEN 0 ELSE f[i - 1] + w[i]]
  BY <1>3
<1> QED
  BY <1>4, Zenon DEF SumUpTo

\* The loop of Insert() (cache.cpp:207-212).
LEMMA EvictionsDef ==
  ASSUME NEW c, c.lru \in Seq(Handle)
  PROVE  Evictions(c) = [i \in 0..Len(c.lru) |-> IF i = 0 THEN c
                 ELSE Drop(Evictions(c)[i - 1], Head(Evictions(c)[i - 1].lru))]
<1> DEFINE Step(i, x) == Drop(x, Head(x.lru))
           Is(f, m) == f = [i \in 0..m |-> IF i = 0 THEN c ELSE Step(i, f[i - 1])]
           Bad == {m \in Nat : ~\E f : Is(f, m)}
<1>1. ASSUME NEW m \in Bad, \A y \in Bad : m <= y
      PROVE  FALSE
  <2> HIDE DEF Step
  <2>1. CASE m = 0
    <3> DEFINE g == [i \in 0..0 |-> c]
    <3>1. Is(g, 0)
      OBVIOUS
    <3> QED
      BY <2>1, <3>1
  <2>2. CASE m # 0
    <3>1. m - 1 \in Nat /\ ~(m <= m - 1)
      BY <2>2
    <3>2. m - 1 \notin Bad
      BY <1>1, <3>1
    <3>3. PICK f : Is(f, m - 1)
      BY <3>1, <3>2
    <3> DEFINE g == [i \in 0..m |-> IF i = m THEN Step(m, f[m - 1]) ELSE f[i]]
    <3>4. Is(g, m)
      <4>1. \A i \in 0..m : i # m => i \in 0..(m - 1) /\ i - 1 # m
        OBVIOUS
      <4>2. ASSUME NEW i \in 0..m
            PROVE  g[i] = IF i = 0 THEN c ELSE Step(i, g[i - 1])
        <5>1. CASE i = m
          <6>1. g[i - 1] = f[m - 1] /\ i # 0
            BY <2>2, <5>1
          <6> QED
            BY <5>1, <6>1
        <5>2. CASE i # m
          <6>1. f[i] = IF i = 0 THEN c ELSE Step(i, f[i - 1])
            BY <3>3, <4>1, <5>2
          <6>2. i # 0 => g[i - 1] = f[i - 1]
            BY <4>1, <5>2
          <6> QED
            BY <5>2, <6>1, <6>2
        <5> QED
          BY <5>1, <5>2
      <4> HIDE DEF g
      <4>3. g = [i \in 0..m |-> g[i]]
        BY DEF g
      <4> QED
        BY <4>2, <4>3
    <3> QED
      BY <3>4
  <2> QED
    BY <2>1, <2>2
<1>2. Len(c.lru) \notin Bad
  <2> SUFFICES ASSUME Len(c.lru) \in Bad PROVE FALSE
    OBVIOUS
  <2>1. Bad \subseteq Nat
    OBVIOUS
  <2> HIDE DEF Bad
  <2> QED
    BY <1>1, <2>1, Least
<1>3. \E f : Is(f, Len(c.lru))
  BY <1>2, LenProperties
<1>4. \E f : f = [i \in 0..Len(c.lru) |-> IF i = 0 THEN c ELSE Drop(f[i - 1], Head(f[i - 1].lru))]
  BY <1>3
<1> QED
  BY <1>4, Zenon DEF Evictions

\* The loop of ~LRUCache() (cache.cpp:138-143).
LEMMA UnreffedDef ==
  ASSUME NEW c, c.lru \in Seq(Handle)
  PROVE  Unreffed(c) = [i \in 0..Len(c.lru) |-> IF i = 0 THEN c
                 ELSE Unref(Unreffed(c)[i - 1], c.lru[i])]
<1> DEFINE Step(i, x) == Unref(x, c.lru[i])
           Is(f, m) == f = [i \in 0..m |-> IF i = 0 THEN c ELSE Step(i, f[i - 1])]
           Bad == {m \in Nat : ~\E f : Is(f, m)}
<1>1. ASSUME NEW m \in Bad, \A y \in Bad : m <= y
      PROVE  FALSE
  <2> HIDE DEF Step
  <2>1. CASE m = 0
    <3> DEFINE g == [i \in 0..0 |-> c]
    <3>1. Is(g, 0)
      OBVIOUS
    <3> QED
      BY <2>1, <3>1
  <2>2. CASE m # 0
    <3>1. m - 1 \in Nat /\ ~(m <= m - 1)
      BY <2>2
    <3>2. m - 1 \notin Bad
      BY <1>1, <3>1
    <3>3. PICK f : Is(f, m - 1)
      BY <3>1, <3>2
    <3> DEFINE g == [i \in 0..m |-> IF i = m THEN Step(m, f[m - 1]) ELSE f[i]]
    <3>4. Is(g, m)
      <4>1. \A i \in 0..m : i # m => i \in 0..(m - 1) /\ i - 1 # m
        OBVIOUS
      <4>2. ASSUME NEW i \in 0..m
            PROVE  g[i] = IF i = 0 THEN c ELSE Step(i, g[i - 1])
        <5>1. CASE i = m
          <6>1. g[i - 1] = f[m - 1] /\ i # 0
            BY <2>2, <5>1
          <6> QED
            BY <5>1, <6>1
        <5>2. CASE i # m
          <6>1. f[i] = IF i = 0 THEN c ELSE Step(i, f[i - 1])
            BY <3>3, <4>1, <5>2
          <6>2. i # 0 => g[i - 1] = f[i - 1]
            BY <4>1, <5>2
          <6> QED
            BY <5>2, <6>1, <6>2
        <5> QED
          BY <5>1, <5>2
      <4> HIDE DEF g
      <4>3. g = [i \in 0..m |-> g[i]]
        BY DEF g
      <4> QED
        BY <4>2, <4>3
    <3> QED
      BY <3>4
  <2> QED
    BY <2>1, <2>2
<1>2. Len(c.lru) \notin Bad
  <2> SUFFICES ASSUME Len(c.lru) \in Bad PROVE FALSE
    OBVIOUS
  <2>1. Bad \subseteq Nat
    OBVIOUS
  <2> HIDE DEF Bad
  <2> QED
    BY <1>1, <2>1, Least
<1>3. \E f : Is(f, Len(c.lru))
  BY <1>2, LenProperties
<1>4. \E f : f = [i \in 0..Len(c.lru) |-> IF i = 0 THEN c ELSE Unref(f[i - 1], c.lru[i])]
  BY <1>3
<1> QED
  BY <1>4, Zenon DEF Unreffed

-----------------------------------------------------------------------------
(* What the loops over numbers compute.                                    *)

\* The chain that a hash selects is one of the table.
LEMMA ModRange ==
  ASSUME NEW a \in Nat, NEW n \in Nat \ {0}
  PROVE  a % n \in 0..(n - 1)
OBVIOUS

\* The length of a table is the number of its chains.
LEMMA LengthIs ==
  ASSUME NEW c, NEW n \in Nat \ {0}, DOMAIN c.list = 0..(n - 1)
  PROVE  Length(c) = n
<1>1. Cardinality(0..(n - 1)) = (n - 1) - 0 + 1
  <2>1. 0 \in Int /\ n - 1 \in Int /\ ~(0 > n - 1)
    OBVIOUS
  <2> QED
    BY <2>1, FS_Interval, Zenon
<1> QED
  BY <1>1 DEF Length

\* The lengths that Resize() tries grow beyond every number.
LEMMA DoubledGrows ==
  ASSUME NEW n \in Nat, NEW i \in 0..n
  PROVE  Doubled(n)[i] \in Nat /\ Doubled(n)[i] > i
<1> DEFINE d == Doubled(n)
           Good(j) == d[j] \in Nat /\ d[j] > j
           Bad == {j \in 0..n : ~Good(j)}
<1>1. d = [j \in 0..n |-> IF j = 0 THEN MinLength ELSE 2 * d[j - 1]]
  BY DoubledDef
<1> HIDE DEF d
<1>2. ASSUME NEW j \in Bad, \A y \in Bad : j <= y
      PROVE  FALSE
  <2>0. d[j] = IF j = 0 THEN MinLength ELSE 2 * d[j - 1]
    BY <1>1
  <2>1. j # 0
    <3>1. MinLength \in Nat /\ MinLength > 0
      BY CacheAssumption
    <3> QED
      BY <2>0, <3>1
  <2>2. j - 1 \in 0..n /\ ~(j <= j - 1)
    BY <2>1
  <2>3. Good(j - 1)
    BY <1>2, <2>2
  <2> QED
    BY <2>0, <2>1, <2>3
<1>3. i \notin Bad
  <2> SUFFICES ASSUME i \in Bad PROVE FALSE
    OBVIOUS
  <2>1. Bad \subseteq Nat
    OBVIOUS
  <2> HIDE DEF Bad
  <2> QED
    BY <1>2, <2>1, Least
<1>4. Good(i)
  BY <1>3
<1> QED
  BY <1>4 DEF d

\* Resize() makes the table long enough.
LEMMA NewLengthEnough ==
  ASSUME NEW c, c.elems \in Nat
  PROVE  NewLength(c) \in Nat \ {0} /\ NewLength(c) >= c.elems
<1> DEFINE n == c.elems
           S == {i \in 0..n : Doubled(n)[i] >= n}
<1>1. n \in S
  BY DoubledGrows
<1>2. S \subseteq Nat
  OBVIOUS
<1>3. Min(S) \in S
  BY <1>1, <1>2, MinNat
<1>4. NewLength(c) = Doubled(n)[Min(S)]
  BY DEF NewLength
<1>5. PICK i \in 0..n : i = Min(S) /\ Doubled(n)[i] >= n
  BY <1>3
<1>6. Doubled(n)[i] \in Nat /\ Doubled(n)[i] > i
  BY DoubledGrows
<1> QED
  BY <1>4, <1>5, <1>6

\* A sum of natural numbers is one.
LEMMA SumUpToNat ==
  ASSUME NEW w \in [Handle -> Nat], NEW n \in 0..MaxHandle
  PROVE  SumUpTo(w)[n] \in Nat
<1> DEFINE s == SumUpTo(w)
           Bad == {m \in 0..MaxHandle : s[m] \notin Nat}
<1>0. MaxHandle \in Nat
  BY HandleSupply
<1>1. s = [i \in 0..MaxHandle |-> IF i = 0 THEN 0 ELSE s[i - 1] + w[i]]
  BY SumUpToDef
<1> HIDE DEF s
<1>2. ASSUME NEW m \in Bad, \A y \in Bad : m <= y
      PROVE  FALSE
  <2>0. s[m] = IF m = 0 THEN 0 ELSE s[m - 1] + w[m]
    BY <1>1
  <2>1. m # 0
    BY <2>0
  <2>2. m - 1 \in 0..MaxHandle /\ ~(m <= m - 1) /\ m \in Handle
    BY <1>0, <2>1 DEF Handle
  <2>3. s[m - 1] \in Nat
    BY <1>2, <2>2
  <2> QED
    BY <2>0, <2>1, <2>2, <2>3
<1>3. n \notin Bad
  <2> SUFFICES ASSUME n \in Bad PROVE FALSE
    OBVIOUS
  <2>1. Bad \subseteq Nat
    BY <1>0
  <2> HIDE DEF Bad
  <2> QED
    BY <1>2, <2>1, Least
<1> QED
  BY <1>3 DEF s

\* One charge changed changes the sum by as much.
LEMMA SumChanged ==
  ASSUME NEW w \in [Handle -> Nat], NEW v \in [Handle -> Nat], NEW h \in Handle,
         \A g \in Handle : g # h => v[g] = w[g]
  PROVE  Sum(v) = Sum(w) + v[h] - w[h]
<1> DEFINE s == SumUpTo(w)
           t == SumUpTo(v)
           Good(m) == t[m] = s[m] + (IF m < h THEN 0 ELSE v[h] - w[h])
           Bad == {m \in 0..MaxHandle : ~Good(m)}
<1>0. MaxHandle \in Nat \ {0} /\ h \in 1..MaxHandle
  BY HandleSupply DEF Handle
<1>1. s = [i \in 0..MaxHandle |-> IF i = 0 THEN 0 ELSE s[i - 1] + w[i]]
  BY SumUpToDef
<1>2. t = [i \in 0..MaxHandle |-> IF i = 0 THEN 0 ELSE t[i - 1] + v[i]]
  BY SumUpToDef
<1>3. \A m \in 0..MaxHandle : s[m] \in Nat /\ t[m] \in Nat
  BY SumUpToNat
<1> HIDE DEF s, t
<1>4. ASSUME NEW m \in Bad, \A y \in Bad : m <= y
      PROVE  FALSE
  <2>0. /\ s[m] = IF m = 0 THEN 0 ELSE s[m - 1] + w[m]
        /\ t[m] = IF m = 0 THEN 0 ELSE t[m - 1] + v[m]
    BY <1>1, <1>2
  <2>1. m # 0
    BY <1>0, <2>0
  <2>2. m - 1 \in 0..MaxHandle /\ ~(m <= m - 1) /\ m \in Handle
    BY <1>0, <2>1 DEF Handle
  <2>3. Good(m - 1)
    BY <1>4, <2>2
  <2>4. v[m] \in Nat /\ w[m] \in Nat /\ s[m - 1] \in Nat /\ t[m - 1] \in Nat
    BY <1>3, <2>2
  <2>5. m # h => v[m] = w[m]
    BY <2>2
  <2>6. Good(m)
    BY <1>0, <2>0, <2>1, <2>2, <2>3, <2>4, <2>5
  <2> QED
    BY <2>6
<1>5. MaxHandle \notin Bad
  <2> SUFFICES ASSUME MaxHandle \in Bad PROVE FALSE
    OBVIOUS
  <2>1. Bad \subseteq Nat
    BY <1>0
  <2> HIDE DEF Bad
  <2> QED
    BY <1>4, <2>1, Least
<1>6. Good(MaxHandle)
  BY <1>0, <1>5
<1>7. t[MaxHandle] = s[MaxHandle] + v[h] - w[h]
  BY <1>0, <1>3, <1>6
<1> QED
  BY <1>7 DEF Sum, s, t

LEMMA SumNat ==
  ASSUME NEW w \in [Handle -> Nat]
  PROVE  Sum(w) \in Nat
BY SumUpToNat, HandleSupply DEF Sum

LEMMA SumZero ==
  Sum([h \in Handle |-> 0]) = 0
<1> DEFINE w == [h \in Handle |-> 0]
           s == SumUpTo(w)
           Bad == {m \in 0..MaxHandle : s[m] # 0}
<1>0. MaxHandle \in Nat \ {0}
  BY HandleSupply
<1>1. s = [i \in 0..MaxHandle |-> IF i = 0 THEN 0 ELSE s[i - 1] + w[i]]
  BY SumUpToDef
<1> HIDE DEF s
<1>2. ASSUME NEW m \in Bad, \A y \in Bad : m <= y
      PROVE  FALSE
  <2>0. s[m] = IF m = 0 THEN 0 ELSE s[m - 1] + w[m]
    BY <1>1
  <2>1. m # 0
    BY <2>0
  <2>2. m - 1 \in 0..MaxHandle /\ ~(m <= m - 1) /\ m \in Handle
    BY <1>0, <2>1 DEF Handle
  <2>3. s[m - 1] = 0 /\ w[m] = 0
    BY <1>2, <2>2
  <2> QED
    BY <2>0, <2>1, <2>2, <2>3
<1>3. MaxHandle \notin Bad
  <2> SUFFICES ASSUME MaxHandle \in Bad PROVE FALSE
    OBVIOUS
  <2>1. Bad \subseteq Nat
    BY <1>0
  <2> HIDE DEF Bad
  <2> QED
    BY <1>2, <2>1, Least
<1>4. s[MaxHandle] = 0
  BY <1>0, <1>3
<1> QED
  BY <1>4 DEF Sum, s

-----------------------------------------------------------------------------
(* The invariant of a cache of which the readers hold the references held. *)

Entry == [key : Files, charge : Nat, refs : Nat]
Heaps == UNION {[D -> Entry] : D \in SUBSET Handle}
Tables == UNION {[0..(n - 1) -> SUBSET Handle] : n \in Nat \ {0}}
Caches ==
  [heap : Heaps, lru : Seq(Handle), usage : Int, elems : Int, list : Tables]

Listed(c) == {c.lru[i] : i \in DOMAIN c.lru}
Distinct(s) == \A i, j \in DOMAIN s : s[i] = s[j] => i = j

\* An entry is allocated as long as somebody has a reference to it.
RefsMatch(c, held) ==
  /\ \A h \in DOMAIN c.heap :
       /\ c.heap[h].refs = held[h] + (IF h \in Listed(c) THEN 1 ELSE 0)
       /\ c.heap[h].refs >= 1
  /\ \A h \in Handle : held[h] > 0 => h \in DOMAIN c.heap

\* The list holds one entry of a key.
OnePerKey(c) ==
  /\ Listed(c) \subseteq DOMAIN c.heap
  /\ \A g, h \in Listed(c) : c.heap[g].key = c.heap[h].key => g = h

\* Each chain holds what belongs there of the list.
InPlace(c) ==
  \A b \in DOMAIN c.list :
    c.list[b] = {h \in Listed(c) : Bucket(c, c.heap[h].key) = b}

UsageExact(c) == c.usage = Sum(ChargeOf(c.heap))

CacheInv(c, held) ==
  /\ c \in Caches
  /\ Distinct(c.lru)
  /\ OnePerKey(c)
  /\ RefsMatch(c, held)
  /\ InPlace(c)
  /\ c.elems = Len(c.lru) /\ c.elems <= Length(c)
  /\ UsageExact(c)

\* The parts of a cache.
LEMMA HeapIs ==
  ASSUME NEW c \in Caches
  PROVE  /\ DOMAIN c.heap \subseteq Handle
         /\ c.heap \in [DOMAIN c.heap -> Entry]
<1>1. c.heap \in Heaps
  BY DEF Caches
<1>2. PICK D \in SUBSET Handle : c.heap \in [D -> Entry]
  BY <1>1 DEF Heaps
<1>3. DOMAIN c.heap = D
  BY <1>2
<1> QED
  BY <1>2, <1>3, Zenon

LEMMA HeapType ==
  ASSUME NEW D \in SUBSET Handle, NEW f \in [D -> Entry]
  PROVE  f \in Heaps
BY DEF Heaps

LEMMA TableIs ==
  ASSUME NEW c \in Caches
  PROVE  /\ Length(c) \in Nat \ {0}
         /\ c.list \in [0..(Length(c) - 1) -> SUBSET Handle]
         /\ \A k \in Files : Bucket(c, k) \in DOMAIN c.list
<1>1. c.list \in Tables
  BY DEF Caches
<1>2. PICK n \in Nat \ {0} : c.list \in [0..(n - 1) -> SUBSET Handle]
  BY <1>1 DEF Tables
<1>3. DOMAIN c.list = 0..(n - 1)
  BY <1>2
<1>4. Length(c) = n
  BY <1>3, LengthIs
<1>5. ASSUME NEW k \in Files
      PROVE  Bucket(c, k) \in 0..(n - 1)
  <2>1. Hash[k] \in Nat
    BY CacheAssumption
  <2> QED
    BY <1>4, <2>1, ModRange DEF Bucket
<1> QED
  BY <1>2, <1>3, <1>4, <1>5

LEMMA TableType ==
  ASSUME NEW n \in Nat \ {0}, NEW f \in [0..(n - 1) -> SUBSET Handle]
  PROVE  f \in Tables
BY DEF Tables

LEMMA LruIs ==
  ASSUME NEW c \in Caches
  PROVE  /\ c.lru \in Seq(Handle) /\ Len(c.lru) \in Nat
         /\ DOMAIN c.lru = 1..Len(c.lru)
         /\ Listed(c) \subseteq Handle
         /\ c.usage \in Int /\ c.elems \in Int
<1>1. c.lru \in Seq(Handle) /\ c.usage \in Int /\ c.elems \in Int
  BY DEF Caches
<1>2. Len(c.lru) \in Nat /\ DOMAIN c.lru = 1..Len(c.lru)
      /\ \A i \in 1..Len(c.lru) : c.lru[i] \in Handle
  BY <1>1, ElementOfSeq, LenProperties
<1> QED
  BY <1>1, <1>2 DEF Listed

\* The charges of the entries are natural numbers.
LEMMA ChargeType ==
  ASSUME NEW c \in Caches
  PROVE  ChargeOf(c.heap) \in [Handle -> Nat]
<1>1. c.heap \in [DOMAIN c.heap -> Entry]
  BY HeapIs
<1>2. \A h \in DOMAIN c.heap : c.heap[h].charge \in Nat
  BY <1>1 DEF Entry
<1> QED
  BY <1>2 DEF ChargeOf

-----------------------------------------------------------------------------
(* The list.                                                               *)

\* LRU_Remove() unlinks the entry and nothing else (cache.cpp:156-159).
LEMMA UnlinkEffect ==
  ASSUME NEW c \in Caches, Distinct(c.lru), NEW h \in Listed(c)
  PROVE  LET x == LRU_Remove(c, h)
         IN  /\ x \in Caches
             /\ x.heap = c.heap /\ x.usage = c.usage
             /\ x.elems = c.elems /\ x.list = c.list
             /\ Distinct(x.lru)
             /\ Listed(x) = Listed(c) \ {h}
             /\ Len(x.lru) = Len(c.lru) - 1
<1> DEFINE s == c.lru
           p == CHOOSE i \in DOMAIN s : s[i] = h
           t == RemoveAt(s, p)
           x == LRU_Remove(c, h)
<1>1. /\ s \in Seq(Handle) /\ Len(s) \in Nat /\ DOMAIN s = 1..Len(s)
  BY LruIs
<1>2. p \in 1..Len(s) /\ s[p] = h
  <2>1. \E i \in DOMAIN s : s[i] = h
    BY DEF Listed
  <2> QED
    BY <1>1, <2>1
<1>3. x = [c EXCEPT !.lru = t]
  BY DEF LRU_Remove
<1> HIDE DEF p, s
<1>a. PICK n \in Nat : n = Len(s)
  BY <1>1
<1>b. p \in 1..n /\ \A i \in 1..n : s[i] \in Handle
  BY <1>1, <1>2, <1>a, ElementOfSeq
<1>4. /\ t \in Seq(Handle) /\ Len(t) = n - 1
      /\ \A i \in 1..(n - 1) : t[i] = IF i < p THEN s[i] ELSE s[i + 1]
  <2> DEFINE a == SubSeq(s, 1, p - 1)
             b == SubSeq(s, p + 1, n)
  <2>1. /\ a \in Seq(Handle) /\ Len(a) = p - 1
        /\ \A i \in 1..(p - 1) : a[i] = s[i]
    <3>1. 1 \in Int /\ p - 1 \in Int /\ \A i \in 1..(p - 1) : i \in 1..n
      BY <1>b
    <3> QED
      BY <1>1, <1>a, <1>b, <3>1, SubSeqProperties
  <2>2. /\ b \in Seq(Handle) /\ Len(b) = n - p
        /\ \A i \in 1..(n - p) : b[i] = s[p + i]
    <3>1. p + 1 \in Int /\ n \in Int /\ \A i \in (p + 1)..n : i \in 1..n
      BY <1>b
    <3>2. /\ b \in Seq(Handle)
          /\ Len(b) = IF p + 1 <= n THEN n - (p + 1) + 1 ELSE 0
          /\ \A i \in 1..(n - (p + 1) + 1) : b[i] = s[p + 1 + i - 1]
      BY <1>1, <1>a, <1>b, <3>1, SubSeqProperties
    <3>3. n - (p + 1) + 1 = n - p /\ (p + 1 <= n \/ n = p)
      BY <1>b
    <3>4. \A i \in 1..(n - p) : p + 1 + i - 1 = p + i
      BY <1>b
    <3>5. Len(b) = n - p
      BY <1>b, <3>2, <3>3
    <3> HIDE DEF b
    <3> QED
      BY <3>2, <3>3, <3>4, <3>5
  <2>3. t = a \o b
    BY <1>a DEF RemoveAt
  <2> HIDE DEF a, b, t
  <2>4. /\ t \in Seq(Handle) /\ Len(t) = Len(a) + Len(b)
        /\ \A i \in 1..(Len(a) + Len(b)) :
             t[i] = IF i <= Len(a) THEN a[i] ELSE b[i - Len(a)]
    BY <2>1, <2>2, <2>3, ConcatProperties
  <2> QED
    BY <1>b, <2>1, <2>2, <2>4
<1> HIDE DEF t
<1>5. /\ x \in Caches /\ x.lru = t
      /\ x.heap = c.heap /\ x.usage = c.usage
      /\ x.elems = c.elems /\ x.list = c.list
  BY <1>3, <1>4 DEF Caches
<1>6. DOMAIN t = 1..(n - 1) /\ DOMAIN s = 1..n
  BY <1>1, <1>4, <1>a, LenProperties
<1>7. \A i, j \in 1..n : s[i] = s[j] => i = j
  BY <1>6 DEF Distinct, s
<1>8. Distinct(t)
  <2> SUFFICES ASSUME NEW i \in 1..(n - 1), NEW j \in 1..(n - 1), t[i] = t[j]
               PROVE  i = j
    BY <1>6 DEF Distinct
  <2>1. i \in 1..n /\ i + 1 \in 1..n /\ j \in 1..n /\ j + 1 \in 1..n
    OBVIOUS
  <2> QED
    BY <1>4, <1>7, <2>1, <1>b
<1>9. Listed(x) = Listed(c) \ {h}
  <2>1. \A i \in 1..(n - 1) : \E j \in 1..n : t[i] = s[j] /\ j # p
    BY <1>4, <1>b
  <2>2. \A j \in 1..n : j # p => \E i \in 1..(n - 1) : t[i] = s[j]
    <3> SUFFICES ASSUME NEW j \in 1..n, j # p
                 PROVE  \E i \in 1..(n - 1) : t[i] = s[j]
      OBVIOUS
    <3>1. CASE j < p
      <4>1. j \in 1..(n - 1)
        BY <3>1, <1>b
      <4> QED
        BY <1>4, <3>1, <4>1
    <3>2. CASE j > p
      <4>1. j - 1 \in 1..(n - 1) /\ ~(j - 1 < p) /\ (j - 1) + 1 = j
        BY <3>2, <1>b
      <4> QED
        BY <1>4, <4>1
    <3> QED
      BY <1>b, <3>1, <3>2
  <2>3. Listed(x) = {t[i] : i \in 1..(n - 1)} /\ Listed(c) = {s[i] : i \in 1..n}
    BY <1>5, <1>6 DEF Listed, s
  <2>4. \A j \in 1..n : s[j] = h => j = p
    BY <1>2, <1>7, <1>b
  <2> HIDE DEF x
  <2>5. ASSUME NEW y \in Listed(x)
        PROVE  y \in Listed(c) /\ y # h
    <3>1. PICK i \in 1..(n - 1) : y = t[i]
      BY <2>3
    <3>2. PICK j \in 1..n : t[i] = s[j] /\ j # p
      BY <2>1
    <3> QED
      BY <2>3, <2>4, <3>1, <3>2
  <2>6. ASSUME NEW y \in Listed(c), y # h
        PROVE  y \in Listed(x)
    <3>1. PICK j \in 1..n : y = s[j]
      BY <2>3
    <3>2. PICK i \in 1..(n - 1) : t[i] = s[j]
      BY <1>2, <2>2, <2>6, <3>1
    <3> QED
      BY <2>3, <3>1, <3>2
  <2> QED
    BY <2>5, <2>6
<1> QED
  BY <1>4, <1>5, <1>8, <1>9, <1>a DEF s

\* LRU_Append() (cache.cpp:161-166).
LEMMA LinkEffect ==
  ASSUME NEW c \in Caches, Distinct(c.lru), NEW h \in Handle, h \notin Listed(c)
  PROVE  LET x == LRU_Append(c, h)
         IN  /\ x \in Caches
             /\ x.heap = c.heap /\ x.usage = c.usage
             /\ x.elems = c.elems /\ x.list = c.list
             /\ Distinct(x.lru)
             /\ Listed(x) = Listed(c) \cup {h}
             /\ Len(x.lru) = Len(c.lru) + 1
<1> DEFINE s == c.lru
           t == Append(s, h)
           x == LRU_Append(c, h)
<1>1. /\ s \in Seq(Handle) /\ Len(s) \in Nat /\ DOMAIN s = 1..Len(s)
  BY LruIs
<1>2. PICK n \in Nat : n = Len(s)
  BY <1>1
<1>3. /\ t \in Seq(Handle) /\ Len(t) = n + 1
      /\ \A i \in 1..n : t[i] = s[i]
      /\ t[n + 1] = h
  BY <1>1, <1>2, AppendProperties
<1>4. x = [c EXCEPT !.lru = t]
  BY DEF LRU_Append
<1> HIDE DEF t, x
<1>5. /\ x \in Caches /\ x.lru = t
      /\ x.heap = c.heap /\ x.usage = c.usage
      /\ x.elems = c.elems /\ x.list = c.list
  BY <1>3, <1>4 DEF Caches
<1>6. DOMAIN t = 1..(n + 1) /\ DOMAIN s = 1..n
  BY <1>1, <1>2, <1>3, LenProperties
<1>7. \A i, j \in 1..n : s[i] = s[j] => i = j
  BY <1>6 DEF Distinct
<1>8. \A i \in 1..n : s[i] # h
  BY <1>6 DEF Listed
<1>9. \A i \in 1..(n + 1) : i \in 1..n \/ i = n + 1
  OBVIOUS
<1>10. Distinct(t)
  BY <1>3, <1>6, <1>7, <1>8, <1>9 DEF Distinct
<1>11. Listed(x) = {t[i] : i \in 1..(n + 1)} /\ Listed(c) = {s[i] : i \in 1..n}
  BY <1>5, <1>6 DEF Listed
<1>12. Listed(x) = Listed(c) \cup {h}
  <2>1. \A i \in 1..n : i \in 1..(n + 1)
    OBVIOUS
  <2>2. n + 1 \in 1..(n + 1)
    OBVIOUS
  <2> QED
    BY <1>3, <1>9, <1>11, <2>1, <2>2
<1> QED
  BY <1>2, <1>3, <1>5, <1>10, <1>12 DEF x

-----------------------------------------------------------------------------
(* References.                                                             *)

\* What an entry's heap is without one of the references to h.
OneLess(heap, from, h) ==
  /\ DOMAIN heap = DOMAIN from \ (IF from[h].refs > 1 THEN {} ELSE {h})
  /\ \A g \in DOMAIN heap :
       /\ heap[g].key = from[g].key /\ heap[g].charge = from[g].charge
       /\ heap[g].refs = from[g].refs - (IF g = h THEN 1 ELSE 0)

\* Unref() (cache.cpp:146-154): usage_ remains exact.
LEMMA UnrefEffect ==
  ASSUME NEW c \in Caches, NEW h \in DOMAIN c.heap, c.heap[h].refs >= 1,
         UsageExact(c)
  PROVE  LET u == Unref(c, h)
         IN  /\ u \in Caches
             /\ u.lru = c.lru /\ u.elems = c.elems /\ u.list = c.list
             /\ OneLess(u.heap, c.heap, h)
             /\ UsageExact(u) /\ u.usage <= c.usage
<1> DEFINE u == Unref(c, h)
           D == DOMAIN c.heap
<1>1. D \subseteq Handle /\ c.heap \in [D -> Entry] /\ h \in Handle
  BY HeapIs
<1>2. \A g \in D : /\ c.heap[g] \in Entry /\ c.heap[g].refs \in Nat
                   /\ c.heap[g].charge \in Nat /\ c.heap[g].key \in Files
  BY <1>1 DEF Entry
<1>3. c.usage \in Int
  BY LruIs
<1>4. ChargeOf(c.heap) \in [Handle -> Nat]
  BY ChargeType
<1>5. CASE c.heap[h].refs > 1
  <2> DEFINE e == [c.heap[h] EXCEPT !.refs = @ - 1]
             f == [c.heap EXCEPT ![h] = e]
  <2>1. u = [c EXCEPT !.heap = f]
    BY <1>5 DEF Unref, Caches
  <2>2. /\ e \in Entry /\ e.key = c.heap[h].key /\ e.charge = c.heap[h].charge
        /\ e.refs = c.heap[h].refs - 1
    BY <1>2, <1>5 DEF Entry
  <2> HIDE DEF e
  <2>3. f \in [D -> Entry]
    BY <1>1, <2>2
  <2>4. f \in Heaps
    BY <1>1, <2>3, HeapType
  <2>5. \A g \in D : f[g] = IF g = h THEN e ELSE c.heap[g]
    BY <1>1
  <2>d. DOMAIN f = D
    BY <1>1
  <2> HIDE DEF f, u
  <2>6. /\ u \in Caches /\ u.heap = f /\ u.usage = c.usage
        /\ u.lru = c.lru /\ u.elems = c.elems /\ u.list = c.list
    BY <2>1, <2>4 DEF Caches
  <2>7. OneLess(u.heap, c.heap, h)
    <3>1. \A g \in D : /\ f[g].key = c.heap[g].key /\ f[g].charge = c.heap[g].charge
                       /\ f[g].refs = c.heap[g].refs - (IF g = h THEN 1 ELSE 0)
      BY <1>2, <2>2, <2>5
    <3> QED
      BY <1>5, <2>6, <2>d, <3>1 DEF OneLess
  <2>8. ChargeOf(f) = ChargeOf(c.heap)
    <3>1. \A g \in D : f[g].charge = c.heap[g].charge
      BY <2>2, <2>5
    <3> QED
      BY <2>d, <3>1 DEF ChargeOf
  <2>9. UsageExact(u) /\ u.usage <= c.usage
    BY <1>3, <2>6, <2>8 DEF UsageExact
  <2> QED
    BY <2>6, <2>7, <2>9 DEF u
<1>6. CASE ~(c.heap[h].refs > 1)
  <2> DEFINE f == [g \in D \ {h} |-> c.heap[g]]
             used == c.usage - c.heap[h].charge
  <2>1. u = [c EXCEPT !.usage = used, !.heap = f]
    BY <1>6 DEF Unref, Caches
  <2>2. f \in [D \ {h} -> Entry] /\ D \ {h} \in SUBSET Handle
    BY <1>1
  <2>3. f \in Heaps
    BY <2>2, HeapType
  <2>4. used \in Int /\ used <= c.usage
    BY <1>2, <1>3
  <2> HIDE DEF u
  <2>5. DOMAIN f = D \ {h} /\ \A g \in D \ {h} : f[g] = c.heap[g]
    OBVIOUS
  <2> HIDE DEF f, used
  <2>6. /\ u \in Caches /\ u.heap = f /\ u.usage = used
        /\ u.lru = c.lru /\ u.elems = c.elems /\ u.list = c.list
    BY <2>1, <2>3, <2>4 DEF Caches
  <2>7. OneLess(u.heap, c.heap, h)
    <3>1. \A g \in D \ {h} : c.heap[g].refs = c.heap[g].refs - (IF g = h THEN 1 ELSE 0)
      BY <1>2
    <3> QED
      BY <1>6, <2>5, <2>6, <3>1 DEF OneLess
  <2>8. used = Sum(ChargeOf(f))
    <3> DEFINE v == ChargeOf(f)
               w == ChargeOf(c.heap)
    <3>1. v \in [Handle -> Nat]
      BY <2>6, ChargeType
    <3>2. \A g \in Handle : g # h => v[g] = w[g]
      BY <2>5 DEF ChargeOf
    <3>3. v[h] = 0 /\ w[h] = c.heap[h].charge
      BY <1>1, <2>5 DEF ChargeOf
    <3> HIDE DEF v, w
    <3>4. Sum(v) = Sum(w) + v[h] - w[h]
      BY <1>1, <1>4, <3>1, <3>2, SumChanged DEF w
    <3>5. Sum(w) = c.usage
      BY DEF UsageExact, w
    <3> QED
      BY <1>2, <1>3, <3>3, <3>4, <3>5 DEF used, v
  <2>9. UsageExact(u)
    BY <2>6, <2>8 DEF UsageExact
  <2> QED
    BY <2>4, <2>6, <2>7, <2>9 DEF u
<1> QED
  BY <1>5, <1>6

\* An entry leaves the list and loses the reference of the cache.
LEMMA DiscardEffect ==
  ASSUME NEW c \in Caches, Distinct(c.lru), NEW h \in Listed(c),
         h \in DOMAIN c.heap, c.heap[h].refs >= 1, UsageExact(c)
  PROVE  LET d == Unref(LRU_Remove(c, h), h)
         IN  /\ d \in Caches
             /\ d.elems = c.elems /\ d.list = c.list
             /\ Distinct(d.lru)
             /\ Listed(d) = Listed(c) \ {h}
             /\ Len(d.lru) = Len(c.lru) - 1
             /\ OneLess(d.heap, c.heap, h)
             /\ UsageExact(d) /\ d.usage <= c.usage
<1> DEFINE x == LRU_Remove(c, h)
           d == Unref(x, h)
<1>1. /\ x \in Caches
      /\ x.heap = c.heap /\ x.usage = c.usage
      /\ x.elems = c.elems /\ x.list = c.list
      /\ Distinct(x.lru)
      /\ Listed(x) = Listed(c) \ {h}
      /\ Len(x.lru) = Len(c.lru) - 1
  BY UnlinkEffect
<1> HIDE DEF x
<1>2. UsageExact(x) /\ h \in DOMAIN x.heap /\ x.heap[h].refs >= 1
  BY <1>1, Zenon DEF UsageExact
<1>3. /\ d \in Caches
      /\ d.lru = x.lru /\ d.elems = x.elems /\ d.list = x.list
      /\ OneLess(d.heap, x.heap, h)
      /\ UsageExact(d) /\ d.usage <= x.usage
  BY <1>1, <1>2, UnrefEffect
<1>4. Listed(d) = Listed(x)
  BY <1>3, Zenon DEF Listed
<1> HIDE DEF d
<1>5. /\ OneLess(d.heap, c.heap, h) /\ Distinct(d.lru)
      /\ d.usage <= c.usage /\ d.elems = c.elems /\ d.list = c.list
      /\ Len(d.lru) = Len(c.lru) - 1 /\ Listed(d) = Listed(c) \ {h}
  BY <1>1, <1>3, <1>4, Zenon
<1> QED
  BY <1>3, <1>5 DEF d, x

-----------------------------------------------------------------------------
(* The hash table.                                                         *)

\* FindPointer() finds the entry of the list that has the key, wherever it is.
LEMMA FindPointerIs ==
  ASSUME NEW c \in Caches, InPlace(c), NEW k \in Files
  PROVE  FindPointer(c, k) = {h \in Listed(c) : c.heap[h].key = k}
<1>1. Bucket(c, k) \in DOMAIN c.list
  BY TableIs
<1>2. c.list[Bucket(c, k)] =
        {h \in Listed(c) : Bucket(c, c.heap[h].key) = Bucket(c, k)}
  BY <1>1, Zenon DEF InPlace
<1> QED
  BY <1>2 DEF FindPointer

LEMMA TableLookupIs ==
  ASSUME NEW c, NEW held, CacheInv(c, held), NEW k \in Files
  PROVE  /\ TableLookup(c, k) = NoHandle =>
              FindPointer(c, k) = {} /\ \A h \in Listed(c) : c.heap[h].key # k
         /\ TableLookup(c, k) # NoHandle =>
              /\ TableLookup(c, k) \in Listed(c)
              /\ c.heap[TableLookup(c, k)].key = k
              /\ FindPointer(c, k) = {TableLookup(c, k)}
<1> DEFINE F == FindPointer(c, k)
           h == TableLookup(c, k)
<1>1. F = {g \in Listed(c) : c.heap[g].key = k}
  BY FindPointerIs DEF CacheInv
<1>2. Listed(c) \subseteq Handle
  BY LruIs DEF CacheInv
<1>3. NoHandle \notin Handle
  BY DEF NoHandle, Handle
<1>4. CASE F = {}
  <2>1. h = NoHandle
    BY <1>4 DEF TableLookup
  <2> QED
    BY <1>1, <1>4, <2>1
<1>5. CASE F # {}
  <2>1. h \in F
    BY <1>5 DEF TableLookup
  <2>2. \A g \in F : g = h
    BY <1>1, <2>1 DEF CacheInv, OnePerKey
  <2> HIDE DEF F, h
  <2>3. F = {h}
    BY <2>1, <2>2
  <2>4. h \in Listed(c) /\ c.heap[h].key = k /\ h # NoHandle
    BY <1>1, <1>2, <1>3, <2>1
  <2> QED
    BY <2>3, <2>4 DEF F, h
<1> QED
  BY <1>4, <1>5

\* Every entry of d is one of c, with the same key.
Kept(d, c) ==
  \A g \in DOMAIN d.heap : g \in DOMAIN c.heap /\ d.heap[g].key = c.heap[g].key

\* Remove() takes the entry out of its chain (cache.cpp:56-64).
LEMMA TableRemoveEffect ==
  ASSUME NEW c \in Caches, NEW k \in Files, NEW h \in Handle,
         FindPointer(c, k) = {h}
  PROVE  LET x == TableRemove(c, k)
         IN  /\ x \in Caches
             /\ x.heap = c.heap /\ x.lru = c.lru /\ x.usage = c.usage
             /\ x.elems = c.elems - 1
             /\ DOMAIN x.list = DOMAIN c.list
             /\ \A b \in DOMAIN c.list :
                  x.list[b] = IF b = Bucket(c, k) THEN c.list[b] \ {h} ELSE c.list[b]
<1> DEFINE B == Bucket(c, k)
           n == Length(c)
           f == [c.list EXCEPT ![B] = @ \ {h}]
           x == TableRemove(c, k)
<1>1. n \in Nat \ {0} /\ c.list \in [0..(n - 1) -> SUBSET Handle] /\ B \in DOMAIN c.list
  BY TableIs
<1>2. x = [c EXCEPT !.list = f, !.elems = c.elems - 1]
  BY DEF TableRemove, Caches
<1> HIDE DEF x, B, n
<1>3. f \in [0..(n - 1) -> SUBSET Handle]
  BY <1>1
<1>4. f \in Tables
  BY <1>1, <1>3, TableType
<1>5. DOMAIN f = DOMAIN c.list /\ \A b \in DOMAIN c.list :
        f[b] = IF b = B THEN c.list[b] \ {h} ELSE c.list[b]
  BY <1>1
<1>6. c.elems - 1 \in Int
  BY LruIs
<1> HIDE DEF f
<1>7. /\ x \in Caches
      /\ x.heap = c.heap /\ x.lru = c.lru /\ x.usage = c.usage
      /\ x.elems = c.elems - 1 /\ x.list = f
  BY <1>2, <1>4, <1>6 DEF Caches
<1> QED
  BY <1>5, <1>7 DEF B, x

\* An eviction keeps the invariant, whether the entry is in use or not.
LEMMA DropKeeps ==
  ASSUME NEW c, NEW held \in [Handle -> Nat], CacheInv(c, held), NEW h \in Listed(c)
  PROVE  LET d == Drop(c, h)
         IN  /\ CacheInv(d, held) /\ Kept(d, c) /\ d.usage <= c.usage
             /\ Len(d.lru) = Len(c.lru) - 1
             /\ Listed(d) = Listed(c) \ {h}
             /\ held[h] = 0 => h \notin DOMAIN d.heap
<1> DEFINE k == c.heap[h].key
           x == TableRemove(c, k)
           d == Unref(LRU_Remove(x, h), h)
           B == Bucket(c, k)
<1>0. d = Drop(c, h)
  BY DEF Drop
<1>1. /\ c \in Caches /\ Distinct(c.lru) /\ Listed(c) \subseteq DOMAIN c.heap
      /\ \A g, i \in Listed(c) : c.heap[g].key = c.heap[i].key => g = i
      /\ RefsMatch(c, held) /\ InPlace(c) /\ UsageExact(c)
      /\ c.elems = Len(c.lru) /\ c.elems <= Length(c)
  BY DEF CacheInv, OnePerKey
<1>2. /\ DOMAIN c.heap \subseteq Handle
      /\ \A g \in DOMAIN c.heap : c.heap[g].key \in Files /\ c.heap[g].refs \in Nat
  BY <1>1, HeapIs DEF Entry
<1>3. h \in DOMAIN c.heap /\ h \in Handle /\ k \in Files
  BY <1>1, <1>2
<1>4. FindPointer(c, k) = {h}
  <2>1. FindPointer(c, k) = {g \in Listed(c) : c.heap[g].key = k}
    BY <1>1, <1>3, FindPointerIs
  <2> QED
    BY <1>1, <2>1
<1>5. /\ x \in Caches
      /\ x.heap = c.heap /\ x.lru = c.lru /\ x.usage = c.usage
      /\ x.elems = c.elems - 1
      /\ DOMAIN x.list = DOMAIN c.list
      /\ \A b \in DOMAIN c.list :
           x.list[b] = IF b = B THEN c.list[b] \ {h} ELSE c.list[b]
  <2>1. c \in Caches /\ k \in Files /\ h \in Handle
    BY <1>1, <1>3
  <2> HIDE DEF k
  <2> QED
    BY <1>4, <2>1, TableRemoveEffect
<1> HIDE DEF x
<1>6. Listed(x) = Listed(c) /\ Distinct(x.lru) /\ UsageExact(x)
  <2>1. Listed(x) = Listed(c)
    BY <1>5, Zenon DEF Listed
  <2>2. Distinct(x.lru) /\ UsageExact(x)
    BY <1>1, <1>5 DEF UsageExact
  <2> QED
    BY <2>1, <2>2
<1>7. h \in Listed(x) /\ h \in DOMAIN x.heap /\ x.heap[h].refs >= 1
  BY <1>1, <1>3, <1>5, <1>6 DEF RefsMatch
<1>8. /\ d \in Caches
      /\ d.elems = x.elems /\ d.list = x.list
      /\ Distinct(d.lru)
      /\ Listed(d) = Listed(x) \ {h}
      /\ Len(d.lru) = Len(x.lru) - 1
      /\ OneLess(d.heap, x.heap, h)
      /\ UsageExact(d) /\ d.usage <= x.usage
  BY <1>5, <1>6, <1>7, DiscardEffect
<1> HIDE DEF d
<1>9. /\ Listed(d) = Listed(c) \ {h} /\ d.usage <= c.usage
      /\ Len(d.lru) = Len(c.lru) - 1 /\ d.elems = c.elems - 1
      /\ DOMAIN d.list = DOMAIN c.list
  BY <1>5, <1>6, <1>8, Zenon
<1>10. /\ DOMAIN d.heap = DOMAIN c.heap \ (IF c.heap[h].refs > 1 THEN {} ELSE {h})
       /\ \A g \in DOMAIN d.heap :
            /\ d.heap[g].key = c.heap[g].key
            /\ d.heap[g].refs = c.heap[g].refs - (IF g = h THEN 1 ELSE 0)
  BY <1>5, <1>8 DEF OneLess
<1>11. Kept(d, c)
  BY <1>10 DEF Kept
<1>12. OnePerKey(d)
  <2>1. Listed(d) \subseteq DOMAIN d.heap
    BY <1>1, <1>9, <1>10
  <2> QED
    BY <1>1, <1>9, <1>10, <2>1 DEF OnePerKey
<1>13. RefsMatch(d, held)
  <2>1. ASSUME NEW g \in DOMAIN d.heap
        PROVE  /\ d.heap[g].refs = held[g] + (IF g \in Listed(d) THEN 1 ELSE 0)
               /\ d.heap[g].refs >= 1
    <3>1. g \in DOMAIN c.heap /\ g \in Handle /\ held[g] \in Nat
      BY <1>2, <1>10
    <3>2. /\ c.heap[g].refs = held[g] + (IF g \in Listed(c) THEN 1 ELSE 0)
          /\ c.heap[g].refs >= 1
      BY <1>1, <3>1 DEF RefsMatch
    <3>3. d.heap[g].refs = c.heap[g].refs - (IF g = h THEN 1 ELSE 0)
      BY <1>10
    <3>4. CASE g = h
      <4>1. c.heap[g].refs > 1 /\ g \in Listed(c) /\ g \notin Listed(d)
        BY <1>9, <1>10, <3>4
      <4> QED
        BY <3>1, <3>2, <3>3, <3>4, <4>1
    <3>5. CASE g # h
      <4>1. g \in Listed(c) <=> g \in Listed(d)
        BY <1>9, <3>5
      <4> QED
        BY <3>1, <3>2, <3>3, <3>5, <4>1
    <3> QED
      BY <3>4, <3>5
  <2>2. ASSUME NEW g \in Handle, held[g] > 0
        PROVE  g \in DOMAIN d.heap
    <3>1. g \in DOMAIN c.heap /\ held[g] \in Nat
      BY <1>1, <2>2 DEF RefsMatch
    <3>2. g = h => c.heap[h].refs = held[h] + 1
      BY <1>1, <1>3 DEF RefsMatch
    <3> QED
      BY <1>10, <2>2, <3>1, <3>2
  <2> QED
    BY <2>1, <2>2 DEF RefsMatch
<1>14. InPlace(d)
  <2>1. Length(d) = Length(c)
    BY <1>9, Zenon DEF Length
  <2>2. \A i \in Files : Bucket(d, i) = Bucket(c, i)
    BY <2>1, Zenon DEF Bucket
  <2> SUFFICES ASSUME NEW b \in DOMAIN c.list
               PROVE  d.list[b] = {g \in Listed(d) : Bucket(d, d.heap[g].key) = b}
    BY <1>9, Zenon DEF InPlace
  <2>3. d.list[b] = IF b = B THEN c.list[b] \ {h} ELSE c.list[b]
    BY <1>5, <1>8
  <2>4. c.list[b] = {g \in Listed(c) : Bucket(c, c.heap[g].key) = b}
    BY <1>1, Zenon DEF InPlace
  <2>5. \A g \in Listed(d) : Bucket(d, d.heap[g].key) = Bucket(c, c.heap[g].key)
    <3>1. \A g \in Listed(d) : g \in DOMAIN d.heap /\ g \in DOMAIN c.heap
      BY <1>10, <1>12 DEF OnePerKey
    <3> QED
      BY <1>2, <1>10, <2>2, <3>1
  <2>6. b # B => h \notin c.list[b]
    BY <2>4
  <2> HIDE DEF B, k
  <2> QED
    BY <1>9, <2>3, <2>4, <2>5, <2>6
<1>15. d.elems = Len(d.lru) /\ d.elems <= Length(d)
  <2>1. Length(d) = Length(c) /\ Length(c) \in Nat /\ Len(c.lru) \in Nat
    BY <1>1, <1>9, TableIs, LruIs DEF Length
  <2> QED
    BY <1>1, <1>9, <2>1
<1>16. held[h] = 0 => h \notin DOMAIN d.heap
  <2>1. c.heap[h].refs = held[h] + 1
    BY <1>1, <1>3 DEF RefsMatch
  <2> QED
    BY <1>10, <2>1
<1>17. CacheInv(d, held)
  BY <1>8, <1>12, <1>13, <1>14, <1>15 DEF CacheInv
<1> QED
  BY <1>0, <1>9, <1>11, <1>16, <1>17

-----------------------------------------------------------------------------
(* The loop of Insert().                                                   *)

\* After each eviction the invariant holds again, and the list is one shorter.
LEMMA EvictionsKeep ==
  ASSUME NEW c, NEW held \in [Handle -> Nat], CacheInv(c, held),
         NEW n \in 0..Len(c.lru)
  PROVE  LET d == Evictions(c)[n]
         IN  CacheInv(d, held) /\ Kept(d, c) /\ Len(d.lru) = Len(c.lru) - n
<1> DEFINE f == Evictions(c)
           Good(m) == /\ CacheInv(f[m], held) /\ Kept(f[m], c)
                      /\ Len(f[m].lru) = Len(c.lru) - m
           Bad == {m \in 0..Len(c.lru) : ~Good(m)}
<1>1. c \in Caches /\ c.lru \in Seq(Handle) /\ Len(c.lru) \in Nat
  BY LruIs DEF CacheInv
<1>2. f = [i \in 0..Len(c.lru) |->
             IF i = 0 THEN c ELSE Drop(f[i - 1], Head(f[i - 1].lru))]
  BY <1>1, EvictionsDef
<1> HIDE DEF f
<1>3. ASSUME NEW m \in Bad, \A y \in Bad : m <= y
      PROVE  FALSE
  <2>0. f[m] = IF m = 0 THEN c ELSE Drop(f[m - 1], Head(f[m - 1].lru))
    BY <1>2
  <2>1. m # 0
    <3>1. m = 0 => Good(m)
      <4>1. Kept(c, c)
        BY DEF Kept
      <4>2. Len(c.lru) - 0 = Len(c.lru)
        BY <1>1
      <4> QED
        BY <2>0, <4>1, <4>2
    <3> QED
      BY <3>1
  <2>2. m - 1 \in 0..Len(c.lru) /\ ~(m <= m - 1) /\ m <= Len(c.lru) /\ m \in Nat
    BY <1>1, <2>1
  <2>3. Good(m - 1)
    BY <1>3, <2>2
  <2> DEFINE x == f[m - 1]
             h == Head(x.lru)
  <2> HIDE DEF x
  <2>4. /\ CacheInv(x, held) /\ Kept(x, c) /\ Len(x.lru) = Len(c.lru) - (m - 1)
        /\ f[m] = Drop(x, h)
    BY <2>0, <2>1, <2>3 DEF x
  <2>5. h \in Listed(x)
    <3>1. x.lru \in Seq(Handle) /\ Len(x.lru) \in Nat /\ DOMAIN x.lru = 1..Len(x.lru)
      BY <2>4, LruIs DEF CacheInv
    <3>2. 1 \in 1..Len(x.lru)
      BY <1>1, <2>2, <2>4, <3>1
    <3>3. h = x.lru[1]
      BY <3>1, <3>2
    <3> QED
      BY <3>1, <3>2, <3>3 DEF Listed
  <2> HIDE DEF h
  <2>a. LET d == Drop(x, h)
        IN  /\ CacheInv(d, held) /\ Kept(d, x)
            /\ Len(d.lru) = Len(x.lru) - 1
    BY <2>4, <2>5, DropKeeps
  <2>6. /\ CacheInv(f[m], held) /\ Kept(f[m], x)
        /\ Len(f[m].lru) = Len(x.lru) - 1
    BY <2>4, <2>a, Zenon
  <2>7. Kept(f[m], c)
    BY <2>4, <2>6 DEF Kept
  <2>8. Len(f[m].lru) = Len(c.lru) - m
    BY <1>1, <2>2, <2>4, <2>6
  <2> QED
    BY <2>6, <2>7, <2>8
<1>4. n \notin Bad
  <2> SUFFICES ASSUME n \in Bad PROVE FALSE
    OBVIOUS
  <2>1. Bad \subseteq Nat
    BY <1>1
  <2> HIDE DEF Bad
  <2> QED
    BY <1>3, <2>1, Least
<1>5. Good(n)
  BY <1>4
<1> QED
  BY <1>5 DEF f

\* The loop ends, with a cache that is small enough or empty.
LEMMA ShrunkKeeps ==
  ASSUME NEW c, NEW held \in [Handle -> Nat], CacheInv(c, held)
  PROVE  LET s == Shrunk(c)
         IN  /\ CacheInv(s, held) /\ Kept(s, c)
             /\ s.usage > capacity_ => s.lru = <<>>
<1> DEFINE N == Len(c.lru)
           S == {n \in 0..N : \/ Evictions(c)[n].usage <= capacity_
                              \/ Evictions(c)[n].lru = <<>>}
           s == Shrunk(c)
<1>1. N \in Nat
  BY LruIs DEF CacheInv
<1>2. N \in S
  <2> DEFINE d == Evictions(c)[N]
  <2>1. CacheInv(d, held) /\ Len(d.lru) = N - N
    BY <1>1, EvictionsKeep
  <2> HIDE DEF d
  <2>2. d.lru \in Seq(Handle) /\ Len(d.lru) = 0
    BY <1>1, <2>1, LruIs DEF CacheInv
  <2>3. d.lru = <<>>
    BY <2>2, EmptySeq
  <2> QED
    BY <1>1, <2>3 DEF d
<1>3. S \subseteq Nat
  BY <1>1
<1>4. Min(S) \in S
  BY <1>2, <1>3, MinNat
<1>5. s = Evictions(c)[Min(S)]
  BY DEF Shrunk
<1>6. PICK n \in 0..N : s = Evictions(c)[n] /\ (s.usage <= capacity_ \/ s.lru = <<>>)
  BY <1>4, <1>5
<1>7. CacheInv(s, held) /\ Kept(s, c)
  BY <1>6, EvictionsKeep
<1>8. s.usage \in Int /\ capacity_ \in Nat
  BY <1>7, LruIs, CacheAssumption DEF CacheInv
<1> QED
  BY <1>6, <1>7, <1>8

-----------------------------------------------------------------------------
(* Lookup() and Insert().                                                  *)

\* Lookup() that finds h (cache.cpp:168-177): one reference more.
LEMMA LookupKeeps ==
  ASSUME NEW c, NEW held \in [Handle -> Nat], CacheInv(c, held), NEW h \in Listed(c)
  PROVE  LET x == CacheLookup(c, h)
         IN  /\ CacheInv(x, [held EXCEPT ![h] = @ + 1])
             /\ Kept(x, c) /\ DOMAIN x.heap = DOMAIN c.heap
             /\ x.usage = c.usage
<1> DEFINE D == DOMAIN c.heap
           e == [c.heap[h] EXCEPT !.refs = @ + 1]
           f == [c.heap EXCEPT ![h] = e]
           a == [c EXCEPT !.heap = f]
           u == LRU_Remove(a, h)
           x == LRU_Append(u, h)
           more == [held EXCEPT ![h] = @ + 1]
<1>1. /\ c \in Caches /\ Distinct(c.lru) /\ Listed(c) \subseteq D
      /\ \A g, i \in Listed(c) : c.heap[g].key = c.heap[i].key => g = i
      /\ RefsMatch(c, held) /\ InPlace(c) /\ UsageExact(c)
      /\ c.elems = Len(c.lru) /\ c.elems <= Length(c)
  BY DEF CacheInv, OnePerKey
<1>2. D \subseteq Handle /\ c.heap \in [D -> Entry] /\ h \in D /\ h \in Handle
  BY <1>1, HeapIs
<1>3. \A g \in D : /\ c.heap[g] \in Entry /\ c.heap[g].refs \in Nat
                   /\ c.heap[g].charge \in Nat /\ c.heap[g].key \in Files
  BY <1>2 DEF Entry
<1>4. /\ e \in Entry /\ e.key = c.heap[h].key /\ e.charge = c.heap[h].charge
      /\ e.refs = c.heap[h].refs + 1
  BY <1>2, <1>3 DEF Entry
<1>5. x = CacheLookup(c, h)
  <2>1. a = [c EXCEPT !.heap[h].refs = @ + 1]
    BY <1>1 DEF Caches
  <2> QED
    BY <2>1, Zenon DEF CacheLookup
<1> HIDE DEF e
<1>6. /\ f \in [D -> Entry] /\ DOMAIN f = D
      /\ \A g \in D : f[g] = IF g = h THEN e ELSE c.heap[g]
  BY <1>2, <1>4
<1>7. f \in Heaps
  BY <1>2, <1>6, HeapType
<1> HIDE DEF f
<1>8. /\ a \in Caches /\ a.heap = f /\ a.lru = c.lru /\ a.usage = c.usage
      /\ a.elems = c.elems /\ a.list = c.list
  BY <1>1, <1>7 DEF Caches
<1> HIDE DEF a
<1>9. Listed(a) = Listed(c)
  BY <1>8, Zenon DEF Listed
<1>10. Distinct(a.lru) /\ h \in Listed(a)
  BY <1>1, <1>8, <1>9
<1>11. /\ u \in Caches /\ u.heap = a.heap /\ u.usage = a.usage
       /\ u.elems = a.elems /\ u.list = a.list /\ Distinct(u.lru)
       /\ Listed(u) = Listed(a) \ {h} /\ Len(u.lru) = Len(a.lru) - 1
  BY <1>8, <1>10, UnlinkEffect
<1> HIDE DEF u
<1>12. h \notin Listed(u)
  BY <1>11
<1>13. /\ x \in Caches /\ x.heap = u.heap /\ x.usage = u.usage
       /\ x.elems = u.elems /\ x.list = u.list /\ Distinct(x.lru)
       /\ Listed(x) = Listed(u) \cup {h} /\ Len(x.lru) = Len(u.lru) + 1
  BY <1>2, <1>11, <1>12, LinkEffect
<1> HIDE DEF x
<1>14. x.heap = f /\ x.usage = c.usage /\ x.elems = c.elems /\ x.list = c.list
  BY <1>8, <1>11, <1>13, Zenon
<1>15. Listed(x) = Listed(c)
  BY <1>9, <1>11, <1>13
<1>16. \A g \in D : f[g].key = c.heap[g].key /\ f[g].charge = c.heap[g].charge
                    /\ f[g].refs = c.heap[g].refs + (IF g = h THEN 1 ELSE 0)
  BY <1>3, <1>4, <1>6
<1>17. OnePerKey(x)
  BY <1>1, <1>6, <1>14, <1>15, <1>16 DEF OnePerKey
<1>18. RefsMatch(x, more)
  <2>1. \A g \in Handle : more[g] = held[g] + (IF g = h THEN 1 ELSE 0) /\ held[g] \in Nat
    BY <1>2
  <2>2. ASSUME NEW g \in D
        PROVE  /\ f[g].refs = more[g] + (IF g \in Listed(c) THEN 1 ELSE 0)
               /\ f[g].refs >= 1
    <3>1. g \in Handle /\ c.heap[g].refs \in Nat
      BY <1>2, <1>3
    <3>2. /\ c.heap[g].refs = held[g] + (IF g \in Listed(c) THEN 1 ELSE 0)
          /\ c.heap[g].refs >= 1
      BY <1>1 DEF RefsMatch
    <3>3. more[g] = held[g] + (IF g = h THEN 1 ELSE 0) /\ held[g] \in Nat
      BY <2>1, <3>1
    <3>4. f[g].refs = c.heap[g].refs + (IF g = h THEN 1 ELSE 0)
      BY <1>16
    <3> HIDE DEF more
    <3> QED
      BY <3>1, <3>2, <3>3, <3>4
  <2>3. ASSUME NEW g \in Handle, more[g] > 0
        PROVE  g \in D
    <3>1. g = h \/ held[g] > 0
      BY <2>1, <2>3
    <3> QED
      BY <1>1, <1>2, <3>1 DEF RefsMatch
  <2> HIDE DEF more
  <2> QED
    BY <1>6, <1>14, <1>15, <2>2, <2>3 DEF RefsMatch
<1>19. InPlace(x)
  <2>1. Length(x) = Length(c)
    BY <1>14, Zenon DEF Length
  <2>2. \A k \in Files : Bucket(x, k) = Bucket(c, k)
    BY <2>1, Zenon DEF Bucket
  <2>3. \A g \in Listed(c) : Bucket(x, x.heap[g].key) = Bucket(c, c.heap[g].key)
    BY <1>1, <1>3, <1>14, <1>16, <2>2
  <2>4. \A b \in DOMAIN c.list :
          c.list[b] = {g \in Listed(c) : Bucket(c, c.heap[g].key) = b}
    BY <1>1, Zenon DEF InPlace
  <2>5. \A b \in DOMAIN c.list :
          c.list[b] = {g \in Listed(c) : Bucket(x, x.heap[g].key) = b}
    BY <2>3, <2>4
  <2> QED
    BY <1>14, <1>15, <2>5, Zenon DEF InPlace
<1>20. x.elems = Len(x.lru) /\ x.elems <= Length(x)
  <2>1. Length(x) = Length(c) /\ Len(c.lru) \in Nat
    BY <1>1, <1>14, LruIs DEF Length
  <2> QED
    BY <1>1, <1>8, <1>11, <1>13, <1>14, <2>1
<1>21. UsageExact(x)
  <2>1. ChargeOf(f) = ChargeOf(c.heap)
    BY <1>6, <1>16 DEF ChargeOf
  <2> QED
    BY <1>1, <1>14, <2>1 DEF UsageExact
<1>22. CacheInv(x, more)
  <2> HIDE DEF more
  <2> QED
    BY <1>13, <1>17, <1>18, <1>19, <1>20, <1>21 DEF CacheInv
<1>23. Kept(x, c) /\ DOMAIN x.heap = D
  BY <1>6, <1>14, <1>16 DEF Kept
<1> QED
  BY <1>5, <1>14, <1>22, <1>23

\* The chains together hold what the list holds.
LEMMA InTableIs ==
  ASSUME NEW c \in Caches, InPlace(c), Listed(c) \subseteq DOMAIN c.heap
  PROVE  InTable(c) = Listed(c)
<1>1. \A b \in DOMAIN c.list :
        c.list[b] = {h \in Listed(c) : Bucket(c, c.heap[h].key) = b}
  BY Zenon DEF InPlace
<1>2. \A h \in Listed(c) : Bucket(c, c.heap[h].key) \in DOMAIN c.list
  <2>1. \A h \in DOMAIN c.heap : c.heap[h].key \in Files
    BY HeapIs DEF Entry
  <2> QED
    BY <2>1, TableIs
<1>3. \A h \in Listed(c) : \E b \in DOMAIN c.list : h \in c.list[b]
  BY <1>1, <1>2
<1>4. \A b \in DOMAIN c.list : c.list[b] \subseteq Listed(c)
  BY <1>1
<1> QED
  BY <1>3, <1>4 DEF InTable

\* Resize() puts every entry where FindPointer() will look for it
\* (cache.cpp:79-103).
LEMMA ResizeEffect ==
  ASSUME NEW c \in Caches, InPlace(c), c.elems \in Nat,
         Listed(c) \subseteq DOMAIN c.heap
  PROVE  LET x == Resize(c)
         IN  /\ x \in Caches
             /\ x.heap = c.heap /\ x.lru = c.lru /\ x.usage = c.usage
             /\ x.elems = c.elems
             /\ InPlace(x) /\ c.elems <= Length(x)
<1> DEFINE n == NewLength(c)
           f == [b \in 0..(n - 1) |->
                   {h \in InTable(c) : Hash[c.heap[h].key] % n = b}]
           x == Resize(c)
<1>1. n \in Nat \ {0} /\ n >= c.elems
  BY NewLengthEnough
<1>2. InTable(c) = Listed(c)
  BY InTableIs
<1>3. x = [c EXCEPT !.list = f]
  BY DEF Resize
<1>4. Listed(c) \subseteq Handle
  BY LruIs
<1> HIDE DEF n, x
<1>5. f \in [0..(n - 1) -> SUBSET Handle]
  BY <1>2, <1>4
<1>6. f \in Tables
  BY <1>1, <1>5, TableType
<1>7. DOMAIN f = 0..(n - 1) /\ \A b \in 0..(n - 1) :
        f[b] = {h \in Listed(c) : Hash[c.heap[h].key] % n = b}
  BY <1>2
<1> HIDE DEF f
<1>8. /\ x \in Caches /\ x.heap = c.heap /\ x.lru = c.lru /\ x.usage = c.usage
      /\ x.elems = c.elems /\ x.list = f
  BY <1>3, <1>6 DEF Caches
<1>9. Length(x) = n
  BY <1>1, <1>7, <1>8, LengthIs
<1>10. Listed(x) = Listed(c)
  BY <1>8, Zenon DEF Listed
<1>11. InPlace(x)
  <2>1. \A k : Bucket(x, k) = Hash[k] % n
    BY <1>9, Zenon DEF Bucket
  <2> QED
    BY <1>7, <1>8, <1>10, <2>1 DEF InPlace
<1> QED
  BY <1>1, <1>8, <1>9, <1>11 DEF x

\* The new entry, before it is in the table (cache.cpp:187-199).
LEMMA LinkedEffect ==
  ASSUME NEW c, NEW held \in [Handle -> Nat], CacheInv(c, held),
         NEW k \in Files, NEW e \in Handle, e \notin DOMAIN c.heap
  PROVE  LET l == Linked(c, k, e)
         IN  /\ l \in Caches
             /\ DOMAIN l.heap = DOMAIN c.heap \cup {e}
             /\ l.heap[e].key = k /\ l.heap[e].refs = 2
             /\ \A g \in DOMAIN c.heap : l.heap[g] = c.heap[g]
             /\ UsageExact(l)
             /\ l.elems = c.elems /\ l.list = c.list
             /\ Distinct(l.lru)
             /\ Listed(l) = Listed(c) \cup {e}
             /\ Len(l.lru) = Len(c.lru) + 1
<1> DEFINE D == DOMAIN c.heap
           entry == [key |-> k, charge |-> Charge[k], refs |-> 2]
           f == [g \in D \cup {e} |-> IF g = e THEN entry ELSE c.heap[g]]
           used == c.usage + Charge[k]
           a == [c EXCEPT !.heap = f, !.usage = used]
           l == LRU_Append(a, e)
<1>1. c \in Caches /\ Distinct(c.lru) /\ Listed(c) \subseteq D /\ UsageExact(c)
  BY DEF CacheInv, OnePerKey
<1>2. D \subseteq Handle /\ c.heap \in [D -> Entry]
  BY <1>1, HeapIs
<1>3. Charge[k] \in Nat /\ c.usage \in Int
  BY <1>1, LruIs, CacheAssumption
<1>4. entry \in Entry /\ entry.key = k /\ entry.charge = Charge[k] /\ entry.refs = 2
  BY <1>3 DEF Entry
<1>5. l = Linked(c, k, e)
  BY <1>1 DEF Linked, Caches
<1> HIDE DEF entry
<1>6. f \in [D \cup {e} -> Entry] /\ D \cup {e} \in SUBSET Handle
  BY <1>2, <1>4
<1>7. /\ DOMAIN f = D \cup {e} /\ f[e] = entry
      /\ \A g \in D : f[g] = c.heap[g]
  OBVIOUS
<1>8. f \in Heaps
  BY <1>6, HeapType
<1>9. used \in Int
  BY <1>3
<1> HIDE DEF f, used
<1>10. /\ a \in Caches /\ a.heap = f /\ a.usage = used /\ a.lru = c.lru
       /\ a.elems = c.elems /\ a.list = c.list
  BY <1>1, <1>8, <1>9 DEF Caches
<1> HIDE DEF a
<1>11. Listed(a) = Listed(c)
  BY <1>10, Zenon DEF Listed
<1>12. e \notin Listed(a) /\ Distinct(a.lru)
  BY <1>1, <1>10, <1>11
<1>13. /\ l \in Caches /\ l.heap = a.heap /\ l.usage = a.usage
       /\ l.elems = a.elems /\ l.list = a.list
       /\ Distinct(l.lru)
       /\ Listed(l) = Listed(a) \cup {e}
       /\ Len(l.lru) = Len(a.lru) + 1
  BY <1>10, <1>12, LinkEffect
<1> HIDE DEF l
<1>14. /\ l.heap = f /\ l.usage = used /\ l.elems = c.elems /\ l.list = c.list
       /\ Listed(l) = Listed(c) \cup {e} /\ Len(l.lru) = Len(c.lru) + 1
  BY <1>10, <1>11, <1>13, Zenon
<1>15. UsageExact(l)
  <2> DEFINE v == ChargeOf(l.heap)
             w == ChargeOf(c.heap)
  <2>1. v \in [Handle -> Nat] /\ w \in [Handle -> Nat]
    BY <1>1, <1>13, ChargeType
  <2>2. \A g \in Handle : g # e => v[g] = w[g]
    BY <1>7, <1>14 DEF ChargeOf
  <2>3. v[e] = Charge[k] /\ w[e] = 0
    BY <1>4, <1>7, <1>14 DEF ChargeOf
  <2> HIDE DEF v, w
  <2>4. Sum(v) = Sum(w) + v[e] - w[e]
    BY <2>1, <2>2, SumChanged
  <2>5. Sum(w) = c.usage
    BY <1>1 DEF UsageExact, w
  <2> QED
    BY <1>3, <1>14, <2>3, <2>4, <2>5 DEF UsageExact, used, v
<1>16. /\ DOMAIN l.heap = D \cup {e} /\ l.heap[e].key = k /\ l.heap[e].refs = 2
       /\ \A g \in D : l.heap[g] = c.heap[g]
  BY <1>4, <1>7, <1>14
<1> QED
  BY <1>5, <1>13, <1>14, <1>15, <1>16

\* What Insert() has made of the cache before it evicts: the new entry is in, and the
\* one it replaces is out (cache.cpp:201-205).
LEMMA InsertedInv ==
  ASSUME NEW c, NEW held \in [Handle -> Nat], CacheInv(c, held),
         NEW k \in Files, NEW e \in Handle, e \notin DOMAIN c.heap
  PROVE  LET y == Discard(TableInsert(Linked(c, k, e), e), TableLookup(c, k))
         IN  /\ CacheInv(y, [held EXCEPT ![e] = 1])
             /\ \A g \in DOMAIN y.heap :
                  \/ g = e /\ y.heap[g].key = k
                  \/ g \in DOMAIN c.heap /\ y.heap[g].key = c.heap[g].key
<1> DEFINE l == Linked(c, k, e)
           old == TableLookup(c, k)
           found == FindPointer(c, k)
           B == Bucket(c, k)
           more == [held EXCEPT ![e] = 1]
<1>1. /\ c \in Caches /\ Listed(c) \subseteq DOMAIN c.heap
      /\ \A g, h \in Listed(c) : c.heap[g].key = c.heap[h].key => g = h
      /\ RefsMatch(c, held) /\ InPlace(c)
      /\ c.elems = Len(c.lru) /\ c.elems <= Length(c)
  BY DEF CacheInv, OnePerKey
<1>2. /\ DOMAIN c.heap \subseteq Handle
      /\ \A g \in DOMAIN c.heap : c.heap[g].key \in Files /\ c.heap[g].refs \in Nat
  BY <1>1, HeapIs DEF Entry
<1>3. /\ l \in Caches
      /\ DOMAIN l.heap = DOMAIN c.heap \cup {e}
      /\ l.heap[e].key = k /\ l.heap[e].refs = 2
      /\ \A g \in DOMAIN c.heap : l.heap[g] = c.heap[g]
      /\ UsageExact(l)
      /\ l.elems = c.elems /\ l.list = c.list
      /\ Distinct(l.lru)
      /\ Listed(l) = Listed(c) \cup {e}
      /\ Len(l.lru) = Len(c.lru) + 1
  BY LinkedEffect
<1> HIDE DEF l
<1>4. /\ Length(l) = Length(c) /\ Length(c) \in Nat \ {0}
      /\ c.list \in [0..(Length(c) - 1) -> SUBSET Handle]
      /\ B \in DOMAIN c.list /\ Len(c.lru) \in Nat
  BY <1>1, <1>3, TableIs, LruIs DEF Length
<1>5. \A i : Bucket(l, i) = Bucket(c, i)
  BY <1>4, Zenon DEF Bucket
<1>6. \A b \in DOMAIN c.list :
        c.list[b] = {h \in Listed(c) : Bucket(c, c.heap[h].key) = b}
  BY <1>1, Zenon DEF InPlace
<1>7. FindPointer(l, k) = found
  <2>1. \A h \in c.list[B] : l.heap[h] = c.heap[h]
    BY <1>1, <1>3, <1>4, <1>6
  <2>2. l.list[Bucket(l, k)] = c.list[B]
    BY <1>3, <1>5
  <2> QED
    BY <2>1, <2>2 DEF FindPointer
<1>8. /\ old = NoHandle => found = {} /\ \A h \in Listed(c) : c.heap[h].key # k
      /\ old # NoHandle => old \in Listed(c) /\ c.heap[old].key = k /\ found = {old}
  BY TableLookupIs
<1> DEFINE f == [c.list EXCEPT ![B] = (@ \ found) \cup {e}]
           placed == [l EXCEPT !.list = f]
           added == [placed EXCEPT !.elems = @ + 1]
<1>9. TableInsert(l, e) =
        IF found # {} THEN placed
        ELSE IF added.elems > Length(c) THEN Resize(added) ELSE added
  <2>1. [l EXCEPT !.list[B] = (@ \ found) \cup {e}] = placed
    BY <1>3 DEF Caches
  <2>2. Bucket(l, k) = B
    BY <1>5
  <2>3. l.heap[e].key = k
    BY <1>3
  <2> DEFINE key == l.heap[e].key
             Q == [l EXCEPT !.list[Bucket(l, key)] = (@ \ FindPointer(l, key)) \cup {e}]
  <2>4. TableInsert(l, e) =
          IF FindPointer(l, key) # {} THEN Q
          ELSE IF [Q EXCEPT !.elems = @ + 1].elems > Length(l)
               THEN Resize([Q EXCEPT !.elems = @ + 1])
               ELSE [Q EXCEPT !.elems = @ + 1]
    BY Zenon DEF TableInsert
  <2>5. Q = placed
    <3>1. Q = [l EXCEPT !.list[Bucket(l, k)] = (@ \ FindPointer(l, k)) \cup {e}]
      BY <2>3, Zenon
    <3>2. @ = [l EXCEPT !.list[B] = (@ \ found) \cup {e}]
      BY <1>7, <2>2, Zenon
    <3> QED
      BY <2>1, <3>1, <3>2, Zenon
  <2> HIDE DEF Q, placed
  <2>6. FindPointer(l, key) = found
    BY <1>7, <2>3, Zenon
  <2> QED
    BY <1>4, <2>4, <2>5, <2>6, Zenon
<1>10. f \in [0..(Length(c) - 1) -> SUBSET Handle]
  BY <1>4
<1>11. /\ DOMAIN f = DOMAIN c.list
       /\ \A b \in DOMAIN c.list :
            f[b] = IF b = B THEN (c.list[b] \ found) \cup {e} ELSE c.list[b]
  BY <1>4
<1>12. f \in Tables
  BY <1>4, <1>10, TableType
<1> HIDE DEF f, found, old
<1>13. /\ placed \in Caches /\ placed.heap = l.heap /\ placed.lru = l.lru
       /\ placed.usage = l.usage /\ placed.elems = l.elems /\ placed.list = f
  BY <1>3, <1>12 DEF Caches
<1> HIDE DEF placed
<1>14. more \in [Handle -> Nat] /\ \A g \in Handle : more[g] = IF g = e THEN 1 ELSE held[g]
  OBVIOUS
<1> HIDE DEF more
<1>e. e \notin Listed(c) /\ ~(held[e] > 0) /\ held[e] = 0
  <2>1. e \notin Listed(c) /\ ~(held[e] > 0)
    BY <1>1 DEF RefsMatch
  <2>2. held[e] \in Nat
    OBVIOUS
  <2> QED
    BY <2>1, <2>2
\* Nothing to replace.
<1>15. ASSUME old = NoHandle
       PROVE  LET y == TableInsert(l, e)
              IN  CacheInv(y, more) /\ y.heap = l.heap
  <2>0. found = {} /\ \A h \in Listed(c) : c.heap[h].key # k
    BY <1>8, <1>15
  <2>1. /\ added \in Caches /\ added.heap = l.heap /\ added.lru = l.lru
        /\ added.usage = l.usage /\ added.elems = c.elems + 1 /\ added.list = f
    <3>1. placed.elems + 1 \in Int /\ placed.elems = c.elems
      BY <1>3, <1>13, LruIs
    <3> QED
      BY <1>13, <3>1 DEF Caches
  <2> HIDE DEF added
  <2>2. Listed(added) = Listed(c) \cup {e} /\ Distinct(added.lru) /\ UsageExact(added)
    <3>1. Listed(added) = Listed(l)
      BY <2>1, Zenon DEF Listed
    <3>2. Distinct(added.lru) /\ UsageExact(added)
      BY <1>3, <2>1 DEF UsageExact
    <3> QED
      BY <1>3, <3>1, <3>2
  <2>3. added.elems = Len(added.lru) /\ added.elems \in Nat
    BY <1>1, <1>3, <1>4, <2>1
  <2>4. OnePerKey(added)
    <3>1. Listed(added) \subseteq DOMAIN added.heap
      BY <1>1, <1>3, <2>1, <2>2
    <3>2. \A g \in Listed(c) : added.heap[g].key = c.heap[g].key
      BY <1>1, <1>3, <2>1
    <3>3. added.heap[e].key = k
      BY <1>3, <2>1
    <3> QED
      BY <1>1, <2>0, <2>2, <3>1, <3>2, <3>3 DEF OnePerKey
  <2>5. RefsMatch(added, more)
    <3>1. ASSUME NEW g \in DOMAIN added.heap
          PROVE  /\ added.heap[g].refs = more[g] + (IF g \in Listed(added) THEN 1 ELSE 0)
                 /\ added.heap[g].refs >= 1
      <4>1. CASE g = e
        BY <1>3, <1>14, <2>1, <2>2, <4>1
      <4>2. CASE g # e
        <5>1. g \in DOMAIN c.heap /\ added.heap[g] = c.heap[g]
          BY <1>3, <2>1, <4>2
        <5>2. /\ c.heap[g].refs = held[g] + (IF g \in Listed(c) THEN 1 ELSE 0)
              /\ c.heap[g].refs >= 1
          BY <1>1, <5>1 DEF RefsMatch
        <5>3. more[g] = held[g] /\ (g \in Listed(added) <=> g \in Listed(c))
          BY <1>2, <1>14, <2>2, <4>2, <5>1
        <5> QED
          BY <5>1, <5>2, <5>3
      <4> QED
        BY <4>1, <4>2
    <3>2. ASSUME NEW g \in Handle, more[g] > 0
          PROVE  g \in DOMAIN added.heap
      <4>1. g = e \/ held[g] > 0
        BY <1>14, <3>2
      <4>2. g = e \/ g \in DOMAIN c.heap
        BY <1>1, <4>1 DEF RefsMatch
      <4> QED
        BY <1>3, <2>1, <4>2
    <3> QED
      BY <3>1, <3>2 DEF RefsMatch
  <2>6. InPlace(added)
    <3>1. \A i : Bucket(added, i) = Bucket(c, i)
      <4>1. Length(added) = Length(c)
        BY <1>11, <2>1, Zenon DEF Length
      <4> QED
        BY <4>1, Zenon DEF Bucket
    <3>2. /\ \A g \in Listed(c) : Bucket(added, added.heap[g].key) = Bucket(c, c.heap[g].key)
          /\ Bucket(added, added.heap[e].key) = B
      BY <1>1, <1>3, <2>1, <3>1
    <3> HIDE DEF B
    <3> SUFFICES ASSUME NEW b \in DOMAIN c.list
                 PROVE  f[b] = {g \in Listed(added) : Bucket(added, added.heap[g].key) = b}
      BY <1>11, <2>1, Zenon DEF InPlace
    <3>3. f[b] = IF b = B THEN c.list[b] \cup {e} ELSE c.list[b]
      BY <1>11, <2>0
    <3>4. c.list[b] = {g \in Listed(c) : Bucket(c, c.heap[g].key) = b}
      BY <1>6
    <3> QED
      BY <2>2, <3>2, <3>3, <3>4
  <2>7. CASE ~(added.elems > Length(c))
    <3>1. TableInsert(l, e) = added
      BY <1>9, <2>0, <2>7
    <3>2. added.elems <= Length(added)
      <4>1. Length(added) = Length(c)
        BY <1>11, <2>1, Zenon DEF Length
      <4> QED
        BY <1>4, <2>3, <2>7, <4>1
    <3>3. CacheInv(added, more)
      BY <2>1, <2>2, <2>3, <2>4, <2>5, <2>6, <3>2 DEF CacheInv
    <3> QED
      BY <2>1, <3>1, <3>3, Zenon
  <2>8. CASE added.elems > Length(c)
    <3> DEFINE x == Resize(added)
    <3>1. TableInsert(l, e) = x
      BY <1>9, <2>0, <2>8
    <3>2. /\ x \in Caches
          /\ x.heap = added.heap /\ x.lru = added.lru /\ x.usage = added.usage
          /\ x.elems = added.elems
          /\ InPlace(x) /\ added.elems <= Length(x)
      BY <2>1, <2>3, <2>4, <2>6, ResizeEffect DEF OnePerKey
    <3> HIDE DEF x
    <3>3. Listed(x) = Listed(added)
      BY <3>2, Zenon DEF Listed
    <3>4. OnePerKey(x)
      BY <2>4, <3>2, <3>3 DEF OnePerKey
    <3>5. RefsMatch(x, more)
      BY <2>5, <3>2, <3>3 DEF RefsMatch
    <3>6. /\ Distinct(x.lru) /\ UsageExact(x)
          /\ x.elems = Len(x.lru) /\ x.elems <= Length(x)
      BY <2>2, <2>3, <3>2 DEF UsageExact
    <3>7. CacheInv(x, more)
      BY <3>2, <3>4, <3>5, <3>6 DEF CacheInv
    <3>8. x.heap = l.heap
      BY <2>1, <3>2
    <3> QED
      BY <3>1, <3>7, <3>8, Zenon
  <2> QED
    BY <2>7, <2>8
\* Another reader has inserted the key meanwhile.
<1>16. ASSUME old # NoHandle
       PROVE  LET y == Unref(LRU_Remove(TableInsert(l, e), old), old)
              IN  CacheInv(y, more) /\ OneLess(y.heap, l.heap, old)
  <2>0. old \in Listed(c) /\ c.heap[old].key = k /\ found = {old}
        /\ old \in DOMAIN c.heap /\ old # e
    BY <1>1, <1>8, <1>16
  <2>1. TableInsert(l, e) = placed
    BY <1>9, <2>0
  <2> DEFINE y == Unref(LRU_Remove(placed, old), old)
  <2>2. Listed(placed) = Listed(c) \cup {e} /\ Distinct(placed.lru) /\ UsageExact(placed)
    <3>1. Listed(placed) = Listed(l)
      BY <1>13, Zenon DEF Listed
    <3>2. Distinct(placed.lru) /\ UsageExact(placed)
      BY <1>3, <1>13 DEF UsageExact
    <3> QED
      BY <1>3, <3>1, <3>2
  <2>3. /\ old \in Listed(placed) /\ old \in DOMAIN placed.heap
        /\ placed.heap[old] = c.heap[old] /\ placed.heap[old].refs >= 1
    BY <1>1, <1>3, <1>13, <2>0, <2>2 DEF RefsMatch
  <2>4. /\ y \in Caches
        /\ y.elems = placed.elems /\ y.list = placed.list
        /\ Distinct(y.lru)
        /\ Listed(y) = Listed(placed) \ {old}
        /\ Len(y.lru) = Len(placed.lru) - 1
        /\ OneLess(y.heap, placed.heap, old)
        /\ UsageExact(y) /\ y.usage <= placed.usage
    BY <1>13, <2>2, <2>3, DiscardEffect
  <2> HIDE DEF y
  <2>5. y.elems = c.elems /\ y.list = f /\ Len(y.lru) = Len(c.lru)
    BY <1>3, <1>4, <1>13, <2>4
  <2>6. Listed(y) = (Listed(c) \ {old}) \cup {e}
    BY <2>0, <2>2, <2>4
  <2>7. OneLess(y.heap, l.heap, old)
    BY <1>13, <2>4
  <2>8. /\ DOMAIN y.heap = (DOMAIN c.heap \cup {e}) \
                             (IF c.heap[old].refs > 1 THEN {} ELSE {old})
        /\ \A g \in DOMAIN y.heap :
             /\ y.heap[g].key = l.heap[g].key
             /\ y.heap[g].refs = l.heap[g].refs - (IF g = old THEN 1 ELSE 0)
    BY <1>3, <1>13, <2>0, <2>7 DEF OneLess
  <2>9. OnePerKey(y)
    <3>1. Listed(y) \subseteq DOMAIN y.heap
      BY <1>1, <2>0, <2>6, <2>8
    <3>2. /\ \A g \in Listed(c) \ {old} : y.heap[g].key = c.heap[g].key /\ c.heap[g].key # k
          /\ y.heap[e].key = k
      BY <1>1, <1>3, <2>0, <2>6, <2>8, <3>1
    <3> QED
      BY <1>1, <2>6, <3>1, <3>2 DEF OnePerKey
  <2>10. RefsMatch(y, more)
    <3>1. ASSUME NEW g \in DOMAIN y.heap
          PROVE  /\ y.heap[g].refs = more[g] + (IF g \in Listed(y) THEN 1 ELSE 0)
                 /\ y.heap[g].refs >= 1
      <4>0. y.heap[g].refs = l.heap[g].refs - (IF g = old THEN 1 ELSE 0)
        BY <2>8
      <4>1. CASE g = e
        BY <1>3, <1>14, <2>0, <2>6, <4>0, <4>1
      <4>2. CASE g # e
        <5>1. g \in DOMAIN c.heap /\ l.heap[g] = c.heap[g] /\ g \in Handle
          BY <1>2, <1>3, <2>8, <4>2
        <5>2. /\ c.heap[g].refs = held[g] + (IF g \in Listed(c) THEN 1 ELSE 0)
              /\ c.heap[g].refs >= 1 /\ c.heap[g].refs \in Nat
          BY <1>1, <1>2, <5>1 DEF RefsMatch
        <5>3. more[g] = held[g] /\ held[g] \in Nat
          BY <1>14, <4>2, <5>1
        <5>4. CASE g = old
          <6>1. c.heap[g].refs > 1 /\ g \in Listed(c) /\ g \notin Listed(y)
            BY <2>0, <2>6, <2>8, <5>4
          <6> QED
            BY <4>0, <5>1, <5>2, <5>3, <5>4, <6>1
        <5>5. CASE g # old
          <6>1. g \in Listed(y) <=> g \in Listed(c)
            BY <2>6, <4>2, <5>5
          <6> QED
            BY <4>0, <5>1, <5>2, <5>3, <5>5, <6>1
        <5> QED
          BY <5>4, <5>5
      <4> QED
        BY <4>1, <4>2
    <3>2. ASSUME NEW g \in Handle, more[g] > 0
          PROVE  g \in DOMAIN y.heap
      <4>1. CASE g = e
        BY <2>0, <2>8, <4>1
      <4>2. CASE g # e
        <5>1. held[g] > 0 /\ held[g] \in Nat
          BY <1>14, <3>2, <4>2
        <5>2. g \in DOMAIN c.heap
          BY <1>1, <5>1 DEF RefsMatch
        <5>3. g = old => c.heap[old].refs = held[old] + 1
          BY <1>1, <2>0 DEF RefsMatch
        <5> QED
          BY <2>8, <5>1, <5>2, <5>3
      <4> QED
        BY <4>1, <4>2
    <3> QED
      BY <3>1, <3>2 DEF RefsMatch
  <2>11. InPlace(y)
    <3>0. Length(y) = Length(c)
      BY <1>11, <2>5, Zenon DEF Length
    <3>1. \A i : Bucket(y, i) = Bucket(c, i)
      BY <3>0, Zenon DEF Bucket
    <3>2. /\ \A g \in Listed(c) \ {old} : Bucket(y, y.heap[g].key) = Bucket(c, c.heap[g].key)
          /\ Bucket(y, y.heap[e].key) = B
      <4>1. \A g \in Listed(c) \ {old} : g \in DOMAIN y.heap /\ y.heap[g].key = c.heap[g].key
        BY <1>1, <1>3, <2>6, <2>8, <2>9 DEF OnePerKey
      <4>2. y.heap[e].key = k
        BY <1>3, <2>0, <2>8
      <4> QED
        BY <3>1, <4>1, <4>2
    <3>3. Bucket(c, c.heap[old].key) = B
      BY <2>0
    <3> HIDE DEF B
    <3> SUFFICES ASSUME NEW b \in DOMAIN c.list
                 PROVE  f[b] = {g \in Listed(y) : Bucket(y, y.heap[g].key) = b}
      BY <1>11, <2>5, Zenon DEF InPlace
    <3>4. f[b] = IF b = B THEN (c.list[b] \ {old}) \cup {e} ELSE c.list[b]
      BY <1>11, <2>0
    <3>5. c.list[b] = {g \in Listed(c) : Bucket(c, c.heap[g].key) = b}
      BY <1>6
    <3> QED
      BY <2>6, <3>2, <3>3, <3>4, <3>5
  <2>12. y.elems = Len(y.lru) /\ y.elems <= Length(y)
    <3>1. Length(y) = Length(c)
      BY <1>11, <2>5, Zenon DEF Length
    <3> QED
      BY <1>1, <2>5, <3>1
  <2>13. CacheInv(y, more)
    BY <2>4, <2>9, <2>10, <2>11, <2>12 DEF CacheInv
  <2> QED
    BY <2>1, <2>7, <2>13 DEF y
<1> DEFINE y == Discard(TableInsert(l, e), old)
<1>17. CASE old = NoHandle
  <2>1. y = TableInsert(l, e)
    BY <1>17 DEF Discard
  <2>2. CacheInv(y, more) /\ y.heap = l.heap
    BY <1>15, <1>17, <2>1, Zenon
  <2> HIDE DEF y
  <2>3. \A g \in DOMAIN y.heap :
          \/ g = e /\ y.heap[g].key = k
          \/ g \in DOMAIN c.heap /\ y.heap[g].key = c.heap[g].key
    BY <1>3, <2>2
  <2> QED
    BY <2>2, <2>3 DEF y, l, old, more
<1>18. CASE old # NoHandle
  <2>1. y = Unref(LRU_Remove(TableInsert(l, e), old), old)
    BY <1>18 DEF Discard
  <2>2. CacheInv(y, more) /\ OneLess(y.heap, l.heap, old)
    BY <1>16, <1>18, <2>1, Zenon
  <2> HIDE DEF y
  <2>3. \A g \in DOMAIN y.heap :
          \/ g = e /\ y.heap[g].key = k
          \/ g \in DOMAIN c.heap /\ y.heap[g].key = c.heap[g].key
    <3>1. \A g \in DOMAIN y.heap : g \in DOMAIN l.heap /\ y.heap[g].key = l.heap[g].key
      BY <2>2 DEF OneLess
    <3> QED
      BY <1>3, <3>1
  <2> QED
    BY <2>2, <2>3 DEF y, l, old, more
<1> QED
  BY <1>17, <1>18

-----------------------------------------------------------------------------
(* Release(), Erase() and the destructor.                                  *)

\* Release() (cache.cpp:179-182).
LEMMA ReleaseKeeps ==
  ASSUME NEW c, NEW held \in [Handle -> Nat], CacheInv(c, held),
         NEW h \in Handle, held[h] > 0
  PROVE  LET u == Unref(c, h)
         IN  /\ CacheInv(u, [held EXCEPT ![h] = @ - 1])
             /\ Kept(u, c) /\ u.usage <= c.usage /\ u.lru = c.lru
             /\ \A g \in DOMAIN c.heap : g # h => g \in DOMAIN u.heap
             /\ held[h] > 1 => h \in DOMAIN u.heap
<1> DEFINE u == Unref(c, h)
           less == [held EXCEPT ![h] = @ - 1]
<1>1. /\ c \in Caches /\ Distinct(c.lru) /\ Listed(c) \subseteq DOMAIN c.heap
      /\ \A g, i \in Listed(c) : c.heap[g].key = c.heap[i].key => g = i
      /\ RefsMatch(c, held) /\ InPlace(c) /\ UsageExact(c)
      /\ c.elems = Len(c.lru) /\ c.elems <= Length(c)
  BY DEF CacheInv, OnePerKey
<1>2. /\ DOMAIN c.heap \subseteq Handle
      /\ \A g \in DOMAIN c.heap : c.heap[g].key \in Files /\ c.heap[g].refs \in Nat
  BY <1>1, HeapIs DEF Entry
<1>3. h \in DOMAIN c.heap /\ c.heap[h].refs >= 1 /\ held[h] \in Nat
      /\ c.heap[h].refs = held[h] + (IF h \in Listed(c) THEN 1 ELSE 0)
  BY <1>1 DEF RefsMatch
<1>4. /\ u \in Caches
      /\ u.lru = c.lru /\ u.elems = c.elems /\ u.list = c.list
      /\ OneLess(u.heap, c.heap, h)
      /\ UsageExact(u) /\ u.usage <= c.usage
  BY <1>1, <1>3, UnrefEffect
<1> HIDE DEF u
<1>5. Listed(u) = Listed(c)
  BY <1>4, Zenon DEF Listed
<1>6. /\ DOMAIN u.heap = DOMAIN c.heap \ (IF c.heap[h].refs > 1 THEN {} ELSE {h})
      /\ \A g \in DOMAIN u.heap :
           /\ u.heap[g].key = c.heap[g].key
           /\ u.heap[g].refs = c.heap[g].refs - (IF g = h THEN 1 ELSE 0)
  BY <1>4 DEF OneLess
<1>7. h \in Listed(c) => c.heap[h].refs > 1
  BY <1>3
<1>8. OnePerKey(u)
  <2>1. Listed(u) \subseteq DOMAIN u.heap
    BY <1>1, <1>5, <1>6, <1>7
  <2> QED
    BY <1>1, <1>5, <1>6, <2>1 DEF OnePerKey
<1>9. \A g \in Handle : less[g] = IF g = h THEN held[g] - 1 ELSE held[g]
  OBVIOUS
<1> HIDE DEF less
<1>10. RefsMatch(u, less)
  <2>1. ASSUME NEW g \in DOMAIN u.heap
        PROVE  /\ u.heap[g].refs = less[g] + (IF g \in Listed(u) THEN 1 ELSE 0)
               /\ u.heap[g].refs >= 1
    <3>1. g \in DOMAIN c.heap /\ g \in Handle /\ held[g] \in Nat
      BY <1>2, <1>6
    <3>2. /\ c.heap[g].refs = held[g] + (IF g \in Listed(c) THEN 1 ELSE 0)
          /\ c.heap[g].refs >= 1 /\ c.heap[g].refs \in Nat
      BY <1>1, <1>2, <3>1 DEF RefsMatch
    <3>3. u.heap[g].refs = c.heap[g].refs - (IF g = h THEN 1 ELSE 0)
      BY <1>6
    <3>4. less[g] = IF g = h THEN held[g] - 1 ELSE held[g]
      BY <1>9, <3>1
    <3>5. g = h => c.heap[g].refs > 1
      BY <1>6
    <3>6. g \in Listed(u) <=> g \in Listed(c)
      BY <1>5
    <3> QED
      BY <3>1, <3>2, <3>3, <3>4, <3>5, <3>6
  <2>2. ASSUME NEW g \in Handle, less[g] > 0
        PROVE  g \in DOMAIN u.heap
    <3>1. held[g] > 0 /\ (g = h => held[g] > 1) /\ held[g] \in Nat
      BY <1>9, <2>2
    <3>2. g \in DOMAIN c.heap
      BY <1>1, <3>1 DEF RefsMatch
    <3>3. g = h => c.heap[h].refs > 1
      BY <1>3, <3>1
    <3> QED
      BY <1>6, <3>2, <3>3
  <2> QED
    BY <2>1, <2>2 DEF RefsMatch
<1>11. Length(u) = Length(c)
  BY <1>4, Zenon DEF Length
<1>12. InPlace(u)
  <2>1. \A i : Bucket(u, i) = Bucket(c, i)
    BY <1>11, Zenon DEF Bucket
  <2>2. \A g \in Listed(c) : Bucket(u, u.heap[g].key) = Bucket(c, c.heap[g].key)
    BY <1>5, <1>6, <1>8, <2>1 DEF OnePerKey
  <2>3. \A b \in DOMAIN c.list :
          c.list[b] = {g \in Listed(c) : Bucket(c, c.heap[g].key) = b}
    BY <1>1, Zenon DEF InPlace
  <2>4. \A b \in DOMAIN c.list :
          c.list[b] = {g \in Listed(c) : Bucket(u, u.heap[g].key) = b}
    BY <2>2, <2>3
  <2> QED
    BY <1>4, <1>5, <2>4, Zenon DEF InPlace
<1>13. Distinct(u.lru) /\ u.elems = Len(u.lru) /\ u.elems <= Length(u)
  BY <1>1, <1>4, <1>11
<1>14. CacheInv(u, less)
  BY <1>4, <1>8, <1>10, <1>12, <1>13 DEF CacheInv
<1>15. Kept(u, c) /\ \A g \in DOMAIN c.heap : g # h => g \in DOMAIN u.heap
  BY <1>6 DEF Kept
<1>16. held[h] > 1 => h \in DOMAIN u.heap
  BY <1>3, <1>6
<1> QED
  BY <1>4, <1>14, <1>15, <1>16 DEF u, less

\* Erase() of a key that no reader holds an entry of: none is left
\* (cache.cpp:217-224).
LEMMA EraseKeeps ==
  ASSUME NEW c, NEW held \in [Handle -> Nat], CacheInv(c, held), NEW k \in Files,
         \A h \in DOMAIN c.heap : held[h] > 0 => c.heap[h].key # k,
         c.usage > capacity_ => c.lru = <<>>
  PROVE  LET x == Erase(c, k)
         IN  /\ CacheInv(x, held) /\ Kept(x, c)
             /\ x.usage > capacity_ => x.lru = <<>>
             /\ \A g \in DOMAIN x.heap : x.heap[g].key # k
             /\ \A g \in DOMAIN c.heap : held[g] > 0 => g \in DOMAIN x.heap
<1> DEFINE old == TableLookup(c, k)
           x == Erase(c, k)
<1>1. /\ c \in Caches /\ Listed(c) \subseteq DOMAIN c.heap /\ RefsMatch(c, held)
      /\ \A g, h \in Listed(c) : c.heap[g].key = c.heap[h].key => g = h
  BY DEF CacheInv, OnePerKey
<1>2. DOMAIN c.heap \subseteq Handle
  BY <1>1, HeapIs
<1>3. \A g \in DOMAIN c.heap : g \in Listed(c) \/ held[g] > 0
  <2> SUFFICES ASSUME NEW g \in DOMAIN c.heap, g \notin Listed(c) PROVE held[g] > 0
    OBVIOUS
  <2>1. c.heap[g].refs = held[g] + 0 /\ c.heap[g].refs >= 1
    BY <1>1 DEF RefsMatch
  <2>2. held[g] \in Nat
    BY <1>2
  <2> QED
    BY <2>1, <2>2
<1>4. CASE old = NoHandle
  <2>1. FindPointer(c, k) = {} /\ \A h \in Listed(c) : c.heap[h].key # k
    BY <1>4, TableLookupIs
  <2>2. x = c
    BY <1>4, <2>1, Zenon DEF Erase, Discard, TableRemove
  <2>3. Kept(c, c)
    BY DEF Kept
  <2>4. \A g \in DOMAIN c.heap : c.heap[g].key # k
    BY <1>3, <2>1
  <2> QED
    BY <2>2, <2>3, <2>4, Zenon
<1>5. CASE old # NoHandle
  <2>1. old \in Listed(c) /\ c.heap[old].key = k /\ old \in DOMAIN c.heap
    BY <1>1, <1>5, TableLookupIs
  <2>2. x = Drop(c, old)
    BY <1>5, <2>1, Zenon DEF Erase, Discard, Drop
  <2>3. ~(held[old] > 0) /\ held[old] = 0
    <3>1. held[old] \in Nat /\ ~(held[old] > 0)
      BY <1>2, <2>1
    <3> QED
      BY <3>1
  <2> HIDE DEF old, x
  <2>a. LET d == Drop(c, old)
        IN  /\ CacheInv(d, held) /\ Kept(d, c) /\ d.usage <= c.usage
            /\ held[old] = 0 => old \notin DOMAIN d.heap
    BY <2>1, DropKeeps
  <2>4. /\ CacheInv(x, held) /\ Kept(x, c) /\ x.usage <= c.usage
        /\ old \notin DOMAIN x.heap
    BY <2>2, <2>3, <2>a, Zenon
  <2>5. ~(x.usage > capacity_)
    <3>1. ~(c.usage > capacity_)
      <4>1. c.lru # <<>>
        BY <2>1 DEF Listed
      <4> QED
        BY <4>1
    <3>2. c.usage \in Int /\ x.usage \in Int /\ capacity_ \in Nat
      BY <1>1, <2>4, LruIs, CacheAssumption DEF CacheInv
    <3>3. x.usage <= c.usage
      BY <2>4
    <3> QED
      BY <3>1, <3>2, <3>3
  <2>6. \A g \in DOMAIN x.heap : x.heap[g].key # k
    <3> SUFFICES ASSUME NEW g \in DOMAIN x.heap, x.heap[g].key = k PROVE FALSE
      OBVIOUS
    <3>1. g \in DOMAIN c.heap /\ c.heap[g].key = k /\ g # old
      BY <2>4 DEF Kept
    <3>2. g \in Listed(c)
      BY <1>3, <3>1
    <3> QED
      BY <1>1, <2>1, <3>1, <3>2
  <2>7. \A g \in DOMAIN c.heap : held[g] > 0 => g \in DOMAIN x.heap
    <3>1. RefsMatch(x, held)
      BY <2>4 DEF CacheInv
    <3> QED
      BY <1>2, <3>1 DEF RefsMatch
  <2> QED
    BY <2>4, <2>5, <2>6, <2>7 DEF x
<1> QED
  BY <1>4, <1>5

\* The destructor frees every entry, if the readers hold none.
LEMMA DestroyedEmpty ==
  ASSUME NEW c, NEW held \in [Handle -> Nat], CacheInv(c, held),
         \A h \in Handle : held[h] = 0
  PROVE  LET x == Destroyed(c)
         IN  x \in Caches /\ DOMAIN x.heap = {} /\ x.usage = 0 /\ x.elems \in Nat
<1> DEFINE f == Unreffed(c)
           N == Len(c.lru)
           First(n) == {c.lru[i] : i \in 1..n}
           Good(m) == /\ f[m] \in Caches /\ UsageExact(f[m])
                      /\ f[m].elems = c.elems
                      /\ DOMAIN f[m].heap = DOMAIN c.heap \ First(m)
                      /\ \A g \in DOMAIN f[m].heap : f[m].heap[g].refs = 1
           Bad == {m \in 0..N : ~Good(m)}
<1>1. /\ c \in Caches /\ Distinct(c.lru) /\ Listed(c) \subseteq DOMAIN c.heap
      /\ RefsMatch(c, held) /\ UsageExact(c) /\ c.elems = N
  BY DEF CacheInv, OnePerKey
<1>2. /\ N \in Nat /\ DOMAIN c.lru = 1..N /\ c.lru \in Seq(Handle)
      /\ DOMAIN c.heap \subseteq Handle
  BY <1>1, LruIs, HeapIs
<1>3. \A g \in DOMAIN c.heap : g \in Listed(c) /\ c.heap[g].refs = 1
  <2> SUFFICES ASSUME NEW g \in DOMAIN c.heap
               PROVE  g \in Listed(c) /\ c.heap[g].refs = 1
    OBVIOUS
  <2>1. held[g] = 0
    BY <1>2
  <2>2. /\ c.heap[g].refs = held[g] + (IF g \in Listed(c) THEN 1 ELSE 0)
        /\ c.heap[g].refs >= 1
    BY <1>1 DEF RefsMatch
  <2> QED
    BY <2>1, <2>2
<1>4. f = [i \in 0..N |-> IF i = 0 THEN c ELSE Unref(f[i - 1], c.lru[i])]
  BY <1>2, UnreffedDef
<1> HIDE DEF f
<1>5. ASSUME NEW m \in Bad, \A y \in Bad : m <= y
      PROVE  FALSE
  <2>0. f[m] = IF m = 0 THEN c ELSE Unref(f[m - 1], c.lru[m])
    BY <1>4
  <2>1. m # 0
    <3> SUFFICES ASSUME m = 0 PROVE Good(m)
      OBVIOUS
    <3>1. f[m] = c /\ First(m) = {}
      BY <2>0
    <3> HIDE DEF First
    <3> QED
      BY <1>1, <1>3, <3>1
  <2>2. m - 1 \in 0..N /\ ~(m <= m - 1) /\ m \in 1..N /\ m \in Nat
    BY <1>2, <2>1
  <2>3. Good(m - 1)
    BY <1>5, <2>2
  <2> DEFINE x == f[m - 1]
             h == c.lru[m]
             u == Unref(x, h)
  <2> HIDE DEF x, First
  <2>4. /\ x \in Caches /\ UsageExact(x) /\ x.elems = c.elems
        /\ DOMAIN x.heap = DOMAIN c.heap \ First(m - 1)
        /\ \A g \in DOMAIN x.heap : x.heap[g].refs = 1
        /\ f[m] = u
    BY <2>0, <2>1, <2>3 DEF x
  <2>5. h \in DOMAIN x.heap
    <3>1. h \in DOMAIN c.heap
      BY <1>1, <1>2, <2>2 DEF Listed
    <3>2. h \notin First(m - 1)
      <4>1. \A i \in 1..(m - 1) : i \in DOMAIN c.lru /\ m \in DOMAIN c.lru /\ i # m
        BY <1>2, <2>2
      <4>2. \A i \in 1..(m - 1) : c.lru[i] # h
        BY <1>1, <4>1 DEF Distinct
      <4> QED
        BY <4>2 DEF First
    <3> QED
      BY <2>4, <3>1, <3>2
  <2>6. x.heap[h].refs = 1 /\ x.heap[h].refs >= 1 /\ ~(x.heap[h].refs > 1)
    BY <2>4, <2>5
  <2> HIDE DEF h
  <2>7. /\ u \in Caches /\ u.elems = x.elems
        /\ OneLess(u.heap, x.heap, h) /\ UsageExact(u)
    BY <2>4, <2>5, <2>6, UnrefEffect
  <2> HIDE DEF u
  <2>8. /\ DOMAIN u.heap = DOMAIN x.heap \ {h}
        /\ \A g \in DOMAIN u.heap : u.heap[g].refs = x.heap[g].refs - 0
    BY <2>6, <2>7 DEF OneLess
  <2>9. First(m) = First(m - 1) \cup {h}
    <3>1. \A i : i \in 1..m <=> (i \in 1..(m - 1) \/ i = m)
      BY <2>2
    <3> QED
      BY <3>1 DEF First, h
  <2>10. \A g \in DOMAIN u.heap : u.heap[g].refs = 1
    BY <2>4, <2>8
  <2>11. DOMAIN u.heap = DOMAIN c.heap \ First(m)
    BY <2>4, <2>8, <2>9
  <2>12. Good(m)
    BY <2>4, <2>7, <2>10, <2>11
  <2> QED
    BY <2>12
<1>6. N \notin Bad
  <2> SUFFICES ASSUME N \in Bad PROVE FALSE
    OBVIOUS
  <2>1. Bad \subseteq Nat
    BY <1>2
  <2> HIDE DEF Bad
  <2> QED
    BY <1>5, <2>1, Least
<1>7. Good(N)
  BY <1>2, <1>6
<1>8. First(N) = Listed(c)
  BY <1>2 DEF Listed
<1> DEFINE x == Destroyed(c)
<1>9. x = f[N]
  BY DEF Destroyed, f
<1> HIDE DEF x, First, N
<1>10. /\ x \in Caches /\ UsageExact(x) /\ x.elems = c.elems
       /\ DOMAIN x.heap = DOMAIN c.heap \ Listed(c)
  BY <1>7, <1>8, <1>9
<1>11. DOMAIN x.heap = {}
  BY <1>3, <1>10
<1>12. x.usage = 0
  <2>1. ChargeOf(x.heap) = [h \in Handle |-> 0]
    BY <1>11 DEF ChargeOf
  <2> QED
    BY <1>10, <2>1, SumZero DEF UsageExact
<1> QED
  BY <1>1, <1>2, <1>10, <1>11, <1>12 DEF x

-----------------------------------------------------------------------------
(* The inductive invariant.                                                *)

Held == [h \in Handle |-> Cardinality(Holders(h))]

ReaderTypes ==
  /\ pc \in [Readers -> {"idle", "miss", "use"}]
  /\ want \in [Readers -> Files]
  /\ handle \in [Readers -> Handle \cup {NoHandle}]
  /\ live \subseteq Files
  /\ closed \in BOOLEAN

\* A reader has a file that is not deleted, and a handle of it.
ReadersSafe ==
  \A r \in Readers :
    /\ pc[r] # "idle" => want[r] \in live /\ ~closed
    /\ pc[r] = "use" => /\ handle[r] \in DOMAIN cache.heap
                        /\ cache.heap[handle[r]].key = want[r]

AllLive == \A h \in DOMAIN cache.heap : cache.heap[h].key \in live
Bounded == cache.usage > capacity_ => cache.lru = <<>>
Gone ==
  cache \in Caches /\ DOMAIN cache.heap = {} /\ cache.usage = 0 /\ cache.elems \in Nat

\* RefsExact, TableMatchesList and UsageBounded are CacheInv; that Evict() leaves no
\* entry needs ReadersSafe.
IInv ==
  /\ ReaderTypes
  /\ ReadersSafe
  /\ AllLive
  /\ Bounded
  /\ ~closed => CacheInv(cache, Held)
  /\ closed => Gone

\* The readers of a handle are counted.
LEMMA HeldType ==
  /\ Held \in [Handle -> Nat]
  /\ \A h \in Handle : /\ IsFiniteSet(Holders(h))
                       /\ Held[h] = Cardinality(Holders(h))
                       /\ Held[h] > 0 <=> Holders(h) # {}
<1>1. ASSUME NEW h \in Handle
      PROVE  /\ IsFiniteSet(Holders(h)) /\ Cardinality(Holders(h)) \in Nat
             /\ Cardinality(Holders(h)) = 0 <=> Holders(h) = {}
  <2>1. Holders(h) \in SUBSET Readers /\ IsFiniteSet(Readers)
    BY CacheAssumption DEF Holders
  <2>2. IsFiniteSet(Holders(h))
    BY <2>1, FS_Subset
  <2> QED
    BY <2>2, FS_CardinalityType, FS_EmptySet
<1> QED
  BY <1>1 DEF Held

\* There is a handle to allocate: the entries are those in the list, one per file at
\* most, and those that readers hold.
LEMMA FreeHandle ==
  ASSUME ReaderTypes, CacheInv(cache, Held)
  PROVE  Min(Handle \ DOMAIN cache.heap) \in Handle \ DOMAIN cache.heap
<1> DEFINE D == DOMAIN cache.heap
           L == Listed(cache)
           U == {h \in Handle : Holders(h) # {}}
<1>1. /\ cache \in Caches /\ L \subseteq D /\ RefsMatch(cache, Held)
      /\ \A g, h \in L : cache.heap[g].key = cache.heap[h].key => g = h
  BY DEF CacheInv, OnePerKey
<1>2. D \subseteq Handle /\ \A h \in D : cache.heap[h].key \in Files
  BY <1>1, HeapIs DEF Entry
<1>3. IsFiniteSet(L) /\ Cardinality(L) <= Cardinality(Files)
  <2> DEFINE f == [h \in L |-> cache.heap[h].key]
  <2>1. f \in Injection(L, Files)
    BY <1>1, <1>2 DEF Injection, IsInjective
  <2> HIDE DEF f
  <2> QED
    BY <2>1, FS_Injection, CacheAssumption
<1>4. IsFiniteSet(U) /\ Cardinality(U) <= Cardinality(Readers)
  <2> DEFINE f == [h \in U |-> CHOOSE r \in Readers : handle[r] = h]
  <2>1. \A h \in U : f[h] \in Readers /\ handle[f[h]] = h
    <3> SUFFICES ASSUME NEW h \in U PROVE \E r \in Readers : handle[r] = h
      OBVIOUS
    <3> QED
      BY DEF Holders
  <2>2. f \in [U -> Readers]
    BY <2>1
  <2>3. f \in Injection(U, Readers)
    BY <2>1, <2>2 DEF Injection, IsInjective
  <2> HIDE DEF f, U
  <2> QED
    BY <2>3, FS_Injection, CacheAssumption
<1>5. D \subseteq L \cup U
  <2> SUFFICES ASSUME NEW h \in D, h \notin L PROVE h \in U
    OBVIOUS
  <2>1. cache.heap[h].refs = Held[h] + 0 /\ cache.heap[h].refs >= 1
    BY <1>1 DEF RefsMatch
  <2>2. h \in Handle /\ Held[h] \in Nat /\ (Held[h] > 0 <=> Holders(h) # {})
    BY <1>2, HeldType
  <2> QED
    BY <2>1, <2>2
<1>6. MaxHandle \in Nat /\ Cardinality(Handle) = MaxHandle
  <2>1. 1 \in Int /\ MaxHandle \in Int /\ MaxHandle \in Nat /\ ~(1 > MaxHandle)
    BY HandleSupply
  <2>2. Cardinality(1..MaxHandle) = MaxHandle - 1 + 1
    BY <2>1, FS_Interval, Zenon
  <2> QED
    BY <2>1, <2>2 DEF Handle
<1>7. Handle \ D # {}
  <2> SUFFICES ASSUME Handle \subseteq D PROVE FALSE
    BY <1>2
  <2> HIDE DEF L, U
  <2>1. IsFiniteSet(L \cup U)
        /\ Cardinality(L \cup U) = Cardinality(L) + Cardinality(U) - Cardinality(L \cap U)
    BY <1>3, <1>4, FS_Union
  <2>2. Handle \in SUBSET (L \cup U)
    BY <1>5
  <2>3. Cardinality(Handle) <= Cardinality(L \cup U)
    BY <2>1, <2>2, FS_Subset
  <2>4. L \cap U \in SUBSET L
    OBVIOUS
  <2>5. IsFiniteSet(L \cap U)
    BY <1>3, <2>4, FS_Subset
  <2>6. /\ Cardinality(L) \in Nat /\ Cardinality(U) \in Nat /\ Cardinality(L \cap U) \in Nat
        /\ Cardinality(L \cup U) \in Nat
        /\ Cardinality(Files) \in Nat /\ Cardinality(Readers) \in Nat
    BY <1>3, <1>4, <2>1, <2>5, FS_CardinalityType, CacheAssumption
  <2>7. MaxHandle = Cardinality(Files) + Cardinality(Readers) + 1
    BY DEF MaxHandle
  <2> QED
    BY <1>3, <1>4, <1>6, <2>1, <2>3, <2>6, <2>7
<1>8. Handle \ D \subseteq Nat
  BY <1>6 DEF Handle
<1> QED
  BY <1>7, <1>8, MinNat

LEMMA InitInv == Init => IInv
<1> SUFFICES ASSUME Init PROVE IInv
  OBVIOUS
<1> DEFINE c == Empty
<1>1. /\ c.heap = <<>> /\ c.lru = <<>> /\ c.usage = 0 /\ c.elems = 0
      /\ c.list = [b \in 0..(MinLength - 1) |-> {}]
      /\ cache = c
  BY DEF Init, Empty
<1>2. ReaderTypes
  <2>1. (CHOOSE k \in Files : TRUE) \in Files
    BY CacheAssumption
  <2> QED
    BY <2>1 DEF Init, ReaderTypes
<1>3. ReadersSafe
  BY DEF Init, ReadersSafe
<1>4. DOMAIN c.heap = {}
  BY <1>1
<1>5. c \in Caches
  <2>1. <<>> \in Heaps
    <3>1. <<>> \in [{} -> Entry] /\ {} \in SUBSET Handle
      OBVIOUS
    <3> QED
      BY <3>1, HeapType
  <2>2. [b \in 0..(MinLength - 1) |-> {}] \in Tables
    <3>1. MinLength \in Nat \ {0}
      BY CacheAssumption
    <3>2. [b \in 0..(MinLength - 1) |-> {}] \in [0..(MinLength - 1) -> SUBSET Handle]
      OBVIOUS
    <3> QED
      BY <3>1, <3>2, TableType
  <2>3. <<>> \in Seq(Handle)
    OBVIOUS
  <2> QED
    BY <2>1, <2>2, <2>3 DEF Empty, Caches
<1>6. Listed(c) = {} /\ Len(c.lru) = 0 /\ DOMAIN c.lru = {}
  BY <1>1 DEF Listed
<1>7. Length(c) \in Nat
  BY <1>5, TableIs
<1>8. UsageExact(c)
  <2>1. ChargeOf(c.heap) = [h \in Handle |-> 0]
    BY <1>4 DEF ChargeOf
  <2> QED
    BY <1>1, <2>1, SumZero DEF UsageExact
<1>9. InPlace(c)
  <2>1. \A b \in DOMAIN c.list : c.list[b] = {}
    BY <1>1
  <2> QED
    BY <1>6, <2>1 DEF InPlace
<1>10. RefsMatch(c, Held)
  <2>1. \A h \in Handle : Holders(h) = {}
    BY DEF Init, Holders
  <2>2. \A h \in Handle : ~(Held[h] > 0)
    BY <2>1, HeldType
  <2> QED
    BY <1>4, <2>2 DEF RefsMatch
<1>11. CacheInv(c, Held)
  <2>1. Distinct(c.lru) /\ OnePerKey(c)
    BY <1>6 DEF Distinct, OnePerKey
  <2>2. c.elems = Len(c.lru) /\ c.elems <= Length(c)
    BY <1>1, <1>6, <1>7
  <2> QED
    BY <1>5, <1>8, <1>9, <1>10, <2>1, <2>2 DEF CacheInv
<1>12. AllLive /\ Bounded
  BY <1>1, <1>4 DEF AllLive, Bounded
<1>13. ~closed
  BY DEF Init
<1> HIDE DEF c
<1>14. CacheInv(cache, Held)
  BY <1>1, <1>11
<1> QED
  BY <1>2, <1>3, <1>12, <1>13, <1>14 DEF IInv

\* A step in which no reader gets or gives back a handle.
LEMMA HeldSame ==
  ASSUME \A q \in Readers : \A h \in Handle :
           (pc'[q] = "use" /\ handle'[q] = h) <=> (pc[q] = "use" /\ handle[q] = h)
  PROVE  Held' = Held
<1>1. \A h \in Handle : Holders(h)' = Holders(h)
  BY DEF Holders
<1> QED
  BY <1>1, Zenon DEF Held

\* Reader r gets the handle h.
LEMMA HeldMore ==
  ASSUME ReaderTypes, NEW r \in Readers, NEW h \in Handle, pc[r] # "use",
         pc' = [pc EXCEPT ![r] = "use"], handle' = [handle EXCEPT ![r] = h]
  PROVE  Held' = [Held EXCEPT ![h] = @ + 1]
<1>1. \A g \in Handle : Holders(g)' = IF g = h THEN Holders(g) \cup {r} ELSE Holders(g)
  BY DEF Holders, ReaderTypes
<1>2. r \notin Holders(h) /\ IsFiniteSet(Holders(h))
  BY HeldType DEF Holders
<1>3. Cardinality(Holders(h) \cup {r}) = Cardinality(Holders(h)) + 1
  BY <1>2, FS_AddElement
<1>4. \A g \in Handle : Cardinality(Holders(g)') =
        IF g = h THEN Cardinality(Holders(g)) + 1 ELSE Cardinality(Holders(g))
  BY <1>1, <1>3
<1> QED
  BY <1>4 DEF Held

\* Reader r gives it back.
LEMMA HeldLess ==
  ASSUME ReaderTypes, NEW r \in Readers, NEW h \in Handle,
         pc[r] = "use", handle[r] = h,
         pc' = [pc EXCEPT ![r] = "idle"], handle' = [handle EXCEPT ![r] = NoHandle]
  PROVE  Held' = [Held EXCEPT ![h] = @ - 1]
<1>1. \A g \in Handle : Holders(g)' = IF g = h THEN Holders(g) \ {r} ELSE Holders(g)
  BY DEF Holders, ReaderTypes
<1>2. r \in Holders(h) /\ IsFiniteSet(Holders(h))
  BY HeldType DEF Holders
<1>3. Cardinality(Holders(h) \ {r}) = Cardinality(Holders(h)) - 1
  BY <1>2, FS_RemoveElement
<1>4. \A g \in Handle : Cardinality(Holders(g)') =
        IF g = h THEN Cardinality(Holders(g)) - 1 ELSE Cardinality(Holders(g))
  BY <1>1, <1>3
<1> QED
  BY <1>4 DEF Held

\* A reader's handle is one that is held.
LEMMA UseHeld ==
  ASSUME IInv, NEW r \in Readers, pc[r] = "use"
  PROVE  /\ ~closed /\ CacheInv(cache, Held) /\ handle[r] \in Handle
         /\ Held[handle[r]] > 0
<1>1. ~closed /\ CacheInv(cache, Held) /\ handle[r] \in DOMAIN cache.heap
  BY DEF IInv, ReadersSafe
<1>2. handle[r] \in Handle
  BY <1>1, HeapIs DEF CacheInv
<1>3. r \in Holders(handle[r])
  BY DEF Holders
<1> QED
  BY <1>1, <1>2, <1>3, HeldType

LEMMA FindInv ==
  ASSUME IInv, NEW r \in Readers, Find(r)
  PROVE  IInv'
<1>1. ~closed /\ pc[r] = "idle" /\ UNCHANGED <<live, closed>>
  BY DEF Find
<1>2. CacheInv(cache, Held) /\ ReaderTypes /\ ReadersSafe /\ AllLive /\ Bounded
  BY <1>1 DEF IInv
<1>3. PICK k \in live :
        LET h == TableLookup(cache, k)
        IN  /\ want' = [want EXCEPT ![r] = k]
            /\ handle' = [handle EXCEPT ![r] = h]
            /\ \/ /\ h = NoHandle
                  /\ pc' = [pc EXCEPT ![r] = "miss"]
                  /\ UNCHANGED cache
               \/ /\ h # NoHandle
                  /\ pc' = [pc EXCEPT ![r] = "use"]
                  /\ cache' = CacheLookup(cache, h)
  BY Zenon DEF Find
<1> DEFINE h == TableLookup(cache, k)
<1>4. k \in Files
  BY <1>2 DEF ReaderTypes
<1>5. /\ h # NoHandle => h \in Listed(cache) /\ cache.heap[h].key = k
  BY <1>2, <1>4, TableLookupIs
<1>6. Held \in [Handle -> Nat]
  BY HeldType
<1>7. CASE h = NoHandle
  <2>1. /\ want' = [want EXCEPT ![r] = k] /\ handle' = [handle EXCEPT ![r] = NoHandle]
        /\ pc' = [pc EXCEPT ![r] = "miss"] /\ cache' = cache
    BY <1>3, <1>7
  <2> HIDE DEF h
  <2>2. Held' = Held
    <3>1. \A q \in Readers : \A g \in Handle :
            (pc'[q] = "use" /\ handle'[q] = g) <=> (pc[q] = "use" /\ handle[q] = g)
      BY <1>1, <1>2, <2>1 DEF ReaderTypes
    <3> QED
      BY <3>1, HeldSame
  <2>3. ReaderTypes'
    BY <1>1, <1>2, <1>4, <2>1 DEF ReaderTypes
  <2>4. ReadersSafe'
    BY <1>1, <1>2, <2>1 DEF ReadersSafe, ReaderTypes
  <2>5. AllLive' /\ Bounded'
    BY <1>1, <1>2, <2>1 DEF AllLive, Bounded
  <2>6. CacheInv(cache, Held)'
    BY <1>2, <2>1, <2>2
  <2> QED
    BY <1>1, <2>3, <2>4, <2>5, <2>6 DEF IInv
<1>8. CASE h # NoHandle
  <2>0. h \in Listed(cache) /\ cache.heap[h].key = k
    BY <1>5, <1>8
  <2>1. /\ want' = [want EXCEPT ![r] = k] /\ handle' = [handle EXCEPT ![r] = h]
        /\ pc' = [pc EXCEPT ![r] = "use"] /\ cache' = CacheLookup(cache, h)
    BY <1>3, <1>8
  <2> HIDE DEF h
  <2>2. h \in DOMAIN cache.heap /\ h \in Handle
    BY <1>2, <2>0, HeapIs DEF CacheInv, OnePerKey
  <2>3. LET x == CacheLookup(cache, h)
        IN  /\ CacheInv(x, [Held EXCEPT ![h] = @ + 1])
            /\ Kept(x, cache) /\ DOMAIN x.heap = DOMAIN cache.heap
            /\ x.usage = cache.usage
    BY <1>2, <1>6, <2>0, LookupKeeps
  <2>4. /\ CacheInv(cache', [Held EXCEPT ![h] = @ + 1])
        /\ Kept(cache', cache) /\ DOMAIN cache'.heap = DOMAIN cache.heap
        /\ cache'.usage = cache.usage
    BY <2>1, <2>3, Zenon
  <2>5. Held' = [Held EXCEPT ![h] = @ + 1]
    BY <1>1, <1>2, <2>1, <2>2, HeldMore
  <2>6. CacheInv(cache, Held)'
    BY <2>4, <2>5, Zenon
  <2>7. ReaderTypes'
    BY <1>1, <1>2, <1>4, <2>1, <2>2 DEF ReaderTypes
  <2>8. \A g \in DOMAIN cache.heap : cache'.heap[g].key = cache.heap[g].key
    BY <2>4 DEF Kept
  <2>9. ReadersSafe'
    <3> SUFFICES ASSUME NEW q \in Readers
                 PROVE  /\ pc'[q] # "idle" => want'[q] \in live' /\ ~closed'
                        /\ pc'[q] = "use" => /\ handle'[q] \in DOMAIN cache'.heap
                                             /\ cache'.heap[handle'[q]].key = want'[q]
      BY DEF ReadersSafe
    <3>1. CASE q = r
      <4>1. want'[q] = k /\ handle'[q] = h /\ pc'[q] = "use"
        BY <1>2, <2>1, <3>1 DEF ReaderTypes
      <4> QED
        BY <1>1, <2>0, <2>2, <2>4, <2>8, <4>1
    <3>2. CASE q # r
      <4>1. want'[q] = want[q] /\ handle'[q] = handle[q] /\ pc'[q] = pc[q]
        BY <1>2, <2>1, <3>2 DEF ReaderTypes
      <4>2. /\ pc[q] # "idle" => want[q] \in live /\ ~closed
            /\ pc[q] = "use" => /\ handle[q] \in DOMAIN cache.heap
                                /\ cache.heap[handle[q]].key = want[q]
        BY <1>2 DEF ReadersSafe
      <4> QED
        BY <1>1, <2>4, <2>8, <4>1, <4>2
    <3> QED
      BY <3>1, <3>2
  <2>10. AllLive'
    BY <1>1, <1>2, <2>4 DEF AllLive, Kept
  <2>11. Bounded'
    <3>1. cache.lru # <<>>
      BY <2>0 DEF Listed
    <3> QED
      BY <1>2, <2>4, <3>1 DEF Bounded
  <2> QED
    BY <1>1, <2>6, <2>7, <2>9, <2>10, <2>11 DEF IInv
<1> QED
  BY <1>7, <1>8

LEMMA FillInv ==
  ASSUME IInv, NEW r \in Readers, Fill(r)
  PROVE  IInv'
<1> DEFINE e == Min(Handle \ DOMAIN cache.heap)
           k == want[r]
           c == cache
           y == Discard(TableInsert(Linked(c, k, e), e), TableLookup(c, k))
           more == [Held EXCEPT ![e] = 1]
<1>1. pc[r] = "miss" /\ UNCHANGED <<want, live, closed>>
  BY DEF Fill
<1>2. ReaderTypes /\ ReadersSafe /\ AllLive /\ ~closed /\ k \in live /\ CacheInv(c, Held)
  BY <1>1 DEF IInv, ReadersSafe
<1>3. /\ cache' = CacheInsert(c, k, e)
      /\ handle' = [handle EXCEPT ![r] = e]
      /\ pc' = [pc EXCEPT ![r] = "use"]
  BY DEF Fill
<1>4. e \in Handle /\ e \notin DOMAIN c.heap
  BY <1>2, FreeHandle
<1>5. k \in Files
  BY <1>2 DEF ReaderTypes
<1>6. Held \in [Handle -> Nat]
  BY HeldType
<1> HIDE DEF e, k, c
<1>7. /\ CacheInv(y, more)
      /\ \A g \in DOMAIN y.heap : \/ g = e /\ y.heap[g].key = k
                                  \/ g \in DOMAIN c.heap /\ y.heap[g].key = c.heap[g].key
  BY <1>2, <1>4, <1>5, <1>6, InsertedInv
<1>8. cache' = Shrunk(y)
  BY <1>3 DEF CacheInsert
<1> HIDE DEF y
<1>9. more \in [Handle -> Nat] /\ more[e] > 0
  BY <1>4, <1>6
<1>10. LET s == Shrunk(y)
       IN  /\ CacheInv(s, more) /\ Kept(s, y)
           /\ s.usage > capacity_ => s.lru = <<>>
  BY <1>7, <1>9, ShrunkKeeps
<1>11. /\ CacheInv(cache', more) /\ Kept(cache', y)
       /\ cache'.usage > capacity_ => cache'.lru = <<>>
  BY <1>8, <1>10, Zenon
<1>12. \A g \in DOMAIN cache'.heap :
         \/ g = e /\ cache'.heap[g].key = k
         \/ g \in DOMAIN c.heap /\ cache'.heap[g].key = c.heap[g].key
  BY <1>7, <1>11 DEF Kept
<1>13. Held' = more
  <2>1. Held' = [Held EXCEPT ![e] = @ + 1]
    BY <1>1, <1>2, <1>3, <1>4, HeldMore
  <2>2. ~(Held[e] > 0)
    BY <1>2, <1>4 DEF CacheInv, RefsMatch
  <2>3. Held[e] = 0
    BY <1>4, <1>6, <2>2
  <2> QED
    BY <1>6, <2>1, <2>3
<1>14. CacheInv(cache, Held)'
  BY <1>11, <1>13, Zenon
<1>15. \A g \in Handle : more[g] > 0 => g \in DOMAIN cache'.heap
  BY <1>11 DEF CacheInv, RefsMatch
<1>16. ReaderTypes'
  BY <1>1, <1>2, <1>3, <1>4 DEF ReaderTypes
<1>17. ReadersSafe'
  <2> SUFFICES ASSUME NEW q \in Readers
               PROVE  /\ pc'[q] # "idle" => want'[q] \in live' /\ ~closed'
                      /\ pc'[q] = "use" => /\ handle'[q] \in DOMAIN cache'.heap
                                           /\ cache'.heap[handle'[q]].key = want'[q]
    BY DEF ReadersSafe
  <2>1. CASE q = r
    <3>1. want'[q] = k /\ handle'[q] = e /\ pc'[q] = "use"
      BY <1>1, <1>2, <1>3, <2>1 DEF ReaderTypes, k
    <3>2. e \in DOMAIN cache'.heap
      BY <1>4, <1>9, <1>15
    <3> QED
      BY <1>1, <1>2, <1>4, <1>12, <3>1, <3>2
  <2>2. CASE q # r
    <3>1. want'[q] = want[q] /\ handle'[q] = handle[q] /\ pc'[q] = pc[q]
      BY <1>1, <1>2, <1>3, <2>2 DEF ReaderTypes
    <3>2. /\ pc[q] # "idle" => want[q] \in live /\ ~closed
          /\ pc[q] = "use" => /\ handle[q] \in DOMAIN c.heap
                              /\ c.heap[handle[q]].key = want[q]
      BY <1>2 DEF ReadersSafe, c
    <3>3. ASSUME pc[q] = "use"
          PROVE  handle[q] \in DOMAIN cache'.heap /\ handle[q] # e
      <4>1. handle[q] \in Handle /\ Held[handle[q]] > 0
        BY <3>3, UseHeld
      <4>2. handle[q] # e
        BY <1>4, <3>2, <3>3
      <4>3. more[handle[q]] = Held[handle[q]]
        BY <1>6, <4>1, <4>2
      <4> QED
        BY <1>15, <4>1, <4>2, <4>3
    <3> QED
      BY <1>1, <1>12, <3>1, <3>2, <3>3
  <2> QED
    BY <2>1, <2>2
<1>18. AllLive'
  BY <1>1, <1>2, <1>12 DEF AllLive, c
<1>19. Bounded'
  BY <1>11 DEF Bounded
<1> QED
  BY <1>1, <1>2, <1>14, <1>16, <1>17, <1>18, <1>19 DEF IInv

LEMMA FillFailsInv ==
  ASSUME IInv, NEW r \in Readers, FillFails(r)
  PROVE  IInv'
<1>1. /\ pc[r] = "miss" /\ pc' = [pc EXCEPT ![r] = "idle"]
      /\ UNCHANGED <<cache, want, handle, live, closed>>
  BY DEF FillFails
<1>2. ReaderTypes /\ ReadersSafe /\ AllLive /\ Bounded
      /\ (~closed => CacheInv(cache, Held)) /\ (closed => Gone)
  BY DEF IInv
<1>3. \A q \in Readers : pc'[q] = IF q = r THEN "idle" ELSE pc[q]
  BY <1>1, <1>2 DEF ReaderTypes
<1>4. Held' = Held
  <2>1. \A q \in Readers : \A g \in Handle :
          (pc'[q] = "use" /\ handle'[q] = g) <=> (pc[q] = "use" /\ handle[q] = g)
    BY <1>1, <1>3
  <2> QED
    BY <2>1, HeldSame
<1>5. ReaderTypes'
  BY <1>1, <1>2 DEF ReaderTypes
<1>6. ReadersSafe'
  BY <1>1, <1>2, <1>3 DEF ReadersSafe
<1>7. AllLive' /\ Bounded' /\ Gone' = Gone
  BY <1>1, <1>2 DEF AllLive, Bounded, Gone
<1>8. ~closed' => CacheInv(cache, Held)'
  BY <1>1, <1>2, <1>4
<1> QED
  BY <1>1, <1>2, <1>5, <1>6, <1>7, <1>8 DEF IInv

LEMMA ReleaseInv ==
  ASSUME IInv, NEW r \in Readers, Release(r)
  PROVE  IInv'
<1> DEFINE h == handle[r]
           less == [Held EXCEPT ![h] = @ - 1]
<1>1. /\ pc[r] = "use" /\ cache' = Unref(cache, h)
      /\ handle' = [handle EXCEPT ![r] = NoHandle]
      /\ pc' = [pc EXCEPT ![r] = "idle"]
      /\ UNCHANGED <<want, live, closed>>
  BY DEF Release
<1>2. ReaderTypes /\ ReadersSafe /\ AllLive /\ Bounded
  BY DEF IInv
<1>3. ~closed /\ CacheInv(cache, Held) /\ h \in Handle /\ Held[h] > 0
  BY <1>1, UseHeld
<1>4. Held \in [Handle -> Nat]
  BY HeldType
<1>5. Held' = less
  BY <1>1, <1>2, <1>3, HeldLess
<1>h. h = handle[r]
  OBVIOUS
<1> HIDE DEF h
<1>6. LET u == Unref(cache, h)
      IN  /\ CacheInv(u, less)
          /\ Kept(u, cache) /\ u.usage <= cache.usage /\ u.lru = cache.lru
          /\ \A g \in DOMAIN cache.heap : g # h => g \in DOMAIN u.heap
          /\ Held[h] > 1 => h \in DOMAIN u.heap
  BY <1>3, <1>4, ReleaseKeeps
<1> HIDE DEF less
<1>7. /\ CacheInv(cache', less)
      /\ Kept(cache', cache) /\ cache'.usage <= cache.usage /\ cache'.lru = cache.lru
      /\ \A g \in DOMAIN cache.heap : g # h => g \in DOMAIN cache'.heap
      /\ Held[h] > 1 => h \in DOMAIN cache'.heap
  BY <1>1, <1>6, Zenon
<1>8. CacheInv(cache, Held)'
  BY <1>5, <1>7, Zenon
<1>9. ReaderTypes'
  BY <1>1, <1>2 DEF ReaderTypes
<1>10. ReadersSafe'
  <2> SUFFICES ASSUME NEW q \in Readers
               PROVE  /\ pc'[q] # "idle" => want'[q] \in live' /\ ~closed'
                      /\ pc'[q] = "use" => /\ handle'[q] \in DOMAIN cache'.heap
                                           /\ cache'.heap[handle'[q]].key = want'[q]
    BY DEF ReadersSafe
  <2>1. CASE q = r
    BY <1>1, <1>2, <2>1 DEF ReaderTypes
  <2>2. CASE q # r
    <3>1. want'[q] = want[q] /\ handle'[q] = handle[q] /\ pc'[q] = pc[q]
      BY <1>1, <1>2, <2>2 DEF ReaderTypes
    <3>2. /\ pc[q] # "idle" => want[q] \in live /\ ~closed
          /\ pc[q] = "use" => /\ handle[q] \in DOMAIN cache.heap
                              /\ cache.heap[handle[q]].key = want[q]
      BY <1>2 DEF ReadersSafe
    <3>3. ASSUME pc[q] = "use"
          PROVE  handle[q] \in DOMAIN cache'.heap
      <4>1. CASE handle[q] # h
        BY <1>7, <3>2, <3>3, <4>1
      <4>2. CASE handle[q] = h
        <5> DEFINE S == Holders(h)
        <5>1. IsFiniteSet(S) /\ Held[h] = Cardinality(S)
          BY <1>3, HeldType
        <5>2. r \in S /\ q \in S \ {r}
          BY <1>1, <1>h, <2>2, <3>3, <4>2 DEF Holders
        <5> HIDE DEF S
        <5>3. IsFiniteSet(S \ {r}) /\ Cardinality(S \ {r}) = Cardinality(S) - 1
          BY <5>1, <5>2, FS_RemoveElement
        <5>4. Cardinality(S \ {r}) # 0 /\ Cardinality(S \ {r}) \in Nat /\ Cardinality(S) \in Nat
          BY <5>1, <5>2, <5>3, FS_EmptySet, FS_CardinalityType
        <5>5. Held[h] > 1
          BY <5>1, <5>3, <5>4
        <5> QED
          BY <1>7, <4>2, <5>5
      <4> QED
        BY <4>1, <4>2
    <3> QED
      BY <1>1, <1>7, <3>1, <3>2, <3>3 DEF Kept
  <2> QED
    BY <2>1, <2>2
<1>11. AllLive'
  BY <1>1, <1>2, <1>7 DEF AllLive, Kept
<1>12. Bounded'
  <2>1. cache.usage \in Int /\ cache'.usage \in Int /\ capacity_ \in Nat
    BY <1>3, <1>7, LruIs, CacheAssumption DEF CacheInv
  <2> QED
    BY <1>2, <1>7, <2>1 DEF Bounded
<1> QED
  BY <1>1, <1>3, <1>8, <1>9, <1>10, <1>11, <1>12 DEF IInv

LEMMA EvictInv ==
  ASSUME IInv, NEW k \in Files, Evict(k)
  PROVE  IInv'
<1>1. /\ ~closed /\ k \in live /\ live' = live \ {k} /\ cache' = Erase(cache, k)
      /\ \A r \in Readers : pc[r] # "idle" => want[r] # k
      /\ UNCHANGED <<pc, want, handle, closed>>
  BY DEF Evict
<1>2. ReaderTypes /\ ReadersSafe /\ AllLive /\ Bounded /\ CacheInv(cache, Held)
  BY <1>1 DEF IInv
<1>3. Held \in [Handle -> Nat]
  BY HeldType
<1>4. \A h \in DOMAIN cache.heap : Held[h] > 0 => cache.heap[h].key # k
  <2> SUFFICES ASSUME NEW h \in DOMAIN cache.heap, Held[h] > 0
               PROVE  cache.heap[h].key # k
    OBVIOUS
  <2>1. h \in Handle
    BY <1>2, HeapIs DEF CacheInv
  <2>2. PICK r \in Readers : pc[r] = "use" /\ handle[r] = h
    BY <2>1, HeldType DEF Holders
  <2> QED
    BY <1>1, <1>2, <2>2 DEF ReadersSafe
<1>5. LET x == Erase(cache, k)
      IN  /\ CacheInv(x, Held) /\ Kept(x, cache)
          /\ x.usage > capacity_ => x.lru = <<>>
          /\ \A g \in DOMAIN x.heap : x.heap[g].key # k
          /\ \A g \in DOMAIN cache.heap : Held[g] > 0 => g \in DOMAIN x.heap
  BY <1>2, <1>3, <1>4, EraseKeeps DEF Bounded
<1>6. /\ CacheInv(cache', Held) /\ Kept(cache', cache)
      /\ cache'.usage > capacity_ => cache'.lru = <<>>
      /\ \A g \in DOMAIN cache'.heap : cache'.heap[g].key # k
      /\ \A g \in DOMAIN cache.heap : Held[g] > 0 => g \in DOMAIN cache'.heap
  BY <1>1, <1>5, Zenon
<1>7. Held' = Held
  BY <1>1, HeldSame
<1>8. CacheInv(cache, Held)'
  BY <1>6, <1>7, Zenon
<1>9. ReaderTypes'
  BY <1>1, <1>2 DEF ReaderTypes
<1>10. ReadersSafe'
  <2> SUFFICES ASSUME NEW q \in Readers
               PROVE  /\ pc[q] # "idle" => want[q] \in live' /\ ~closed
                      /\ pc[q] = "use" => /\ handle[q] \in DOMAIN cache'.heap
                                          /\ cache'.heap[handle[q]].key = want[q]
    BY <1>1 DEF ReadersSafe
  <2>1. /\ pc[q] # "idle" => want[q] \in live /\ ~closed
        /\ pc[q] = "use" => /\ handle[q] \in DOMAIN cache.heap
                            /\ cache.heap[handle[q]].key = want[q]
    BY <1>2 DEF ReadersSafe
  <2>2. pc[q] = "use" => Held[handle[q]] > 0
    BY UseHeld
  <2>3. pc[q] = "use" => handle[q] \in DOMAIN cache'.heap
    BY <1>6, <2>1, <2>2
  <2> QED
    BY <1>1, <1>6, <2>1, <2>3 DEF Kept
<1>11. AllLive' /\ Bounded'
  BY <1>1, <1>2, <1>6 DEF AllLive, Bounded, Kept
<1> QED
  BY <1>1, <1>8, <1>9, <1>10, <1>11 DEF IInv

LEMMA CloseInv ==
  ASSUME IInv, Close
  PROVE  IInv'
<1>1. /\ ~closed /\ \A r \in Readers : pc[r] = "idle"
      /\ cache' = Destroyed(cache) /\ closed' = TRUE
      /\ UNCHANGED <<pc, want, handle, live>>
  BY DEF Close
<1>2. ReaderTypes /\ CacheInv(cache, Held)
  BY <1>1 DEF IInv
<1>3. \A h \in Handle : Held[h] = 0
  <2>1. \A h \in Handle : Holders(h) = {}
    BY <1>1 DEF Holders
  <2>2. \A h \in Handle : Held[h] \in Nat /\ ~(Held[h] > 0)
    BY <2>1, HeldType
  <2> QED
    BY <2>2
<1>4. Held \in [Handle -> Nat]
  BY HeldType
<1>5. LET x == Destroyed(cache)
      IN  x \in Caches /\ DOMAIN x.heap = {} /\ x.usage = 0 /\ x.elems \in Nat
  BY <1>2, <1>3, <1>4, DestroyedEmpty
<1>6. /\ cache' \in Caches /\ DOMAIN cache'.heap = {} /\ cache'.usage = 0
      /\ cache'.elems \in Nat
  BY <1>1, <1>5, Zenon
<1>7. ReaderTypes' /\ ReadersSafe'
  BY <1>1, <1>2 DEF ReaderTypes, ReadersSafe
<1>8. AllLive' /\ Gone'
  BY <1>6 DEF AllLive, Gone
<1>9. Bounded'
  BY <1>6, CacheAssumption DEF Bounded
<1> QED
  BY <1>1, <1>7, <1>8, <1>9 DEF IInv

LEMMA StepInv == IInv /\ [Next]_vars => IInv'
<1> SUFFICES ASSUME IInv, [Next]_vars PROVE IInv'
  OBVIOUS
<1>1. ASSUME NEW r \in Readers, Find(r) \/ Fill(r) \/ FillFails(r) \/ Release(r)
      PROVE  IInv'
  BY <1>1, FindInv, FillInv, FillFailsInv, ReleaseInv
<1>2. ASSUME NEW k \in Files, Evict(k)
      PROVE  IInv'
  BY <1>2, EvictInv
<1>3. CASE Close
  BY <1>3, CloseInv
<1>4. CASE UNCHANGED vars
  <2>1. UNCHANGED <<cache, pc, want, handle, live, closed>>
    BY <1>4 DEF vars
  <2>2. Held' = Held
    BY <2>1, HeldSame
  <2>3. ReaderTypes' = ReaderTypes /\ ReadersSafe' = ReadersSafe
    BY <2>1 DEF ReaderTypes, ReadersSafe
  <2>4. AllLive' = AllLive /\ Bounded' = Bounded /\ Gone' = Gone
    BY <2>1 DEF AllLive, Bounded, Gone
  <2>5. CacheInv(cache, Held)' = CacheInv(cache, Held)
    BY <2>1, <2>2, Zenon
  <2> QED
    BY <2>1, <2>3, <2>4, <2>5 DEF IInv
<1> QED
  BY <1>1, <1>2, <1>3, <1>4 DEF Next

-----------------------------------------------------------------------------
(* The theorems.                                                           *)

LEMMA Invariance == Spec => []IInv
<1>1. Init => IInv
  BY InitInv
<1>2. IInv /\ [Next]_vars => IInv'
  BY StepInv
<1> QED
  BY <1>1, <1>2, PTL DEF Spec

LEMMA TypesOf == IInv => TypeOK
<1> SUFFICES ASSUME IInv PROVE TypeOK
  OBVIOUS
<1>1. ReaderTypes /\ cache \in Caches
  BY DEF IInv, CacheInv, Gone, ReaderTypes
<1>2. cache.usage \in Nat /\ cache.elems \in Nat
  <2>1. CASE closed
    BY <2>1 DEF IInv, Gone
  <2>2. CASE ~closed
    <3>1. cache.elems = Len(cache.lru) /\ cache.usage = Sum(ChargeOf(cache.heap))
      BY <2>2 DEF IInv, CacheInv, UsageExact
    <3>2. Len(cache.lru) \in Nat
      BY <1>1, LruIs
    <3>3. Sum(ChargeOf(cache.heap)) \in Nat
      BY <1>1, ChargeType, SumNat
    <3> QED
      BY <3>1, <3>2, <3>3
  <2> QED
    BY <1>1, <2>1, <2>2 DEF ReaderTypes
<1>3. \A h \in DOMAIN cache.heap :
        cache.heap[h] \in [key : Files, charge : Nat, refs : Nat \ {0}]
  <2> SUFFICES ASSUME NEW h \in DOMAIN cache.heap
               PROVE  cache.heap[h] \in [key : Files, charge : Nat, refs : Nat \ {0}]
    OBVIOUS
  <2>1. cache.heap[h] \in Entry
    BY <1>1, HeapIs
  <2>2. ~closed
    BY <1>1 DEF IInv, Gone, ReaderTypes
  <2>3. cache.heap[h].refs >= 1
    BY <2>2 DEF IInv, CacheInv, RefsMatch
  <2>4. cache.heap[h].refs \in Nat \ {0}
    BY <2>1, <2>3 DEF Entry
  <2> QED
    BY <2>1, <2>4 DEF Entry
<1>4. DOMAIN cache.heap \subseteq Handle /\ cache.lru \in Seq(Handle)
  BY <1>1, HeapIs, LruIs
<1>5. \A b \in DOMAIN cache.list : cache.list[b] \subseteq Handle
  BY <1>1, TableIs
<1> QED
  BY <1>1, <1>2, <1>3, <1>4, <1>5 DEF TypeOK, ReaderTypes

LEMMA RefsOf == IInv => RefsExact
<1> SUFFICES ASSUME IInv PROVE RefsExact
  OBVIOUS
<1>1. TypeOK
  BY TypesOf
<1>2. ASSUME ~closed, NEW h \in DOMAIN cache.heap
      PROVE  cache.heap[h].refs =
               Cardinality(Holders(h)) + (IF h \in Cached THEN 1 ELSE 0)
  <2>1. CacheInv(cache, Held)
    BY <1>2 DEF IInv
  <2>2. h \in Handle
    BY <2>1, HeapIs DEF CacheInv
  <2>3. Held[h] = Cardinality(Holders(h))
    BY <2>2, HeldType
  <2>4. cache.heap[h].refs = Held[h] + (IF h \in Listed(cache) THEN 1 ELSE 0)
    BY <2>1 DEF CacheInv, RefsMatch
  <2>5. Listed(cache) = Cached
    BY Zenon DEF Listed, Cached
  <2> QED
    BY <2>3, <2>4, <2>5
<1>3. \A r \in Readers :
        pc[r] = "use" => /\ handle[r] \in DOMAIN cache.heap
                         /\ cache.heap[handle[r]].key = want[r]
  BY DEF IInv, ReadersSafe
<1> QED
  BY <1>1, <1>2, <1>3 DEF RefsExact

LEMMA TableOf == IInv => TableMatchesList
<1> SUFFICES ASSUME IInv, ~closed
             PROVE  /\ Cardinality(Cached) = Len(cache.lru)
                    /\ InTable(cache) = Cached
                    /\ cache.elems = Len(cache.lru) /\ cache.elems <= Length(cache)
                    /\ \A b \in DOMAIN cache.list : \A h \in cache.list[b] :
                         /\ h \in DOMAIN cache.heap
                         /\ Bucket(cache, cache.heap[h].key) = b
                         /\ TableLookup(cache, cache.heap[h].key) = h
  BY DEF TableMatchesList
<1>1. CacheInv(cache, Held)
  BY DEF IInv
<1>2. /\ cache \in Caches /\ Distinct(cache.lru) /\ Listed(cache) \subseteq DOMAIN cache.heap
      /\ \A g, h \in Listed(cache) : cache.heap[g].key = cache.heap[h].key => g = h
      /\ InPlace(cache)
      /\ cache.elems = Len(cache.lru) /\ cache.elems <= Length(cache)
  BY <1>1 DEF CacheInv, OnePerKey
<1>3. Listed(cache) = Cached
  BY Zenon DEF Listed, Cached
<1>4. Cardinality(Cached) = Len(cache.lru)
  <2> DEFINE s == cache.lru
             n == Len(s)
  <2>1. s \in Seq(Handle) /\ n \in Nat /\ DOMAIN s = 1..n
    BY <1>2, LruIs
  <2>2. Cached = {s[i] : i \in 1..n}
    BY <2>1 DEF Cached
  <2>3. \A i, j \in 1..n : s[i] = s[j] => i = j
    BY <1>2, <2>1 DEF Distinct
  <2> DEFINE f == [i \in 1..n |-> s[i]]
  <2> HIDE DEF s, n
  <2>4. f \in Bijection(1..n, Cached)
    BY <2>2, <2>3 DEF Bijection, Injection, Surjection, IsInjective
  <2>5. ExistsBijection(1..n, Cached)
    BY <2>4 DEF ExistsBijection
  <2>6. IsFiniteSet(1..n) /\ Cardinality(1..n) = n
    <3>1. 1 \in Int /\ n \in Int
      BY <2>1
    <3>2. IsFiniteSet(1..n) /\ Cardinality(1..n) = IF 1 > n THEN 0 ELSE n - 1 + 1
      BY <3>1, FS_Interval, Zenon
    <3> QED
      BY <2>1, <3>2
  <2>7. Cardinality(Cached) = n
    BY <2>5, <2>6, FS_Bijection
  <2> QED
    BY <2>7 DEF n, s
<1>5. InTable(cache) = Cached
  BY <1>2, <1>3, InTableIs
<1>6. ASSUME NEW b \in DOMAIN cache.list, NEW h \in cache.list[b]
      PROVE  /\ h \in DOMAIN cache.heap
             /\ Bucket(cache, cache.heap[h].key) = b
             /\ TableLookup(cache, cache.heap[h].key) = h
  <2> DEFINE k == cache.heap[h].key
  <2>1. cache.list[b] = {g \in Listed(cache) : Bucket(cache, cache.heap[g].key) = b}
    BY <1>2, Zenon DEF InPlace
  <2>2. h \in Listed(cache) /\ h \in DOMAIN cache.heap /\ Bucket(cache, k) = b
    BY <1>2, <2>1
  <2>3. k \in Files
    BY <1>2, <2>2, HeapIs DEF Entry
  <2>4. TableLookup(cache, k) = h
    <3>1. TableLookup(cache, k) # NoHandle
      BY <1>1, <2>2, <2>3, TableLookupIs
    <3>2. /\ TableLookup(cache, k) \in Listed(cache)
          /\ cache.heap[TableLookup(cache, k)].key = k
      BY <1>1, <2>3, <3>1, TableLookupIs
    <3> QED
      BY <1>2, <2>2, <3>2
  <2> QED
    BY <2>2, <2>4
<1> QED
  BY <1>2, <1>4, <1>5, <1>6

LEMMA UsageOf == IInv => UsageBounded
<1> SUFFICES ASSUME IInv PROVE UsageBounded
  OBVIOUS
<1>1. CASE closed
  <2>1. DOMAIN cache.heap = {} /\ cache.usage = 0
    BY <1>1 DEF IInv, Gone
  <2>2. ChargeOf(cache.heap) = [h \in Handle |-> 0]
    BY <2>1 DEF ChargeOf
  <2> QED
    BY <2>1, <2>2, SumZero DEF UsageBounded, IInv, Bounded
<1>2. CASE ~closed
  BY <1>2 DEF IInv, CacheInv, UsageExact, UsageBounded, Bounded
<1> QED
  BY <1>1, <1>2 DEF IInv, ReaderTypes

LEMMA StaleOf == IInv => NoStaleTable
<1> SUFFICES ASSUME IInv, NEW h \in DOMAIN cache.heap
             PROVE  ~closed /\ cache.heap[h].key \in live
  BY DEF NoStaleTable
<1>1. ~closed
  BY DEF IInv, Gone, ReaderTypes
<1> QED
  BY <1>1 DEF IInv, AllLive

\* No entry is freed under an iterator, and none is kept that nobody refers to: refs
\* counts the readers and the list exactly, whatever is evicted, erased or replaced by
\* a second reader that missed too (cache.cpp:146-154, 201-212).  usage_ and elems_
\* never wrap.
THEOREM ReferencesExact == Spec => []RefsExact
BY Invariance, RefsOf, PTL

\* The hash table and the list hold the same entries, one per key, each where
\* FindPointer() looks for it, after any number of rehashings (cache.cpp:43-103).
THEOREM TableExact == Spec => []TableMatchesList
BY Invariance, TableOf, PTL

\* usage_ is the sum of the charges of the allocated entries, and above capacity_ the
\* cache keeps nothing that it could evict (cache.cpp:207-212).
THEOREM UsageExactlyBounded == Spec => []UsageBounded
BY Invariance, UsageOf, PTL

\* No table stays open for a file that was evicted and deleted, and none after the
\* destructor (db_impl.cpp:239-250).
THEOREM NothingStale == Spec => []NoStaleTable
BY Invariance, StaleOf, PTL
=============================================================================
