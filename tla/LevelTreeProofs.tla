-------------------------- MODULE LevelTreeProofs ---------------------------
(***************************************************************************)
(* Get() finds the newest write, for every set of keys, every number of    *)
(* levels and writes and every choice of flushes and compactions that the  *)
(* code leaves to sizes: LevelsDisjoint, NewerAbove and ReadsNewest of     *)
(* LevelTree.                                                              *)
(***************************************************************************)
EXTENDS LevelTree, FiniteSetTheorems, WellFoundedInduction, TLAPS

-----------------------------------------------------------------------------
(* The smallest and the largest of some numbers.                           *)

\* Min() of some numbers is one of them and the smallest.
LEMMA MinNat ==
  ASSUME NEW S, S \subseteq Nat, S # {}
  PROVE  Min(S) \in S /\ \A y \in S : Min(S) <= y
<1> DEFINE R == {ss \in Nat \X Nat : ss[1] < ss[2]}
<1>1. OpToRel(<, Nat) = R
  BY Zenon DEF OpToRel
<1>2. IsWellFoundedOn(R, Nat)
  BY <1>1, NatLessThanWellFounded, Zenon
<1>3. PICK x \in S : \A y \in S : ~(<<y, x>> \in R)
  BY <1>2, WFMin
<1>4. ASSUME NEW y \in S
      PROVE  x <= y
  <2>1. x \in Nat /\ y \in Nat
    OBVIOUS
  <2>2. ~(<<y, x>> \in R)
    BY <1>3
  <2>3. y < x => <<y, x>> \in R
    BY <2>1
  <2> HIDE DEF R
  <2> QED
    BY <2>1, <2>2, <2>3
<1> QED
  BY <1>4 DEF Min

\* Max() of some numbers that have a bound is one of them and the largest.
LEMMA MaxNat ==
  ASSUME NEW S, S \subseteq Nat, S # {}, NEW B \in Nat, \A y \in S : y <= B
  PROVE  Max(S) \in S /\ \A y \in S : y <= Max(S)
<1> DEFINE T == {n \in Nat : B - n \in S}
<1>1. PICK y \in S : TRUE
  OBVIOUS
<1>2. \A z \in S : B - z \in T
  OBVIOUS
<1>3. Min(T) \in T /\ \A z \in T : Min(T) <= z
  BY <1>1, <1>2, MinNat
<1>4. B - Min(T) \in S /\ \A z \in S : z <= B - Min(T)
  BY <1>2, <1>3
<1> HIDE DEF T
<1> QED
  BY <1>4 DEF Max

\* A finite set of numbers has a bound: in a list of its members, take the first that
\* would make the ones so far unbounded.
LEMMA FiniteBound ==
  ASSUME NEW S, S \subseteq Nat, IsFiniteSet(S)
  PROVE  \E b \in Nat : \A k \in S : k <= b
<1>0. PICK len \in Nat : ExistsBijection(1..len, S)
  BY FS_NatBijection
<1>1. PICK q \in [1..len -> S] : \A s \in S : \E n \in 1..len : q[n] = s
  BY <1>0 DEF ExistsBijection, Bijection, Surjection
<1> DEFINE Bounded(m) == \E b \in Nat : \A n \in 1..m : q[n] <= b
           Bad == {m \in 0..len : ~Bounded(m)}
<1>2. \A n \in 1..len : q[n] \in S /\ q[n] \in Nat
  OBVIOUS
<1>3. ASSUME NEW m \in Bad, \A y \in Bad : m <= y
      PROVE  FALSE
  <2>1. m # 0
    <3>1. Bounded(0)
      OBVIOUS
    <3> QED
      BY <3>1
  <2>2. m - 1 \in 0..len /\ m \in 1..len /\ ~(m <= m - 1)
    BY <2>1
  <2>3. PICK b \in Nat : \A n \in 1..(m - 1) : q[n] <= b
    BY <1>3, <2>2
  <2>4. q[m] \in Nat /\ \A n \in 1..m : n \in 1..(m - 1) \/ n = m
    BY <1>2, <2>2
  <2>5. ASSUME NEW n \in 1..m
        PROVE  q[n] <= b + q[m]
    <3>1. q[n] \in Nat
      BY <1>2, <2>2
    <3>2. CASE n \in 1..(m - 1)
      BY <2>3, <2>4, <3>1, <3>2
    <3>3. CASE n = m
      BY <2>4, <3>3
    <3> QED
      BY <2>4, <3>2, <3>3
  <2>6. b + q[m] \in Nat
    BY <2>4
  <2>7. Bounded(m)
    BY <2>5, <2>6
  <2> QED
    BY <2>7
<1>4. Bad \subseteq Nat
  OBVIOUS
<1>5. Bounded(len)
  <2> SUFFICES ASSUME ~Bounded(len) PROVE FALSE
    OBVIOUS
  <2>1. len \in Bad
    OBVIOUS
  <2> HIDE DEF Bad
  <2>2. Min(Bad) \in Bad /\ \A y \in Bad : Min(Bad) <= y
    BY <1>4, <2>1, MinNat
  <2> QED
    BY <1>3, <2>2
<1> QED
  BY <1>1, <1>5

-----------------------------------------------------------------------------
(* The inductive invariant.                                                *)

\* Two tables span no common user key.
Apart(t, u) ==
  RangeLimit({t}) < RangeStart({u}) \/ RangeLimit({u}) < RangeStart({t})

\* Every user key between the first and the last of the tables is spanned by one.
Connected(T) ==
  \A k \in Nat : RangeStart(T) <= k /\ k <= RangeLimit(T) =>
    \E t \in T : Overlaps(t, k, k)

\* The entries that Get() can come to.
Stored == mem_ \cup UNION {UNION files_[l] : l \in Level}

\* The sequence numbers at which somebody may read.
Views == snapshots_ \cup {last_sequence_}

\* Every entry stored was written, with a sequence number of its own.
HistoryInv ==
  /\ \A e \in history : e.seq <= last_sequence_
  /\ \A e, f \in history : e.seq = f.seq => e = f
  /\ Stored \subseteq history

\* The memtable is newer than the tables, and a table of level 0 than those flushed
\* before it.
FlushInv ==
  /\ \A e \in mem_ : \A l \in Level : \A t \in files_[l] : \A f \in t : e.seq > f.seq
  /\ \A t, u \in files_[0] :
       \/ t = u
       \/ \A e \in t, f \in u : e.seq < f.seq
       \/ \A e \in t, f \in u : e.seq > f.seq

\* Below level 0 the tables of a level follow one another, and a user key is in one of
\* them at most, unless an output ended inside it.
Precede(S, T) == \A e \in S, f \in T : Before(e, f)
Share(S, T) == \A e \in S, f \in T : e.key = f.key => e.key \in split
Follow(S, T) == (Precede(S, T) \/ Precede(T, S)) /\ Share(S, T)
SortedInv == \A l \in Level \ {0} : \A t, u \in files_[l] : t = u \/ Follow(t, u)

Inputs == compaction.inputs0 \cup compaction.inputs1

\* What a running compaction relies on, whatever is flushed meanwhile: its tables leave no
\* gap that a new table could fall into; a table of its level that it does not read has
\* newer entries, one of the next level comes before or after all it reads, and one further
\* down was there when it began or has none of its keys; no reader is behind
\* smallest_snapshot.
CompactionInv ==
  compaction.on =>
    /\ compaction.inputs0 # {} /\ Connected(Inputs)
    /\ \A u \in files_[compaction.level] \ compaction.inputs0 :
         \A e \in u, f \in UNION compaction.inputs0 : e.key = f.key => e.seq > f.seq \/ e.key \in split
    /\ \A u \in files_[compaction.level + 1] \ compaction.inputs1 : Follow(u, Input)
    /\ \A l \in Level : l >= compaction.level + 2 =>
         \A u \in files_[l] :
           u \in compaction.base[l] \/ \A e \in u, f \in Input : e.key # f.key
    /\ \A s \in Views : compaction.smallest_snapshot <= s

\* The newest write of a key in a view is stored, or it is a deletion and nothing is left
\* that it would hide; unless an output ended inside the key.
Last(e, s) ==
  /\ e.seq <= s
  /\ \A f \in history : f.key = e.key /\ f.seq <= s => f.seq <= e.seq
KeptInv ==
  \A s \in Views : \A e \in history : Last(e, s) /\ e.key \notin split =>
    \/ e \in Stored
    \/ e.type = "deletion" /\ \A f \in Stored : f.key = e.key => f.seq > s

TreeInv ==
  /\ TypeOK /\ HistoryInv /\ FlushInv /\ SortedInv /\ NewerAbove /\ CompactionInv
  /\ KeptInv

-----------------------------------------------------------------------------
(* The range of some tables.                                               *)

Table(t) == t \subseteq Entry /\ t # {}
TableSet(T) == T # {} /\ \A t \in T : Table(t)

LEMMA EntryNumbers ==
  ASSUME NEW e \in Entry
  PROVE  e.key \in Keys /\ e.key \in Nat /\ e.seq \in Nat /\ e.seq <= MaxWrites
<1>1. e.key \in Keys /\ e.seq \in 1..MaxWrites
  BY DEF Entry
<1>2. Keys \subseteq Nat /\ MaxWrites \in Nat
  BY TreeAssumption
<1>3. \A n \in 1..MaxWrites : n \in Nat /\ n <= MaxWrites
  BY <1>2
<1> QED
  BY <1>1, <1>2, <1>3, Zenon

LEMMA RangeIs ==
  ASSUME NEW T, TableSet(T)
  PROVE  /\ RangeStart(T) \in Keys /\ RangeLimit(T) \in Keys
         /\ RangeStart(T) \in Nat /\ RangeLimit(T) \in Nat
         /\ RangeStart(T) <= RangeLimit(T)
         /\ \E t \in T : \E e \in t : e.key = RangeStart(T)
         /\ \E t \in T : \E e \in t : e.key = RangeLimit(T)
         /\ \A t \in T : \A e \in t : RangeStart(T) <= e.key /\ e.key <= RangeLimit(T)
<1> DEFINE K == {e.key : e \in UNION T}
<1>1. PICK b \in Nat : \A k \in Keys : k <= b
  BY TreeAssumption, FiniteBound
<1>2. K \subseteq Keys /\ K \subseteq Nat /\ K # {} /\ \A k \in K : k <= b
  BY <1>1, EntryNumbers DEF TableSet, Table
<1>3. Min(K) \in K /\ \A y \in K : Min(K) <= y
  BY <1>2, MinNat
<1>4. Max(K) \in K /\ \A y \in K : y <= Max(K)
  BY <1>2, MaxNat
<1>5. RangeStart(T) = Min(K) /\ RangeLimit(T) = Max(K)
  BY DEF RangeStart, RangeLimit
<1>6. \A t \in T : \A e \in t : e.key \in K
  OBVIOUS
<1>7. \A k \in K : \E t \in T : \E e \in t : e.key = k
  OBVIOUS
<1> HIDE DEF K
<1> QED
  BY <1>2, <1>3, <1>4, <1>5, <1>6, <1>7

LEMMA TableRange ==
  ASSUME NEW t, Table(t)
  PROVE  /\ RangeStart({t}) \in Keys /\ RangeLimit({t}) \in Keys
         /\ RangeStart({t}) \in Nat /\ RangeLimit({t}) \in Nat
         /\ RangeStart({t}) <= RangeLimit({t})
         /\ \E e \in t : e.key = RangeStart({t})
         /\ \E e \in t : e.key = RangeLimit({t})
         /\ \A e \in t : RangeStart({t}) <= e.key /\ e.key <= RangeLimit({t})
<1>1. TableSet({t})
  BY DEF TableSet
<1> QED
  BY <1>1, RangeIs

\* The range of some tables is that of their outermost ones.
LEMMA RangeOver ==
  ASSUME NEW T, TableSet(T)
  PROVE  /\ \A t \in T : /\ RangeStart(T) <= RangeStart({t})
                         /\ RangeLimit({t}) <= RangeLimit(T)
         /\ \E t \in T : RangeStart({t}) = RangeStart(T)
         /\ \E t \in T : RangeLimit({t}) = RangeLimit(T)
<1>1. ASSUME NEW t \in T
      PROVE  RangeStart(T) <= RangeStart({t}) /\ RangeLimit({t}) <= RangeLimit(T)
  BY RangeIs, TableRange DEF TableSet
<1>2. PICK t \in T : \E e \in t : e.key = RangeStart(T)
  BY RangeIs
<1>3. PICK u \in T : \E e \in u : e.key = RangeLimit(T)
  BY RangeIs
<1>4. Table(t) /\ Table(u)
  BY DEF TableSet
<1>5. RangeStart({t}) = RangeStart(T)
  BY <1>1, <1>2, <1>4, TableRange, RangeIs
<1>6. RangeLimit({u}) = RangeLimit(T)
  BY <1>1, <1>3, <1>4, TableRange, RangeIs
<1> QED
  BY <1>1, <1>5, <1>6

\* A larger set of tables has a larger range.
LEMMA RangeGrows ==
  ASSUME NEW T, TableSet(T), NEW U, TableSet(U), T \subseteq U
  PROVE  RangeStart(U) <= RangeStart(T) /\ RangeLimit(T) <= RangeLimit(U)
<1>1. PICK t \in T : \E e \in t : e.key = RangeStart(T)
  BY RangeIs
<1>2. PICK u \in T : \E e \in u : e.key = RangeLimit(T)
  BY RangeIs
<1>3. t \in U /\ u \in U
  OBVIOUS
<1>4. \A v \in U : \A e \in v : RangeStart(U) <= e.key /\ e.key <= RangeLimit(U)
  BY RangeIs
<1>5. RangeStart(U) <= RangeStart(T)
  BY <1>1, <1>3, <1>4, Zenon
<1>6. RangeLimit(T) <= RangeLimit(U)
  BY <1>2, <1>3, <1>4, Zenon
<1> QED
  BY <1>5, <1>6

LEMMA ApartKeys ==
  ASSUME NEW t, Table(t), NEW u, Table(u), Apart(t, u), NEW e \in t, NEW f \in u
  PROVE  e.key # f.key
<1>1. e.key \in Nat /\ f.key \in Nat
  BY EntryNumbers DEF Table
<1>2. /\ RangeStart({t}) <= e.key /\ e.key <= RangeLimit({t})
      /\ RangeStart({t}) \in Nat /\ RangeLimit({t}) \in Nat
  BY TableRange
<1>3. /\ RangeStart({u}) <= f.key /\ f.key <= RangeLimit({u})
      /\ RangeStart({u}) \in Nat /\ RangeLimit({u}) \in Nat
  BY TableRange
<1> QED
  BY <1>1, <1>2, <1>3 DEF Apart

\* Tables that are apart follow one another.
LEMMA RangePrecede ==
  ASSUME NEW t, Table(t), NEW u, Table(u), RangeLimit({t}) < RangeStart({u})
  PROVE  Precede(t, u)
<1> SUFFICES ASSUME NEW e \in t, NEW f \in u PROVE Before(e, f)
  BY DEF Precede
<1>1. /\ e.key \in Nat /\ f.key \in Nat
      /\ e.key <= RangeLimit({t}) /\ RangeStart({u}) <= f.key
      /\ RangeLimit({t}) \in Nat /\ RangeStart({u}) \in Nat
  BY EntryNumbers, TableRange DEF Table
<1>2. e.key < f.key
  BY <1>1
<1> QED
  BY <1>2 DEF Before

LEMMA ApartFollow ==
  ASSUME NEW t, Table(t), NEW u, Table(u), Apart(t, u)
  PROVE  Follow(t, u) /\ Follow(u, t)
<1>1. Precede(t, u) \/ Precede(u, t)
  BY RangePrecede DEF Apart
<1>2. Share(t, u) /\ Share(u, t)
  BY ApartKeys DEF Share
<1> QED
  BY <1>1, <1>2 DEF Follow

\* What does not overlap is apart.
LEMMA OverlapIs ==
  ASSUME NEW t, Table(t), NEW u, Table(u)
  PROVE  /\ ~Overlaps(t, RangeStart({u}), RangeLimit({u})) <=> Apart(t, u)
         /\ Apart(t, u) <=> Apart(u, t)
BY TableRange DEF Overlaps, Apart

-----------------------------------------------------------------------------
(* The first and the last entry of a table.                                *)

OwnNumbers(t) == \A e, f \in t : e.seq = f.seq => e = f

LEMMA SmallestIs ==
  ASSUME NEW t, Table(t), OwnNumbers(t)
  PROVE  /\ Smallest(t) \in t /\ Smallest(t).key = RangeStart({t})
         /\ \A f \in t : f = Smallest(t) \/ Before(Smallest(t), f)
<1> DEFINE S == {e.seq : e \in {e \in t : e.key = RangeStart({t})}}
<1>1. S \subseteq Nat /\ MaxWrites \in Nat /\ \A y \in S : y <= MaxWrites
  BY EntryNumbers, TreeAssumption DEF Table
<1>2. S # {}
  BY TableRange
<1>3. Max(S) \in S /\ \A y \in S : y <= Max(S)
  BY <1>1, <1>2, MaxNat
<1>4. PICK e \in t : e.key = RangeStart({t}) /\ e.seq = Max(S)
  BY <1>3
<1>5. \A f \in t : f.key = RangeStart({t}) => f.seq <= Max(S)
  BY <1>3
<1> HIDE DEF S
<1>6. ASSUME NEW f \in t
      PROVE  f = e \/ Before(e, f)
  <2>1. /\ f.key \in Nat /\ f.seq \in Nat /\ e.key \in Nat /\ e.seq \in Nat
        /\ RangeStart({t}) <= f.key
    BY EntryNumbers, TableRange DEF Table
  <2>2. f.seq = e.seq => f = e
    BY DEF OwnNumbers
  <2> QED
    BY <1>4, <1>5, <2>1, <2>2 DEF Before
<1>7. /\ Smallest(t) \in t
      /\ \A f \in t : f = Smallest(t) \/ Before(Smallest(t), f)
  BY <1>6 DEF Smallest
<1>8. Smallest(t).key = RangeStart({t})
  <2>1. /\ Smallest(t).key \in Nat /\ e.key \in Nat
        /\ RangeStart({t}) <= Smallest(t).key
    BY <1>7, EntryNumbers, TableRange DEF Table
  <2> QED
    BY <1>4, <1>7, <2>1 DEF Before
<1> QED
  BY <1>7, <1>8

LEMMA LargestIs ==
  ASSUME NEW t, Table(t), OwnNumbers(t)
  PROVE  /\ Largest(t) \in t /\ Largest(t).key = RangeLimit({t})
         /\ \A f \in t : f = Largest(t) \/ Before(f, Largest(t))
<1> DEFINE S == {e.seq : e \in {e \in t : e.key = RangeLimit({t})}}
<1>1. S \subseteq Nat
  BY EntryNumbers DEF Table
<1>2. S # {}
  BY TableRange
<1>3. Min(S) \in S /\ \A y \in S : Min(S) <= y
  BY <1>1, <1>2, MinNat
<1>4. PICK e \in t : e.key = RangeLimit({t}) /\ e.seq = Min(S)
  BY <1>3
<1>5. \A f \in t : f.key = RangeLimit({t}) => Min(S) <= f.seq
  BY <1>3
<1> HIDE DEF S
<1>6. ASSUME NEW f \in t
      PROVE  f = e \/ Before(f, e)
  <2>1. /\ f.key \in Nat /\ f.seq \in Nat /\ e.key \in Nat /\ e.seq \in Nat
        /\ f.key <= RangeLimit({t})
    BY EntryNumbers, TableRange DEF Table
  <2>2. f.seq = e.seq => f = e
    BY DEF OwnNumbers
  <2> QED
    BY <1>4, <1>5, <2>1, <2>2 DEF Before
<1>7. /\ Largest(t) \in t
      /\ \A f \in t : f = Largest(t) \/ Before(f, Largest(t))
  BY <1>6 DEF Largest
<1>8. Largest(t).key = RangeLimit({t})
  <2>1. /\ Largest(t).key \in Nat /\ e.key \in Nat
        /\ Largest(t).key <= RangeLimit({t})
    BY <1>7, EntryNumbers, TableRange DEF Table
  <2> QED
    BY <1>4, <1>7, <2>1 DEF Before
<1> QED
  BY <1>7, <1>8

-----------------------------------------------------------------------------
(* GetOverlappingInputs.                                                   *)

LEMMA OverlapsAt ==
  ASSUME NEW t, Table(t), NEW lo \in Nat, NEW hi \in Nat
  PROVE  /\ RangeStart({t}) \in Nat /\ RangeLimit({t}) \in Nat
         /\ RangeStart({t}) \in Keys /\ RangeLimit({t}) \in Keys
         /\ RangeStart({t}) <= RangeLimit({t})
         /\ Overlaps(t, lo, hi) <=> RangeStart({t}) <= hi /\ lo <= RangeLimit({t})
<1>1. /\ RangeStart({t}) \in Nat /\ RangeLimit({t}) \in Nat
      /\ RangeStart({t}) \in Keys /\ RangeLimit({t}) \in Keys
      /\ RangeStart({t}) <= RangeLimit({t})
  BY TableRange
<1> QED
  BY <1>1 DEF Overlaps

\* The range it settles on in level 0: it covers every table it meets, and has no key
\* outside lo..hi that none of them spans.
LEMMA OverlapLevel0 ==
  ASSUME NEW v, \A t \in v[0] : Table(t),
         NEW lo \in Keys, NEW hi \in Keys, lo <= hi
  PROVE  \E start, limit \in Keys :
           /\ start <= lo /\ hi <= limit
           /\ \A t \in v[0] : Overlaps(t, start, limit) =>
                start <= RangeStart({t}) /\ RangeLimit({t}) <= limit
           /\ GetOverlappingInputs(v, 0, lo, hi) =
                {t \in v[0] : Overlaps(t, start, limit)}
           /\ \A g \in Nat : start <= g /\ g <= limit =>
                \/ lo <= g /\ g <= hi
                \/ \E t \in v[0] : Overlaps(t, start, limit) /\ Overlaps(t, g, g)
<1> DEFINE covering == {r \in Keys \X Keys : Covers(v[0], lo, hi, r)}
           A == {r[1] : r \in covering}
           B == {r[2] : r \in covering}
           start == Max(A)
           limit == Min(B)
<1>0. Keys \subseteq Nat /\ lo \in Nat /\ hi \in Nat
  BY TreeAssumption
<1>1. PICK b \in Nat : \A k \in Keys : k <= b
  BY TreeAssumption, FiniteBound
<1>2. Max(Keys) \in Keys /\ \A k \in Keys : k <= Max(Keys)
  BY <1>0, <1>1, MaxNat
<1>3. Min(Keys) \in Keys /\ \A k \in Keys : Min(Keys) <= k
  BY <1>0, MinNat
<1>4. \A t \in v[0] : /\ RangeStart({t}) \in Keys /\ RangeLimit({t}) \in Keys
                      /\ RangeStart({t}) <= RangeLimit({t})
  BY TableRange
<1>5. <<Min(Keys), Max(Keys)>> \in covering
  <2>1. Covers(v[0], lo, hi, <<Min(Keys), Max(Keys)>>)
    BY <1>2, <1>3, <1>4 DEF Covers
  <2> QED
    BY <1>2, <1>3, <2>1
<1>6. A \subseteq Keys /\ B \subseteq Keys /\ A # {} /\ B # {}
  BY <1>5
<1>7. start \in A /\ \A a \in A : a <= start
  BY <1>0, <1>1, <1>6, MaxNat
<1>8. limit \in B /\ \A y \in B : limit <= y
  BY <1>0, <1>6, MinNat
<1>9. PICK r \in covering : r[1] = start
  BY <1>7
<1>10. PICK q \in covering : q[2] = limit
  BY <1>8
<1>11. ASSUME NEW x \in Keys, NEW y \in Keys, Covers(v[0], lo, hi, <<x, y>>)
       PROVE  x <= start /\ limit <= y
  <2>1. <<x, y>> \in covering
    BY <1>11
  <2>2. x \in A /\ y \in B
    BY <2>1
  <2> QED
    BY <2>2, <1>7, <1>8
<1>12. /\ r[1] \in Keys /\ r[2] \in Keys /\ q[1] \in Keys /\ q[2] \in Keys
       /\ Covers(v[0], lo, hi, r) /\ Covers(v[0], lo, hi, q)
       /\ r[2] \in B /\ q[1] \in A
  OBVIOUS
<1>13. /\ start \in Keys /\ limit \in Keys /\ start \in Nat /\ limit \in Nat
       /\ start <= lo /\ hi <= limit /\ limit <= r[2] /\ q[1] <= start
       /\ r[2] \in Nat /\ q[1] \in Nat
  BY <1>0, <1>6, <1>7, <1>8, <1>9, <1>10, <1>12 DEF Covers
<1>14. GetOverlappingInputs(v, 0, lo, hi) = {t \in v[0] : Overlaps(t, start, limit)}
  BY DEF GetOverlappingInputs
<1> HIDE DEF start, limit, covering
<1>15. ASSUME NEW t \in v[0], Overlaps(t, start, limit)
       PROVE  start <= RangeStart({t}) /\ RangeLimit({t}) <= limit
  <2>1. RangeStart({t}) \in Nat /\ RangeLimit({t}) \in Nat
    BY TableRange
  <2>2. RangeStart({t}) <= limit /\ RangeLimit({t}) >= start
    BY <1>15 DEF Overlaps
  <2>3. Overlaps(t, r[1], r[2]) /\ Overlaps(t, q[1], q[2])
    BY <2>1, <2>2, <1>9, <1>10, <1>13 DEF Overlaps
  <2> QED
    BY <2>3, <1>9, <1>10, <1>12 DEF Covers
<1>16. ASSUME NEW g \in Nat, hi < g, g <= limit,
              \A t \in v[0] : Overlaps(t, start, limit) => ~Overlaps(t, g, g)
       PROVE  FALSE
  <2> DEFINE X == {hi} \cup {k \in Keys : k < g /\ hi <= k}
             Y == {k \in X : k = hi \/ \E t \in v[0] : Overlaps(t, start, limit)
                                                      /\ k = RangeLimit({t})}
  <2>a. /\ X \subseteq Keys /\ hi \in Y /\ Y \subseteq X
        /\ \A k \in X : k < g /\ hi <= k
    BY <1>0, <1>16
  <2>1. /\ Y \subseteq Keys /\ Y \subseteq Nat /\ Y # {}
        /\ \A k \in Y : k <= b /\ k < g /\ hi <= k
    <3> HIDE DEF X, Y
    <3> QED
      BY <2>a, <1>0, <1>1
  <2>2. Max(Y) \in Y /\ \A k \in Y : k <= Max(Y)
    BY <2>1, MaxNat
  <2>3. Max(Y) \in Keys /\ Max(Y) \in Nat /\ Max(Y) < g /\ hi <= Max(Y)
    BY <2>1, <2>2
  <2>4. ASSUME NEW t \in v[0], Overlaps(t, start, Max(Y))
        PROVE  start <= RangeStart({t}) /\ RangeLimit({t}) <= Max(Y)
    <3>1. /\ RangeStart({t}) \in Nat /\ RangeLimit({t}) \in Nat
          /\ RangeLimit({t}) \in Keys /\ RangeStart({t}) <= RangeLimit({t})
      BY TableRange
    <3>2. RangeStart({t}) <= Max(Y) /\ RangeLimit({t}) >= start
      BY <2>4 DEF Overlaps
    <3>3. Overlaps(t, start, limit)
      BY <3>1, <3>2, <2>3, <1>13, <1>16 DEF Overlaps
    <3>4. ~Overlaps(t, g, g)
      BY <3>3, <1>16
    <3>5. RangeLimit({t}) < g
      BY <3>4, <3>1, <3>2, <2>3 DEF Overlaps
    <3>6. hi <= RangeLimit({t}) => RangeLimit({t}) \in Y
      BY <3>1, <3>3, <3>5
    <3>7. start <= RangeStart({t}) /\ RangeLimit({t}) <= limit
      BY <3>3, <1>15
    <3> HIDE DEF Y
    <3> QED
      BY <3>1, <3>6, <3>7, <2>2, <2>3, <1>0
  <2>5. Covers(v[0], lo, hi, <<start, Max(Y)>>)
    BY <2>3, <2>4, <1>13 DEF Covers
  <2>6. limit <= Max(Y)
    BY <2>3, <2>5, <1>11, <1>13
  <2> QED
    BY <2>3, <2>6, <1>13, <1>16
<1>17. ASSUME NEW g \in Nat, g < lo, start <= g,
              \A t \in v[0] : Overlaps(t, start, limit) => ~Overlaps(t, g, g)
       PROVE  FALSE
  <2> DEFINE X == {lo} \cup {k \in Keys : g < k /\ k <= lo}
             Y == {k \in X : k = lo \/ \E t \in v[0] : Overlaps(t, start, limit)
                                                      /\ k = RangeStart({t})}
  <2>a. /\ X \subseteq Keys /\ lo \in Y /\ Y \subseteq X
        /\ \A k \in X : g < k /\ k <= lo
    BY <1>0, <1>17
  <2>1. /\ Y \subseteq Keys /\ Y \subseteq Nat /\ Y # {}
        /\ \A k \in Y : g < k /\ k <= lo
    <3> HIDE DEF X, Y
    <3> QED
      BY <2>a, <1>0
  <2>2. Min(Y) \in Y /\ \A k \in Y : Min(Y) <= k
    BY <2>1, MinNat
  <2>3. Min(Y) \in Keys /\ Min(Y) \in Nat /\ g < Min(Y) /\ Min(Y) <= lo
    BY <2>1, <2>2
  <2>4. ASSUME NEW t \in v[0], Overlaps(t, Min(Y), limit)
        PROVE  Min(Y) <= RangeStart({t}) /\ RangeLimit({t}) <= limit
    <3>1. /\ RangeStart({t}) \in Nat /\ RangeLimit({t}) \in Nat
          /\ RangeStart({t}) \in Keys /\ RangeStart({t}) <= RangeLimit({t})
      BY TableRange
    <3>2. RangeStart({t}) <= limit /\ RangeLimit({t}) >= Min(Y)
      BY <2>4 DEF Overlaps
    <3>3. Overlaps(t, start, limit)
      BY <3>1, <3>2, <2>3, <1>13, <1>17 DEF Overlaps
    <3>4. ~Overlaps(t, g, g)
      BY <3>3, <1>17
    <3>5. g < RangeStart({t})
      BY <3>4, <3>1, <3>2, <2>3 DEF Overlaps
    <3>6. RangeStart({t}) <= lo => RangeStart({t}) \in Y
      BY <3>1, <3>3, <3>5
    <3>7. start <= RangeStart({t}) /\ RangeLimit({t}) <= limit
      BY <3>3, <1>15
    <3> HIDE DEF Y
    <3> QED
      BY <3>1, <3>6, <3>7, <2>2, <2>3, <1>0
  <2>5. Covers(v[0], lo, hi, <<Min(Y), limit>>)
    BY <2>3, <2>4, <1>13 DEF Covers
  <2>6. Min(Y) <= start
    BY <2>3, <2>5, <1>11, <1>13
  <2> QED
    BY <2>3, <2>6, <1>13, <1>17
<1>18. ASSUME NEW g \in Nat, start <= g, g <= limit
       PROVE  \/ lo <= g /\ g <= hi
              \/ \E t \in v[0] : Overlaps(t, start, limit) /\ Overlaps(t, g, g)
  BY <1>0, <1>16, <1>17, <1>18
<1> QED
  BY <1>13, <1>14, <1>15, <1>18

\* Tables that reach into a range without gaps leave none.
LEMMA ConnectedGrows ==
  ASSUME NEW C, TableSet(C), Connected(C),
         NEW D, \A t \in D : Table(t) /\ Overlaps(t, RangeStart(C), RangeLimit(C))
  PROVE  Connected(C \cup D)
<1>1. TableSet(C \cup D)
  BY DEF TableSet
<1>2. /\ RangeStart(C) \in Nat /\ RangeLimit(C) \in Nat
      /\ RangeStart(C \cup D) \in Nat /\ RangeLimit(C \cup D) \in Nat
  BY <1>1, RangeIs
<1>3. \A t \in C \cup D : /\ RangeStart({t}) \in Nat /\ RangeLimit({t}) \in Nat
                          /\ RangeStart({t}) <= RangeLimit({t})
  BY <1>1, TableRange DEF TableSet
<1>4. \A t \in C : RangeStart(C) <= RangeStart({t}) /\ RangeLimit({t}) <= RangeLimit(C)
  BY RangeOver
<1>5. \A t \in D : RangeStart({t}) <= RangeLimit(C) /\ RangeLimit({t}) >= RangeStart(C)
  BY DEF Overlaps
<1> SUFFICES ASSUME NEW k \in Nat,
                    RangeStart(C \cup D) <= k, k <= RangeLimit(C \cup D)
             PROVE  \E t \in C \cup D : Overlaps(t, k, k)
  BY DEF Connected
<1>6. CASE RangeStart(C) <= k /\ k <= RangeLimit(C)
  BY <1>6 DEF Connected
<1>7. CASE k < RangeStart(C)
  <2>1. PICK t \in C \cup D : RangeStart({t}) = RangeStart(C \cup D)
    BY <1>1, RangeOver
  <2>2. t \in D
    BY <2>1, <1>2, <1>4, <1>7
  <2>3. RangeStart({t}) <= k /\ RangeLimit({t}) >= k
    BY <2>1, <2>2, <1>2, <1>3, <1>5, <1>7
  <2> QED
    BY <2>3 DEF Overlaps
<1>8. CASE RangeLimit(C) < k
  <2>1. PICK t \in C \cup D : RangeLimit({t}) = RangeLimit(C \cup D)
    BY <1>1, RangeOver
  <2>2. t \in D
    BY <2>1, <1>2, <1>4, <1>8
  <2>3. RangeStart({t}) <= k /\ RangeLimit({t}) >= k
    BY <2>1, <2>2, <1>2, <1>3, <1>5, <1>8
  <2> QED
    BY <2>3 DEF Overlaps
<1> QED
  BY <1>2, <1>6, <1>7, <1>8

\* A table that is apart from each of them lies outside their range.
LEMMA ConnectedApart ==
  ASSUME NEW C, TableSet(C), Connected(C),
         NEW u, Table(u), \A t \in C : Apart(t, u)
  PROVE  RangeLimit({u}) < RangeStart(C) \/ RangeLimit(C) < RangeStart({u})
<1>1. /\ RangeStart(C) \in Nat /\ RangeLimit(C) \in Nat
      /\ RangeStart(C) <= RangeLimit(C)
  BY RangeIs
<1>2. /\ RangeStart({u}) \in Nat /\ RangeLimit({u}) \in Nat
      /\ RangeStart({u}) <= RangeLimit({u})
  BY TableRange
<1>3. \A t \in C : RangeStart({t}) \in Nat /\ RangeLimit({t}) \in Nat
  BY TableRange DEF TableSet
<1>4. ASSUME NEW k \in Nat, RangeStart(C) <= k, k <= RangeLimit(C),
             RangeStart({u}) <= k, k <= RangeLimit({u})
      PROVE  FALSE
  <2>1. PICK t \in C : Overlaps(t, k, k)
    BY <1>4 DEF Connected
  <2>2. RangeStart({t}) <= k /\ RangeLimit({t}) >= k /\ Apart(t, u)
    BY <2>1 DEF Overlaps
  <2> QED
    BY <2>2, <1>2, <1>3, <1>4 DEF Apart
<1>5. CASE RangeStart(C) <= RangeStart({u})
  BY <1>1, <1>2, <1>4, <1>5
<1>6. CASE RangeStart({u}) < RangeStart(C)
  BY <1>1, <1>2, <1>4, <1>6
<1> QED
  BY <1>1, <1>2, <1>5, <1>6

\* The tables of a level that GetOverlappingInputs adds to some that leave no gap.
LEMMA OverlapInputs ==
  ASSUME NEW v, NEW level, \A t \in v[level] : Table(t),
         NEW C, TableSet(C), Connected(C)
  PROVE  LET E == GetOverlappingInputs(v, level, RangeStart(C), RangeLimit(C))
         IN  /\ E \subseteq v[level]
             /\ \A t \in v[level] : t \in C => t \in E
             /\ Connected(C \cup E)
             /\ level = 0 => \A u \in v[0] \ E, t \in E : Apart(u, t)
             /\ level # 0 =>
                  E = {t \in v[level] : Overlaps(t, RangeStart(C), RangeLimit(C))}
<1> DEFINE E == GetOverlappingInputs(v, level, RangeStart(C), RangeLimit(C))
<1>1. /\ RangeStart(C) \in Keys /\ RangeLimit(C) \in Keys
      /\ RangeStart(C) \in Nat /\ RangeLimit(C) \in Nat
      /\ RangeStart(C) <= RangeLimit(C)
  BY RangeIs
<1>2. \A t \in C : RangeStart(C) <= RangeStart({t}) /\ RangeLimit({t}) <= RangeLimit(C)
  BY RangeOver
<1>3. \A t \in v[level] : /\ RangeStart({t}) \in Nat /\ RangeLimit({t}) \in Nat
                          /\ RangeStart({t}) <= RangeLimit({t})
  BY TableRange
<1>4. \A t \in C : /\ RangeStart({t}) \in Nat /\ RangeLimit({t}) \in Nat
                   /\ RangeStart({t}) <= RangeLimit({t})
  BY TableRange DEF TableSet
<1>5. \A t \in C : Overlaps(t, RangeStart(C), RangeLimit(C))
  <2> SUFFICES ASSUME NEW t \in C
               PROVE  RangeStart({t}) <= RangeLimit(C) /\ RangeLimit({t}) >= RangeStart(C)
    BY DEF Overlaps
  <2>1. /\ RangeStart({t}) \in Nat /\ RangeLimit({t}) \in Nat
        /\ RangeStart({t}) <= RangeLimit({t})
        /\ RangeStart(C) <= RangeStart({t}) /\ RangeLimit({t}) <= RangeLimit(C)
    BY <1>2, <1>4
  <2> QED
    BY <2>1, <1>1
<1>6. CASE level # 0
  <2>1. E = {t \in v[level] : Overlaps(t, RangeStart(C), RangeLimit(C))}
    BY <1>6 DEF GetOverlappingInputs
  <2>2. \A t \in E : Table(t) /\ Overlaps(t, RangeStart(C), RangeLimit(C))
    BY <2>1
  <2>3. Connected(C \cup E)
    BY <2>2, ConnectedGrows
  <2> QED
    BY <2>1, <2>3, <1>5, <1>6
<1>7. CASE level = 0
  <2>1. PICK start \in Keys, limit \in Keys :
           /\ start <= RangeStart(C) /\ RangeLimit(C) <= limit
           /\ \A t \in v[0] : Overlaps(t, start, limit) =>
                start <= RangeStart({t}) /\ RangeLimit({t}) <= limit
           /\ E = {t \in v[0] : Overlaps(t, start, limit)}
           /\ \A g \in Nat : start <= g /\ g <= limit =>
                \/ RangeStart(C) <= g /\ g <= RangeLimit(C)
                \/ \E t \in v[0] : Overlaps(t, start, limit) /\ Overlaps(t, g, g)
    BY <1>1, <1>7, OverlapLevel0
  <2>2. start \in Nat /\ limit \in Nat
    BY TreeAssumption
  <2> HIDE DEF E
  <2>3. ASSUME NEW t \in v[0], t \in C
        PROVE  t \in E
    BY <2>1, <2>2, <2>3, <1>1, <1>2, <1>4 DEF Overlaps
  <2>4. \A t \in E : start <= RangeStart({t}) /\ RangeLimit({t}) <= limit
    BY <2>1
  <2>5. ASSUME NEW u \in v[0] \ E, NEW t \in E
        PROVE  Apart(u, t)
    <3>1. /\ u \in v[0] /\ t \in v[0] /\ ~Overlaps(u, start, limit)
          /\ start <= RangeStart({t}) /\ RangeLimit({t}) <= limit
      BY <2>1, <2>4
    <3> QED
      BY <3>1, <2>2, <1>3, <1>7 DEF Overlaps, Apart
  <2>6. Connected(C \cup E)
    <3>1. TableSet(C \cup E)
      BY <2>1, <1>7 DEF TableSet
    <3>2. PICK t \in C \cup E : RangeStart({t}) = RangeStart(C \cup E)
      BY <3>1, RangeOver
    <3>3. PICK u \in C \cup E : RangeLimit({u}) = RangeLimit(C \cup E)
      BY <3>1, RangeOver
    <3>4. /\ RangeStart({t}) \in Nat /\ start <= RangeStart({t})
          /\ RangeLimit({u}) \in Nat /\ RangeLimit({u}) <= limit
      BY <2>1, <2>2, <2>4, <1>1, <1>2, <1>3, <1>4, <1>7
    <3>5. ASSUME NEW k \in Nat, RangeStart(C \cup E) <= k, k <= RangeLimit(C \cup E)
          PROVE  \E w \in C \cup E : Overlaps(w, k, k)
      <4>1. start <= k /\ k <= limit
        BY <3>2, <3>3, <3>4, <3>5, <2>2
      <4>2. CASE RangeStart(C) <= k /\ k <= RangeLimit(C)
        BY <4>2 DEF Connected
      <4>3. CASE \E w \in v[0] : Overlaps(w, start, limit) /\ Overlaps(w, k, k)
        BY <4>3, <2>1
      <4> QED
        BY <4>1, <4>2, <4>3, <2>1
    <3> QED
      BY <3>5 DEF Connected
  <2>7. E \subseteq v[0]
    BY <2>1
  <2> QED
    BY <2>3, <2>5, <2>6, <2>7, <1>7 DEF E
<1> QED
  BY <1>6, <1>7

-----------------------------------------------------------------------------
(* The tables of a compaction.                                             *)

LEMMA OneConnected ==
  ASSUME NEW t, Table(t)
  PROVE  TableSet({t}) /\ Connected({t})
<1>1. TableSet({t})
  BY DEF TableSet
<1>2. RangeStart({t}) \in Nat /\ RangeLimit({t}) \in Nat
  BY TableRange
<1>3. \A k \in Nat : RangeStart({t}) <= k /\ k <= RangeLimit({t}) => Overlaps(t, k, k)
  BY <1>2 DEF Overlaps
<1> QED
  BY <1>1, <1>3 DEF Connected

LEMMA LevelTables ==
  ASSUME TypeOK, NEW level \in 0..(NumLevels - 2)
  PROVE  /\ level \in Level /\ level + 1 \in Level /\ level + 1 # 0
         /\ level \in Nat /\ NumLevels \in Nat
         /\ \A l \in Level : \A t \in files_[l] : Table(t)
<1>1. NumLevels \in Nat /\ NumLevels >= 2
  BY TreeAssumption
<1>2. level \in Level /\ level + 1 \in Level /\ level + 1 # 0 /\ level \in Nat
  BY <1>1 DEF Level
<1>3. \A l \in Level : \A t \in files_[l] : Table(t)
  BY DEF TypeOK, Table
<1> QED
  BY <1>1, <1>2, <1>3

\* The tables of the next level that some tables of a level need.
LEMMA BelowIs ==
  ASSUME TypeOK, NEW level \in 0..(NumLevels - 2),
         NEW C, TableSet(C), Connected(C)
  PROVE  /\ InputsBelow(level, C) =
              {t \in files_[level + 1] : Overlaps(t, RangeStart(C), RangeLimit(C))}
         /\ Connected(C \cup InputsBelow(level, C))
<1>1. /\ level + 1 # 0 /\ level + 1 \in Level
      /\ \A t \in files_[level + 1] : Table(t)
  BY LevelTables
<1> HIDE DEF Level
<1> QED
  BY <1>1, OverlapInputs DEF InputsBelow

\* What PickCompaction() and SetupOtherInputs() give.
Picked(c, level) ==
  /\ c.on /\ c.level = level /\ c.base = files_
  /\ c.smallest_snapshot = SmallestSnapshot
  /\ c.inputs0 \subseteq files_[level] /\ c.inputs0 # {}
  /\ c.inputs1 \subseteq files_[level + 1]
  /\ Connected(c.inputs0 \cup c.inputs1)
  /\ \A u \in files_[level] \ c.inputs0, w \in c.inputs0 : Share(u, w)
  /\ \A u \in files_[level + 1] \ c.inputs1 :
       Follow(u, UNION (c.inputs0 \cup c.inputs1))

LEMMA CompactionTables ==
  ASSUME TypeOK, SortedInv, NEW level \in 0..(NumLevels - 2), NEW grow \in BOOLEAN,
         NEW t \in files_[level], NEW c, c = CompactionFrom(level, t, grow)
  PROVE  Picked(c, level)
<1> DEFINE picked == IF level = 0
                     THEN GetOverlappingInputs(files_, 0, RangeStart({t}),
                                               RangeLimit({t}))
                     ELSE {t}
           below == InputsBelow(level, picked)
           all == picked \cup below
           expanded == GetOverlappingInputs(files_, level, RangeStart(all),
                                            RangeLimit(all))
<1>1. /\ c.on /\ c.level = level /\ c.base = files_
      /\ c.smallest_snapshot = SmallestSnapshot
  BY DEF CompactionFrom
<1>2. c.inputs0 \in {picked, expanded} /\ c.inputs1 = InputsBelow(level, c.inputs0)
  BY DEF CompactionFrom
<1>3. /\ level \in Level /\ level + 1 \in Level /\ level + 1 # 0
      /\ \A l \in Level : \A u \in files_[l] : Table(u)
  BY LevelTables
<1>4. Table(t)
  BY <1>3
<1>5. ASSUME level # 0
      PROVE  \A u, w \in files_[level] : u = w \/ Share(u, w)
  BY <1>3, <1>5 DEF SortedInv, Follow
<1>6. \A u, w \in files_[level + 1] : u = w \/ Follow(u, w)
  BY <1>3 DEF SortedInv
<1>7. /\ picked \subseteq files_[level] /\ t \in picked /\ Connected(picked)
      /\ \A u \in files_[level] \ picked, w \in picked : Share(u, w)
  <2>1. CASE level = 0
    <3>1. TableSet({t}) /\ Connected({t})
      BY <1>4, OneConnected
    <3>2. /\ picked \subseteq files_[0]
          /\ \A w \in files_[0] : w \in {t} => w \in picked
          /\ Connected({t} \cup picked)
          /\ \A u \in files_[0] \ picked, w \in picked : Apart(u, w)
      BY <3>1, <1>3, <2>1, OverlapInputs
    <3> HIDE DEF picked
    <3>3. {t} \cup picked = picked
      BY <3>2, <2>1
    <3>4. \A u \in files_[0] \ picked, w \in picked : Share(u, w)
      BY <3>2, <1>3, <2>1, ApartFollow DEF Follow
    <3> QED
      BY <3>2, <3>3, <3>4, <2>1
  <2>2. CASE level # 0
    BY <2>2, <1>4, <1>5, OneConnected
  <2> QED
    BY <2>1, <2>2
<1> HIDE DEF picked
<1>8. TableSet(picked)
  BY <1>3, <1>7 DEF TableSet
<1>9. /\ below = {u \in files_[level + 1] :
                    Overlaps(u, RangeStart(picked), RangeLimit(picked))}
      /\ Connected(all)
  BY <1>7, <1>8, BelowIs
<1> HIDE DEF below
<1>10. TableSet(all)
  BY <1>3, <1>8, <1>9 DEF TableSet
<1>11. /\ expanded \subseteq files_[level]
       /\ \A u \in files_[level] : u \in all => u \in expanded
       /\ Connected(all \cup expanded)
       /\ level = 0 => \A u \in files_[0] \ expanded, w \in expanded : Apart(u, w)
  <2> HIDE DEF all
  <2> QED
    BY <1>3, <1>9, <1>10, OverlapInputs
<1> HIDE DEF expanded
<1>12. picked \subseteq expanded
  BY <1>7, <1>11
<1>13. TableSet(expanded)
  BY <1>3, <1>7, <1>11, <1>12 DEF TableSet
<1>14. TableSet(c.inputs0) /\ c.inputs0 \subseteq files_[level] /\ c.inputs0 # {}
  BY <1>2, <1>7, <1>8, <1>11, <1>13 DEF TableSet
<1>15. c.inputs1 = {u \in files_[level + 1] :
                      Overlaps(u, RangeStart(c.inputs0), RangeLimit(c.inputs0))}
  BY <1>2, <1>3, <1>14 DEF InputsBelow, GetOverlappingInputs
<1>16. Connected(c.inputs0 \cup c.inputs1)
  <2>1. CASE c.inputs0 = picked
    BY <2>1, <1>2, <1>7, <1>8, BelowIs
  <2>2. CASE c.inputs0 = expanded
    <3>1. /\ RangeStart(expanded) <= RangeStart(picked)
          /\ RangeLimit(picked) <= RangeLimit(expanded)
      BY <1>8, <1>12, <1>13, RangeGrows
    <3>2. TableSet(all \cup expanded)
      BY <1>10, <1>13 DEF TableSet
    <3>3. /\ RangeStart(all \cup expanded) <= RangeStart(expanded)
          /\ RangeLimit(expanded) <= RangeLimit(all \cup expanded)
      BY <1>13, <3>2, RangeGrows
    <3>4. /\ RangeStart(expanded) \in Nat /\ RangeLimit(expanded) \in Nat
          /\ RangeStart(picked) \in Nat /\ RangeLimit(picked) \in Nat
          /\ RangeStart(all \cup expanded) \in Nat
          /\ RangeLimit(all \cup expanded) \in Nat
      BY <1>8, <1>13, <3>2, RangeIs
    <3>5. ASSUME NEW u \in files_[level + 1]
          PROVE  /\ Table(u)
                 /\ u \in below => u \in c.inputs1
                 /\ u \in c.inputs1 => Overlaps(u, RangeStart(all \cup expanded),
                                                  RangeLimit(all \cup expanded))
      <4>1. Table(u)
        BY <1>3
      <4>2. RangeStart({u}) \in Nat /\ RangeLimit({u}) \in Nat
        BY <4>1, TableRange
      <4>3. /\ u \in below => /\ RangeStart({u}) <= RangeLimit(picked)
                              /\ RangeLimit({u}) >= RangeStart(picked)
            /\ u \in c.inputs1 <=> /\ RangeStart({u}) <= RangeLimit(expanded)
                                   /\ RangeLimit({u}) >= RangeStart(expanded)
        BY <1>9, <1>15, <2>2 DEF Overlaps
      <4>4. u \in below => u \in c.inputs1
        BY <4>2, <4>3, <3>1, <3>4
      <4>5. u \in c.inputs1 => /\ RangeStart({u}) <= RangeLimit(all \cup expanded)
                               /\ RangeLimit({u}) >= RangeStart(all \cup expanded)
        BY <4>2, <4>3, <3>3, <3>4
      <4> QED
        BY <4>1, <4>4, <4>5 DEF Overlaps
    <3>6. Connected((all \cup expanded) \cup c.inputs1)
      <4>1. \A u \in c.inputs1 : /\ Table(u)
                                 /\ Overlaps(u, RangeStart(all \cup expanded),
                                                RangeLimit(all \cup expanded))
        BY <3>5, <1>15
      <4> HIDE DEF all
      <4> QED
        BY <4>1, <3>2, <1>11, ConnectedGrows
    <3>7. below \subseteq c.inputs1
      BY <3>5, <1>9
    <3>8. (all \cup expanded) \cup c.inputs1 = c.inputs0 \cup c.inputs1
      BY <3>7, <1>12, <2>2
    <3> QED
      BY <3>6, <3>8
  <2> QED
    BY <2>1, <2>2, <1>2
<1>17. ASSUME NEW u \in files_[level] \ c.inputs0, NEW w \in c.inputs0
       PROVE  Share(u, w)
  <2>1. CASE c.inputs0 = picked
    BY <2>1, <1>7
  <2>2. CASE c.inputs0 = expanded /\ level = 0
    BY <2>2, <1>3, <1>11, <1>14, ApartFollow DEF Follow
  <2>3. CASE level # 0
    BY <2>3, <1>5, <1>14
  <2> QED
    BY <2>1, <2>2, <2>3, <1>2
<1>18. ASSUME NEW u \in files_[level + 1] \ c.inputs1
       PROVE  Follow(u, UNION (c.inputs0 \cup c.inputs1))
  <2> DEFINE lo == RangeStart(c.inputs0)
             hi == RangeLimit(c.inputs0)
  <2>1. /\ Table(u) /\ ~Overlaps(u, lo, hi) /\ lo \in Nat /\ hi \in Nat
        /\ RangeStart({u}) \in Nat /\ RangeLimit({u}) \in Nat
    BY <1>3, <1>14, <1>15, RangeIs, TableRange
  <2>2. \A w \in c.inputs0 : /\ Table(w) /\ lo <= RangeStart({w}) /\ RangeLimit({w}) <= hi
                             /\ RangeStart({w}) \in Nat /\ RangeLimit({w}) \in Nat
    BY <1>3, <1>14, RangeOver, TableRange
  <2>3. \A w \in c.inputs1 : /\ Table(w) /\ Overlaps(w, lo, hi) /\ Follow(u, w)
                             /\ RangeStart({w}) \in Nat /\ RangeLimit({w}) \in Nat
    BY <1>3, <1>6, <1>15, TableRange
  <2> HIDE DEF lo, hi
  <2>4. \A w \in c.inputs0 : Apart(u, w)
    BY <2>1, <2>2 DEF Overlaps, Apart
  <2>5. \A w \in c.inputs0 \cup c.inputs1 : Share(u, w)
    BY <2>1, <2>2, <2>3, <2>4, ApartFollow DEF Follow
  <2>6. CASE RangeLimit({u}) < lo
    <3>1. ASSUME NEW w \in c.inputs0 PROVE Precede(u, w)
      <4>1. RangeLimit({u}) < RangeStart({w})
        BY <2>1, <2>2, <2>6
      <4> QED
        BY <4>1, <2>1, <2>2, RangePrecede
    <3>2. ASSUME NEW w \in c.inputs1 PROVE Precede(u, w)
      <4>1. PICK e \in u : e.key = RangeLimit({u})
        BY <2>1, TableRange
      <4>2. PICK f \in w : f.key = RangeLimit({w})
        BY <2>3, TableRange
      <4>3. RangeLimit({w}) >= lo
        BY <2>3 DEF Overlaps
      <4>a. /\ RangeLimit({u}) \in Nat /\ RangeStart({u}) \in Nat /\ lo \in Nat /\ hi \in Nat
            /\ RangeLimit({w}) \in Nat /\ RangeStart({w}) \in Nat
        BY <2>1, <2>3
      <4>4. e.key \in Nat /\ f.key \in Nat /\ e.key < f.key
        BY ONLY <4>1, <4>2, <4>3, <4>a, <2>6
      <4>5. ~Before(f, e)
        BY <4>4 DEF Before
      <4> QED
        BY <4>1, <4>2, <4>5, <2>3 DEF Follow, Precede
    <3>3. Precede(u, UNION (c.inputs0 \cup c.inputs1))
      BY <3>1, <3>2 DEF Precede
    <3> QED
      BY <3>3, <2>5 DEF Follow, Share
  <2>7. CASE hi < RangeStart({u})
    <3>1. ASSUME NEW w \in c.inputs0 PROVE Precede(w, u)
      <4>1. RangeLimit({w}) < RangeStart({u})
        BY <2>1, <2>2, <2>7
      <4> QED
        BY <4>1, <2>1, <2>2, RangePrecede
    <3>2. ASSUME NEW w \in c.inputs1 PROVE Precede(w, u)
      <4>1. PICK e \in u : e.key = RangeStart({u})
        BY <2>1, TableRange
      <4>2. PICK f \in w : f.key = RangeStart({w})
        BY <2>3, TableRange
      <4>3. RangeStart({w}) <= hi
        BY <2>3 DEF Overlaps
      <4>a. /\ RangeLimit({u}) \in Nat /\ RangeStart({u}) \in Nat /\ lo \in Nat /\ hi \in Nat
            /\ RangeLimit({w}) \in Nat /\ RangeStart({w}) \in Nat
        BY <2>1, <2>3
      <4>4. e.key \in Nat /\ f.key \in Nat /\ f.key < e.key
        BY ONLY <4>1, <4>2, <4>3, <4>a, <2>7
      <4>5. ~Before(e, f)
        BY <4>4 DEF Before
      <4> QED
        BY <4>1, <4>2, <4>5, <2>3 DEF Follow, Precede
    <3>3. Precede(UNION (c.inputs0 \cup c.inputs1), u)
      BY <3>1, <3>2 DEF Precede
    <3> QED
      BY <3>3, <2>5 DEF Follow, Share
  <2> QED
    BY <2>1, <2>6, <2>7 DEF Overlaps
<1>19. c.inputs1 \subseteq files_[level + 1]
  BY <1>15
<1> QED
  BY <1>1, <1>14, <1>16, <1>17, <1>18, <1>19 DEF Picked

-----------------------------------------------------------------------------
(* The steps that keep the tree.                                           *)

LEMMA InitTree == Init => TreeInv
<1> SUFFICES ASSUME Init PROVE TreeInv
  OBVIOUS
<1> USE DEF Init
<1>1. NumLevels \in Nat /\ NumLevels >= 2 /\ MaxWrites \in Nat
  BY TreeAssumption
<1>2. 0 \in Level /\ 1 \in Level /\ 0 \in 0..(NumLevels - 2)
  BY <1>1 DEF Level
<1>3. /\ NoCompaction.level = 0 /\ NoCompaction.inputs0 = {} /\ ~NoCompaction.on
      /\ NoCompaction.inputs1 = {} /\ NoCompaction.smallest_snapshot = 0
  BY DEF NoCompaction
<1>4. TypeOK
  BY <1>1, <1>2, <1>3 DEF TypeOK
<1>5. Stored = {}
  BY DEF Stored
<1>6. HistoryInv
  BY <1>5 DEF HistoryInv
<1>7. FlushInv /\ SortedInv /\ NewerAbove
  BY <1>2 DEF FlushInv, SortedInv, NewerAbove
<1>8. CompactionInv
  BY <1>3 DEF CompactionInv
<1>9. KeptInv
  BY DEF KeptInv
<1> QED
  BY <1>4, <1>6, <1>7, <1>8, <1>9 DEF TreeInv

\* What a step keeps that moves no entry.
LEMMA SameTree ==
  ASSUME TreeInv, UNCHANGED <<mem_, files_, last_sequence_, history, split>>,
         Views' \subseteq Views
  PROVE  HistoryInv' /\ FlushInv' /\ SortedInv' /\ NewerAbove' /\ KeptInv'
<1>1. Stored' = Stored
  BY DEF Stored
<1>2. HistoryInv' /\ FlushInv' /\ SortedInv' /\ NewerAbove'
  BY <1>1 DEF TreeInv, HistoryInv, FlushInv, SortedInv, Follow, Precede, Share, NewerAbove
<1>3. KeptInv'
  BY <1>1 DEF TreeInv, KeptInv, Last
<1> QED
  BY <1>2, <1>3

LEMMA SnapshotStep == TreeInv /\ (GetSnapshot \/ ReleaseSnapshot) => TreeInv'
<1> SUFFICES ASSUME TreeInv, GetSnapshot \/ ReleaseSnapshot PROVE TreeInv'
  OBVIOUS
<1>1. UNCHANGED <<mem_, files_, last_sequence_, compaction, history, split>>
  BY DEF GetSnapshot, ReleaseSnapshot
<1>2. last_sequence_ \in Nat /\ last_sequence_ \in 0..last_sequence_
  BY TreeAssumption DEF TreeInv, TypeOK
<1>3. snapshots_' \subseteq snapshots_ \cup {last_sequence_}
  BY DEF GetSnapshot, ReleaseSnapshot
<1>4. Views' \subseteq Views
  BY <1>1, <1>3 DEF Views
<1>5. TypeOK'
  BY <1>1, <1>2, <1>3 DEF TreeInv, TypeOK
<1>6. CompactionInv'
  BY <1>1, <1>4 DEF TreeInv, CompactionInv, Inputs, Input, Follow, Precede, Share
<1> QED
  BY <1>1, <1>4, <1>5, <1>6, SameTree DEF TreeInv

LEMMA FailStep == TreeInv /\ CompactFail => TreeInv'
<1> SUFFICES ASSUME TreeInv, CompactFail PROVE TreeInv'
  OBVIOUS
<1>1. /\ UNCHANGED <<mem_, files_, last_sequence_, snapshots_, history, split>>
      /\ compaction' = NoCompaction
  BY DEF CompactFail
<1>2. Views' \subseteq Views
  BY <1>1 DEF Views
<1>3. last_sequence_ \in Nat /\ 0 \in 0..last_sequence_ /\ 0 \in 0..(NumLevels - 2)
  BY TreeAssumption DEF TreeInv, TypeOK
<1>4. TypeOK'
  BY <1>1, <1>3 DEF TreeInv, TypeOK, NoCompaction
<1>5. CompactionInv'
  BY <1>1 DEF CompactionInv, NoCompaction
<1> QED
  BY <1>1, <1>2, <1>4, <1>5, SameTree DEF TreeInv

\* The numbers of what is stored.
LEMMA StoredNumbers ==
  ASSUME TreeInv
  PROVE  /\ last_sequence_ \in Nat /\ Stored \subseteq history
         /\ \A e \in history : /\ e \in Entry /\ e.seq \in Nat /\ e.key \in Nat
                               /\ e.seq <= last_sequence_
         /\ \A s \in Views : s \in Nat /\ s <= last_sequence_
         /\ \A l \in Level : \A t \in files_[l] : t \subseteq Stored
<1>1. last_sequence_ \in 0..MaxWrites /\ MaxWrites \in Nat /\ snapshots_ \subseteq 0..last_sequence_
  BY TreeAssumption DEF TreeInv, TypeOK
<1>2. Stored \subseteq history /\ history \subseteq Entry /\ \A e \in history : e.seq <= last_sequence_
  BY DEF TreeInv, TypeOK, HistoryInv
<1>3. \A e \in history : e \in Entry /\ e.seq \in Nat /\ e.key \in Nat
  BY <1>2, EntryNumbers
<1>4. \A s \in Views : s \in Nat /\ s <= last_sequence_
  BY <1>1 DEF Views
<1>5. \A l \in Level : \A t \in files_[l] : t \subseteq Stored
  BY DEF Stored
<1> QED
  BY <1>1, <1>2, <1>3, <1>4, <1>5

LEMMA WriteStep == TreeInv /\ Write => TreeInv'
<1> SUFFICES ASSUME TreeInv, Write PROVE TreeInv'
  OBVIOUS
<1>1. PICK k \in Keys, t \in Type :
        LET e == [key |-> k, seq |-> last_sequence_', type |-> t]
        IN  mem_' = mem_ \cup {e} /\ history' = history \cup {e}
  BY DEF Write
<1> DEFINE e == [key |-> k, seq |-> last_sequence_', type |-> t]
<1>2. /\ last_sequence_ < MaxWrites /\ last_sequence_' = last_sequence_ + 1
      /\ UNCHANGED <<files_, snapshots_, compaction, split>>
      /\ mem_' = mem_ \cup {e} /\ history' = history \cup {e}
  BY <1>1 DEF Write
<1>3. /\ last_sequence_ \in Nat /\ Stored \subseteq history
      /\ \A f \in history : /\ f \in Entry /\ f.seq \in Nat /\ f.key \in Nat
                            /\ f.seq <= last_sequence_
      /\ \A s \in Views : s \in Nat /\ s <= last_sequence_
      /\ \A l \in Level : \A u \in files_[l] : u \subseteq Stored
  BY StoredNumbers
<1>4. /\ last_sequence_' \in 1..MaxWrites /\ last_sequence_' \in 0..MaxWrites
      /\ last_sequence_' \in Nat /\ last_sequence_ < last_sequence_'
  BY <1>2, <1>3, TreeAssumption
<1>5. e \in Entry /\ e.seq = last_sequence_'
  BY <1>4 DEF Entry
<1> HIDE DEF e
<1>6. Stored' = Stored \cup {e}
  BY <1>2 DEF Stored
<1>7. Views' \subseteq snapshots_ \cup {last_sequence_'}
  BY <1>2 DEF Views
<1>8. TypeOK'
  <2>1. /\ snapshots_ \subseteq 0..last_sequence_
        /\ compaction.smallest_snapshot \in 0..last_sequence_
    BY DEF TreeInv, TypeOK
  <2>2. 0..last_sequence_ \subseteq 0..last_sequence_'
    BY <1>3, <1>4
  <2> QED
    BY <1>2, <1>4, <1>5, <2>1, <2>2 DEF TreeInv, TypeOK
<1>9. HistoryInv'
  <2>1. ASSUME NEW f \in history'
        PROVE  f.seq <= last_sequence_'
    BY <1>2, <1>3, <1>4, <1>5
  <2>2. ASSUME NEW f \in history', NEW g \in history', f.seq = g.seq
        PROVE  f = g
    <3>1. \A h \in history : h.seq # e.seq
      BY <1>3, <1>4, <1>5
    <3> QED
      BY <1>2, <2>2, <3>1 DEF TreeInv, HistoryInv
  <2>3. Stored' \subseteq history'
    BY <1>2, <1>3, <1>6
  <2> QED
    BY <2>1, <2>2, <2>3 DEF HistoryInv
<1>10. FlushInv'
  <2>1. \A l \in Level : \A u \in files_[l] : \A f \in u : e.seq > f.seq
    BY <1>3, <1>4, <1>5
  <2> QED
    BY <1>2, <2>1 DEF TreeInv, FlushInv
<1>11. SortedInv' /\ NewerAbove'
  BY <1>2 DEF TreeInv, SortedInv, Follow, Precede, Share, NewerAbove
<1>12. CompactionInv'
  <2>1. ASSUME compaction.on, NEW s \in Views'
        PROVE  compaction.smallest_snapshot <= s
    <3>1. s \in Views \/ s = last_sequence_'
      BY <1>7 DEF Views
    <3>2. compaction.smallest_snapshot \in Nat /\ compaction.smallest_snapshot <= last_sequence_
      BY <1>3 DEF TreeInv, TypeOK
    <3>3. \A v \in Views : compaction.smallest_snapshot <= v
      BY <2>1 DEF TreeInv, CompactionInv
    <3> QED
      BY <3>1, <3>2, <3>3, <1>3, <1>4
  <2> QED
    BY <1>2, <2>1 DEF TreeInv, CompactionInv, Inputs, Input, Follow, Precede, Share
<1>13. KeptInv'
  <2> SUFFICES ASSUME NEW s \in Views', NEW f \in history', Last(f, s)',
                      f.key \notin split
               PROVE  (\/ f \in Stored
                       \/ f.type = "deletion" /\ \A g \in Stored : g.key = f.key => g.seq > s)'
    BY <1>2 DEF KeptInv
  <2>0. f.seq <= s /\ \A g \in history' : g.key = f.key /\ g.seq <= s => g.seq <= f.seq
    BY DEF Last
  <2>1. CASE f = e
    BY <2>1, <1>6
  <2>2. CASE s \in snapshots_ /\ f # e
    <3>1. s \in Views /\ s \in Nat /\ s < e.seq
      BY <2>2, <1>3, <1>4, <1>5 DEF Views
    <3>2. f \in history /\ Last(f, s)
      BY <2>2, <1>2, <2>0 DEF Last
    <3>3. \/ f \in Stored
          \/ f.type = "deletion" /\ \A g \in Stored : g.key = f.key => g.seq > s
      BY <3>1, <3>2 DEF TreeInv, KeptInv
    <3> QED
      BY <3>1, <3>3, <1>4, <1>5, <1>6
  <2>3. CASE s = last_sequence_' /\ f # e
    <3>1. f \in history
      BY <1>2, <2>3
    <3>2. e.key # f.key
      BY <3>1, <2>0, <2>3, <1>2, <1>3, <1>4, <1>5
    <3>3. last_sequence_ \in Views /\ Last(f, last_sequence_)
      <4>1. ASSUME NEW g \in history, g.key = f.key, g.seq <= last_sequence_
            PROVE  g.seq <= f.seq
        BY <4>1, <2>0, <2>3, <1>2, <1>3, <1>4
      <4> QED
        BY <4>1, <3>1, <1>3 DEF Views, Last
    <3>4. \/ f \in Stored
          \/ f.type = "deletion" /\ \A g \in Stored : g.key = f.key => g.seq > last_sequence_
      BY <3>1, <3>3 DEF TreeInv, KeptInv
    <3>5. \A g \in Stored : ~(g.seq > last_sequence_)
      BY <1>3
    <3> QED
      BY <3>2, <3>4, <3>5, <1>6
  <2> QED
    BY <2>1, <2>2, <2>3, <1>7
<1> QED
  BY <1>8, <1>9, <1>10, <1>11, <1>12, <1>13 DEF TreeInv

LEMMA InputTables ==
  ASSUME TreeInv
  PROVE  /\ compaction.level \in Level /\ compaction.level + 1 \in Level
         /\ compaction.level \in Nat
         /\ \A t \in compaction.inputs0 : t \in files_[compaction.level] /\ Table(t)
         /\ \A t \in compaction.inputs1 : t \in files_[compaction.level + 1] /\ Table(t)
         /\ compaction.on => TableSet(Inputs)
<1>1. TypeOK /\ CompactionInv
  BY DEF TreeInv
<1>2. compaction.level \in 0..(NumLevels - 2)
  BY <1>1 DEF TypeOK
<1>3. /\ compaction.level \in Level /\ compaction.level + 1 \in Level
      /\ compaction.level \in Nat
      /\ \A l \in Level : \A t \in files_[l] : Table(t)
  BY <1>1, <1>2, LevelTables
<1>4. /\ compaction.inputs0 \subseteq files_[compaction.level]
      /\ compaction.inputs1 \subseteq files_[compaction.level + 1]
  BY <1>1 DEF TypeOK
<1>5. compaction.on => compaction.inputs0 # {}
  BY <1>1 DEF CompactionInv
<1> QED
  BY <1>3, <1>4, <1>5 DEF Inputs, TableSet

LEMMA FlushStep == TreeInv /\ FlushMemTable => TreeInv'
<1> SUFFICES ASSUME TreeInv, FlushMemTable PROVE TreeInv'
  OBVIOUS
<1>1. PICK n \in {e.seq : e \in mem_} :
        LET imm == {e \in mem_ : e.seq <= n}
        IN  /\ \E l \in MemTableLevels(RangeStart({imm}), RangeLimit({imm})) :
                 files_' = [files_ EXCEPT ![l] = @ \cup {imm}]
            /\ mem_' = mem_ \ imm
  BY DEF FlushMemTable
<1> DEFINE imm == {e \in mem_ : e.seq <= n}
<1>2. PICK l \in MemTableLevels(RangeStart({imm}), RangeLimit({imm})) :
        files_' = [files_ EXCEPT ![l] = @ \cup {imm}]
  BY <1>1
<1>3. /\ mem_' = mem_ \ imm
      /\ UNCHANGED <<last_sequence_, snapshots_, compaction, history, split>>
  BY <1>1 DEF FlushMemTable
<1>4. /\ last_sequence_ \in Nat /\ Stored \subseteq history
      /\ \A f \in history : /\ f \in Entry /\ f.seq \in Nat /\ f.key \in Nat
                            /\ f.seq <= last_sequence_
      /\ \A s \in Views : s \in Nat /\ s <= last_sequence_
      /\ \A m \in Level : \A u \in files_[m] : u \subseteq Stored
  BY StoredNumbers
<1>5. mem_ \subseteq Stored
  BY DEF Stored
<1>6. /\ imm \subseteq mem_ /\ imm # {} /\ n \in Nat
      /\ \A e \in imm : e.seq <= n
      /\ \A e \in mem_ \ imm : n < e.seq
  <2>1. PICK e \in mem_ : n = e.seq
    OBVIOUS
  <2>2. \A f \in mem_ : f.seq \in Nat
    BY <1>4, <1>5
  <2>3. n \in Nat /\ n <= n
    BY <2>1, <2>2
  <2>4. e \in imm
    BY <2>1, <2>3
  <2> QED
    BY <2>2, <2>3, <2>4
<1> HIDE DEF imm
<1>7. Table(imm)
  BY <1>4, <1>5, <1>6 DEF Table
<1>8. /\ l \in Level /\ l \in Nat
      /\ l > 0 => \A m \in 0..l : ~OverlapInLevel(m, RangeStart({imm}), RangeLimit({imm}))
  <2>1. /\ l \in 0..MaxMemCompactLevel
        /\ l > 0 => \A m \in 0..l : ~OverlapInLevel(m, RangeStart({imm}), RangeLimit({imm}))
    BY <1>2 DEF MemTableLevels
  <2>2. MaxMemCompactLevel \in 0..(NumLevels - 1) /\ NumLevels \in Nat
    BY TreeAssumption
  <2> QED
    BY <2>1, <2>2 DEF Level
<1>9. \A m \in Level : \A u \in files_[m] : Table(u)
  BY DEF TreeInv, TypeOK, Table
<1>10. ASSUME l > 0, NEW m \in 0..l, NEW u \in files_[m]
       PROVE  Apart(u, imm) /\ Apart(imm, u) /\ \A e \in imm, f \in u : e.key # f.key
  <2>1. m \in Level /\ Table(u)
    BY <1>8, <1>9, TreeAssumption DEF Level
  <2>2. ~Overlaps(u, RangeStart({imm}), RangeLimit({imm}))
    BY <1>8, <1>10 DEF OverlapInLevel
  <2>3. Apart(u, imm) /\ Apart(imm, u)
    BY <2>1, <2>2, <1>7, OverlapIs
  <2> QED
    BY <2>1, <2>3, <1>7, ApartKeys
<1>11. ASSUME NEW m \in Level, NEW u \in files_[m], NEW f \in u, NEW e \in imm
       PROVE  e.seq > f.seq
  BY <1>6 DEF TreeInv, FlushInv
<1>12. /\ DOMAIN files_ = Level /\ DOMAIN files_' = Level
       /\ files_'[l] = files_[l] \cup {imm}
       /\ \A m \in Level : m # l => files_'[m] = files_[m]
  BY <1>2, <1>8 DEF TreeInv, TypeOK
<1>13. ASSUME NEW m \in Level, NEW u \in files_'[m]
       PROVE  u \in files_[m] \/ (m = l /\ u = imm)
  BY <1>12
<1>14. Stored' = Stored
  <2>1. ASSUME NEW e \in Stored PROVE e \in Stored'
    <3>1. CASE e \in mem_ \ imm
      BY <3>1, <1>3 DEF Stored
    <3>2. CASE e \in imm
      BY <3>2, <1>8, <1>12 DEF Stored
    <3>3. CASE \E m \in Level : \E u \in files_[m] : e \in u
      BY <3>3, <1>8, <1>12 DEF Stored
    <3> QED
      BY <3>1, <3>2, <3>3 DEF Stored
  <2>2. ASSUME NEW e \in Stored' PROVE e \in Stored
    <3>1. CASE e \in mem_'
      BY <3>1, <1>3 DEF Stored
    <3>2. CASE \E m \in Level : \E u \in files_'[m] : e \in u
      BY <3>2, <1>5, <1>6, <1>13 DEF Stored
    <3> QED
      BY <3>1, <3>2 DEF Stored
  <2> QED
    BY <2>1, <2>2
<1>15. TypeOK'
  <2>1. \A m \in Level : \A u \in files_'[m] : u \subseteq Entry /\ u # {}
    BY <1>7, <1>9, <1>13 DEF Table
  <2>2. /\ compaction.inputs0 \subseteq files_'[compaction.level]
        /\ compaction.inputs1 \subseteq files_'[compaction.level + 1]
    BY <1>12, InputTables
  <2> QED
    BY <2>1, <2>2, <1>3, <1>12 DEF TreeInv, TypeOK
<1>16. HistoryInv'
  BY <1>3, <1>14 DEF TreeInv, HistoryInv
<1>17. KeptInv'
  BY <1>3, <1>14 DEF TreeInv, KeptInv, Last, Views
<1>18. FlushInv'
  <2>1. ASSUME NEW e \in mem_', NEW m \in Level, NEW u \in files_'[m], NEW f \in u
        PROVE  e.seq > f.seq
    <3>1. CASE u \in files_[m]
      BY <3>1, <1>3 DEF TreeInv, FlushInv
    <3>2. CASE u = imm
      <4>1. e.seq \in Nat /\ f.seq \in Nat /\ n < e.seq /\ f.seq <= n
        BY <3>2, <1>3, <1>4, <1>5, <1>6
      <4> QED
        BY <4>1, <1>6
    <3> QED
      BY <3>1, <3>2, <1>13
  <2>2. ASSUME NEW u \in files_'[0], NEW w \in files_'[0], u # w
        PROVE  \/ \A e \in u, f \in w : e.seq < f.seq
               \/ \A e \in u, f \in w : e.seq > f.seq
    <3>0. 0 \in Level
      BY TreeAssumption DEF Level
    <3>1. CASE u \in files_[0] /\ w \in files_[0]
      BY <3>1, <2>2 DEF TreeInv, FlushInv
    <3>2. CASE u = imm /\ w \in files_[0]
      BY <3>0, <3>2, <1>11
    <3>3. CASE w = imm /\ u \in files_[0]
      <4>1. \A e \in u, f \in w : f.seq > e.seq /\ e.seq \in Nat /\ f.seq \in Nat
        BY <3>0, <3>3, <1>4, <1>5, <1>6, <1>11
      <4> QED
        BY <4>1
    <3> QED
      BY <3>0, <3>1, <3>2, <3>3, <1>13, <2>2
  <2> QED
    BY <2>1, <2>2 DEF FlushInv
<1>19. SortedInv'
  <2> SUFFICES ASSUME NEW m \in Level \ {0}, NEW u \in files_'[m], NEW w \in files_'[m],
                      u # w
               PROVE  Follow(u, w)
    BY <1>3 DEF SortedInv, Follow, Share, Precede
  <2>1. m = l => l > 0 /\ m \in 0..l
    BY <1>8
  <2>2. CASE u \in files_[m] /\ w \in files_[m]
    BY <2>2 DEF TreeInv, SortedInv
  <2>3. CASE m = l /\ u = imm /\ w \in files_[m]
    BY <2>1, <2>3, <1>7, <1>9, <1>10, ApartFollow
  <2>4. CASE m = l /\ w = imm /\ u \in files_[m]
    BY <2>1, <2>4, <1>7, <1>9, <1>10, ApartFollow
  <2> QED
    BY <2>2, <2>3, <2>4, <1>13
<1>20. NewerAbove'
  <2> SUFFICES ASSUME NEW a \in Level, NEW b \in Level, a < b,
                      NEW u \in files_'[a], NEW w \in files_'[b],
                      NEW e \in u, NEW f \in w, e.key = f.key
               PROVE  e.seq > f.seq \/ e.key \in split
    BY <1>3 DEF NewerAbove
  <2>1. CASE u \in files_[a] /\ w \in files_[b]
    BY <2>1 DEF TreeInv, NewerAbove
  <2>2. CASE u = imm /\ w \in files_[b]
    BY <2>2, <1>11
  <2>3. CASE b = l /\ w = imm /\ u \in files_[a]
    <3>1. l > 0 /\ a \in 0..l
      BY <2>3, <1>8 DEF Level
    <3> QED
      BY <3>1, <2>3, <1>10
  <2>4. CASE a = l /\ b = l
    BY <2>4, <1>8
  <2> QED
    BY <2>1, <2>2, <2>3, <2>4, <1>13
<1>21. CompactionInv'
  <2> SUFFICES ASSUME compaction.on PROVE CompactionInv'
    BY <1>3 DEF CompactionInv
  <2>0. CompactionInv
    BY DEF TreeInv
  <2> DEFINE L == compaction.level
  <2>1. /\ L \in Level /\ L + 1 \in Level /\ L \in Nat
        /\ \A t \in compaction.inputs0 : t \in files_[L] /\ Table(t)
        /\ \A t \in compaction.inputs1 : t \in files_[L + 1] /\ Table(t)
        /\ TableSet(Inputs)
    BY InputTables
  <2>2. compaction.inputs0 # {} /\ Connected(Inputs)
    BY <2>0 DEF CompactionInv
  <2>3. ASSUME l > L
        PROVE  \A t \in Inputs : Apart(t, imm) /\ \A e \in imm, f \in t : e.key # f.key
    <3>1. L \in 0..l /\ L + 1 \in 0..l /\ l > 0
      BY <2>1, <2>3, <1>8
    <3> QED
      BY <3>1, <2>1, <1>10 DEF Inputs
  <2>4. ASSUME NEW u \in files_'[L] \ compaction.inputs0,
               NEW e \in u, NEW f \in UNION compaction.inputs0, e.key = f.key
        PROVE  e.seq > f.seq \/ e.key \in split
    <3>1. CASE u \in files_[L]
      BY <3>1, <2>0, <2>4 DEF CompactionInv
    <3>2. CASE u = imm
      BY <3>2, <2>1, <1>11
    <3> QED
      BY <3>1, <3>2, <2>1, <1>13
  <2>5. ASSUME NEW u \in files_'[L + 1] \ compaction.inputs1
        PROVE  Follow(u, Input)
    <3>1. CASE u \in files_[L + 1]
      BY <3>1, <2>0 DEF CompactionInv
    <3>2. CASE L + 1 = l /\ u = imm
      <4>1. l > L
        BY <3>2, <2>1
      <4>2. \/ RangeLimit({imm}) < RangeStart(Inputs)
            \/ RangeLimit(Inputs) < RangeStart({imm})
        BY <4>1, <3>2, <2>1, <2>2, <2>3, <1>7, ConnectedApart
      <4>3. \A t \in Inputs :
              /\ Table(t) /\ RangeStart({t}) \in Nat /\ RangeLimit({t}) \in Nat
              /\ RangeStart(Inputs) <= RangeStart({t}) /\ RangeLimit({t}) <= RangeLimit(Inputs)
        BY <2>1, RangeOver, TableRange DEF TableSet
      <4>4. /\ RangeStart(Inputs) \in Nat /\ RangeLimit(Inputs) \in Nat
            /\ RangeStart({imm}) \in Nat /\ RangeLimit({imm}) \in Nat
        BY <2>1, <1>7, RangeIs, TableRange
      <4>5. \/ \A t \in Inputs : RangeLimit({imm}) < RangeStart({t})
            \/ \A t \in Inputs : RangeLimit({t}) < RangeStart({imm})
        BY <4>2, <4>3, <4>4
      <4>6. (\A t \in Inputs : Precede(imm, t)) \/ (\A t \in Inputs : Precede(t, imm))
        BY <4>3, <4>5, <1>7, RangePrecede
      <4>7. Precede(imm, Input) \/ Precede(Input, imm)
        BY <4>6 DEF Precede, Input, Inputs
      <4>8. Share(imm, Input)
        BY <4>1, <2>3 DEF Share, Input, Inputs
      <4> QED
        BY <3>2, <4>7, <4>8 DEF Follow
    <3> QED
      BY <3>1, <3>2, <2>1, <1>13
  <2>6. ASSUME NEW m \in Level, m >= L + 2, NEW u \in files_'[m]
        PROVE  u \in compaction.base[m] \/ \A e \in u, f \in Input : e.key # f.key
    <3>1. CASE u \in files_[m]
      BY <3>1, <2>0, <2>6 DEF CompactionInv
    <3>2. CASE m = l /\ u = imm
      <4>1. l > L
        BY <3>2, <2>1, <2>6, <1>8
      <4>2. \A t \in Inputs : \A e \in imm, f \in t : e.key # f.key
        BY <4>1, <2>3
      <4> QED
        BY <4>2, <3>2 DEF Input, Inputs
    <3> QED
      BY <3>1, <3>2, <1>13
  <2>7. \A s \in Views : compaction.smallest_snapshot <= s
    BY <2>0 DEF CompactionInv
  <2>8. Inputs' = Inputs /\ Input' = Input /\ Views' = Views
        /\ \A u : Follow(u, Input)' <=> Follow(u, Input)
    BY <1>3 DEF Inputs, Input, Views, Follow, Share, Precede
  <2> QED
    BY <2>2, <2>4, <2>5, <2>6, <2>7, <2>8, <1>3 DEF CompactionInv
<1> QED
  BY <1>15, <1>16, <1>17, <1>18, <1>19, <1>20, <1>21 DEF TreeInv

LEMMA BeginStep == TreeInv /\ CompactBegin => TreeInv'
<1> SUFFICES ASSUME TreeInv, CompactBegin PROVE TreeInv'
  OBVIOUS
<1>1. PICK level \in 0..(NumLevels - 2), grow \in BOOLEAN :
        \E t \in files_[level] : compaction' = CompactionFrom(level, t, grow)
  BY DEF CompactBegin
<1>2. PICK t \in files_[level] : compaction' = CompactionFrom(level, t, grow)
  BY <1>1
<1>3. UNCHANGED <<mem_, files_, last_sequence_, snapshots_, history, split>>
  BY DEF CompactBegin
<1> DEFINE c == compaction'
<1>4. TypeOK /\ SortedInv
  BY DEF TreeInv
<1>5. /\ c.on /\ c.level = level /\ c.base = files_
      /\ c.smallest_snapshot = SmallestSnapshot
      /\ c.inputs0 \subseteq files_[level] /\ c.inputs0 # {}
      /\ c.inputs1 \subseteq files_[level + 1]
      /\ Connected(c.inputs0 \cup c.inputs1)
      /\ \A u \in files_[level] \ c.inputs0, w \in c.inputs0 : Share(u, w)
      /\ \A u \in files_[level + 1] \ c.inputs1 :
           Follow(u, UNION (c.inputs0 \cup c.inputs1))
  <2>1. c = CompactionFrom(level, t, grow)
    BY <1>2
  <2> HIDE DEF c
  <2>2. Picked(c, level)
    BY <2>1, <1>4, CompactionTables
  <2> QED
    BY <2>2 DEF Picked
<1>6. /\ level \in Level /\ level + 1 \in Level /\ level \in Nat
      /\ \A l \in Level : \A u \in files_[l] : Table(u)
  BY <1>4, LevelTables
<1>7. Views' = Views
  BY <1>3 DEF Views
<1>8. /\ SmallestSnapshot \in 0..last_sequence_
      /\ \A s \in Views : SmallestSnapshot <= s
  <2>1. last_sequence_ \in Nat /\ snapshots_ \subseteq 0..last_sequence_
    BY <1>4, TreeAssumption DEF TypeOK
  <2>2. CASE snapshots_ = {}
    BY <2>1, <2>2 DEF SmallestSnapshot, Views
  <2>3. CASE snapshots_ # {}
    <3>1. snapshots_ \subseteq Nat
      BY <2>1
    <3>2. Min(snapshots_) \in snapshots_ /\ \A s \in snapshots_ : Min(snapshots_) <= s
      BY <2>3, <3>1, MinNat
    <3>3. SmallestSnapshot = Min(snapshots_)
      BY <2>3 DEF SmallestSnapshot
    <3>4. Min(snapshots_) \in 0..last_sequence_ /\ Min(snapshots_) <= last_sequence_
      <4>1. \A s \in snapshots_ : s \in 0..last_sequence_ /\ s <= last_sequence_
        BY <2>1
      <4> QED
        BY <4>1, <3>2, Zenon
    <3> QED
      BY <3>2, <3>3, <3>4 DEF Views
  <2> QED
    BY <2>2, <2>3
<1>9. TypeOK'
  BY <1>3, <1>4, <1>5, <1>6, <1>8 DEF TypeOK
<1>10. Inputs' = c.inputs0 \cup c.inputs1 /\ TableSet(Inputs') /\ Connected(Inputs')
  BY <1>5, <1>6 DEF Inputs, TableSet
<1>11. CompactionInv'
  <2>1. ASSUME NEW u \in files_[level] \ c.inputs0, NEW e \in u, NEW f \in UNION c.inputs0
        PROVE  e.key = f.key => e.key \in split
    BY <1>5 DEF Share
  <2>2. ASSUME NEW u \in files_[level + 1] \ c.inputs1
        PROVE  Follow(u, Input)'
    <3>1. Input' = UNION (c.inputs0 \cup c.inputs1)
      BY DEF Input
    <3>2. Follow(u, UNION (c.inputs0 \cup c.inputs1))
      BY <1>5
    <3> QED
      BY <3>1, <3>2, <1>3 DEF Follow, Share, Precede
  <2> QED
    BY <2>1, <2>2, <1>3, <1>5, <1>7, <1>8, <1>10 DEF CompactionInv
<1> QED
  BY <1>3, <1>7, <1>9, <1>11, SameTree DEF TreeInv

\* Where an entry of the compaction is stored.
LEMMA InputIs ==
  ASSUME TreeInv, NEW e \in Input
  PROVE  /\ e \in Stored /\ e \in history
         /\ \/ \E t \in compaction.inputs0 : t \in files_[compaction.level] /\ e \in t
            \/ \E t \in compaction.inputs1 : t \in files_[compaction.level + 1] /\ e \in t
<1>1. \/ \E t \in compaction.inputs0 : t \in files_[compaction.level] /\ e \in t
      \/ \E t \in compaction.inputs1 : t \in files_[compaction.level + 1] /\ e \in t
  BY InputTables DEF Input
<1>2. e \in Stored
  BY <1>1, InputTables, StoredNumbers
<1> QED
  BY <1>1, <1>2, StoredNumbers

\* The output tables hold what is kept and follow one another; two of them share a user key
\* only if an output ended inside it.
Parted(o, p, K) ==
  /\ Precede(o, p) \/ Precede(p, o)
  /\ \A e \in o, f \in p : e.key = f.key => e.key \in K

LEMMA OutputTables ==
  ASSUME TreeInv, compaction.on, NEW cut \in Runs
  PROVE  /\ \A o \in Outputs(cut) : Table(o) /\ o \subseteq Kept
         /\ \A e \in Kept : \E o \in Outputs(cut) : e \in o
         /\ \A o, p \in Outputs(cut) :
              o = p \/ Parted(o, p, CutKeys(cut))
<1>1. /\ cut \in [Kept -> 1..MaxOutputs] /\ MaxOutputs \in Nat
      /\ \A e, f \in Kept : Before(e, f) => cut[e] <= cut[f]
  BY TreeAssumption DEF Runs
<1>2. TableSet(Inputs)
  BY InputTables
<1>3. ASSUME NEW e \in Kept
      PROVE  /\ e \in Entry /\ e.key \in Nat /\ e.seq \in Nat /\ e \in history
             /\ cut[e] \in 1..MaxOutputs /\ cut[e] \in Nat
  <2>1. PICK t \in Inputs : e \in t
    BY DEF Kept, Input, Inputs
  <2>2. e \in Entry
    BY <2>1, <1>2 DEF TableSet, Table
  <2>3. e \in history
    BY InputIs DEF Kept
  <2>4. cut[e] \in 1..MaxOutputs /\ cut[e] \in Nat
    BY <1>1
  <2> QED
    BY <2>2, <2>3, <2>4, EntryNumbers
<1>4. ASSUME NEW o \in Outputs(cut)
      PROVE  \E i \in 1..MaxOutputs : o = {e \in Kept : cut[e] = i} /\ o # {}
  BY DEF Outputs
<1>5. ASSUME NEW o \in Outputs(cut)
      PROVE  Table(o) /\ o \subseteq Kept
  BY <1>3, <1>4 DEF Table
<1>6. ASSUME NEW e \in Kept
      PROVE  \E o \in Outputs(cut) : e \in o
  <2>1. e \in {f \in Kept : cut[f] = cut[e]} /\ cut[e] \in 1..MaxOutputs
    BY <1>3
  <2>2. {f \in Kept : cut[f] = cut[e]} \in Outputs(cut)
    BY <2>1 DEF Outputs
  <2> QED
    BY <2>1, <2>2
<1>7. ASSUME NEW e \in Kept, NEW f \in Kept, cut[e] < cut[f]
      PROVE  Before(e, f)
  <2>1. /\ e.key \in Nat /\ e.seq \in Nat /\ f.key \in Nat /\ f.seq \in Nat
        /\ cut[e] \in Nat /\ cut[f] \in Nat /\ e \in history /\ f \in history
    BY <1>3
  <2>2. e # f
    BY <2>1, <1>7
  <2>3. e.seq # f.seq
    BY <2>1, <2>2 DEF TreeInv, HistoryInv
  <2>4. ~Before(f, e)
    BY <2>1, <1>1, <1>7
  <2> QED
    BY <2>1, <2>3, <2>4 DEF Before
<1>8. ASSUME NEW o \in Outputs(cut), NEW p \in Outputs(cut), o # p
      PROVE  Parted(o, p, CutKeys(cut))
  <2>1. PICK i \in 1..MaxOutputs : o = {e \in Kept : cut[e] = i}
    BY <1>4
  <2>2. PICK j \in 1..MaxOutputs : p = {e \in Kept : cut[e] = j}
    BY <1>4
  <2>3. i # j /\ i \in Nat /\ j \in Nat
    BY <2>1, <2>2, <1>1, <1>8
  <2>4. /\ \A e \in o : e \in Kept /\ cut[e] = i
        /\ \A f \in p : f \in Kept /\ cut[f] = j
    BY <2>1, <2>2
  <2>5. ASSUME i < j PROVE Precede(o, p)
    BY <2>4, <2>5, <1>7 DEF Precede
  <2>6. ASSUME j < i PROVE Precede(p, o)
    BY <2>4, <2>6, <1>7 DEF Precede
  <2>7. ASSUME NEW e \in o, NEW f \in p, e.key = f.key PROVE e.key \in CutKeys(cut)
    BY <2>3, <2>4, <2>7 DEF CutKeys
  <2> QED
    BY <2>3, <2>5, <2>6, <2>7 DEF Parted
<1> QED
  BY <1>5, <1>6, <1>8

LEMMA InstallStep == TreeInv /\ CompactInstall => TreeInv'
<1> SUFFICES ASSUME TreeInv, CompactInstall PROVE TreeInv'
  OBVIOUS
<1> DEFINE L == compaction.level
<1>1. PICK cut \in Runs :
        /\ files_' = [files_ EXCEPT ![L] = @ \ compaction.inputs0,
                                    ![L + 1] = (@ \ compaction.inputs1) \cup Outputs(cut)]
        /\ split' = split \cup CutKeys(cut)
  BY DEF CompactInstall
<1> DEFINE Out == Outputs(cut)
<1>2. /\ compaction.on /\ compaction' = NoCompaction
      /\ UNCHANGED <<mem_, last_sequence_, snapshots_, history>>
  BY DEF CompactInstall
<1>3. /\ L \in Level /\ L + 1 \in Level /\ L \in Nat
      /\ \A t \in compaction.inputs0 : t \in files_[L] /\ Table(t)
      /\ \A t \in compaction.inputs1 : t \in files_[L + 1] /\ Table(t)
      /\ TableSet(Inputs)
  BY <1>2, InputTables
<1>4. /\ DOMAIN files_ = Level /\ DOMAIN files_' = Level
      /\ files_'[L] = files_[L] \ compaction.inputs0
      /\ files_'[L + 1] = (files_[L + 1] \ compaction.inputs1) \cup Out
      /\ \A m \in Level : m # L /\ m # L + 1 => files_'[m] = files_[m]
  <2>1. DOMAIN files_ = Level /\ L # L + 1
    BY <1>3 DEF TreeInv, TypeOK
  <2> HIDE DEF L
  <2> QED
    BY <1>1, <1>3, <2>1
<1>5. /\ \A o \in Out : Table(o) /\ o \subseteq Kept
      /\ \A e \in Kept : \E o \in Out : e \in o
      /\ \A o, p \in Out : o = p \/ Follow(o, p)'
  <2>1. /\ \A o \in Out : Table(o) /\ o \subseteq Kept
        /\ \A e \in Kept : \E o \in Out : e \in o
        /\ \A o, p \in Out :
             o = p \/ Parted(o, p, CutKeys(cut))
    BY <1>2, OutputTables
  <2> HIDE DEF Out
  <2>2. ASSUME NEW o \in Out, NEW p \in Out, o # p PROVE Follow(o, p)'
    <3>1. Parted(o, p, CutKeys(cut)) /\ split' = split \cup CutKeys(cut)
      BY <2>1, <2>2, <1>1
    <3> QED
      BY <3>1 DEF Parted, Follow, Share, Precede
  <2> QED
    BY <2>1, <2>2
<1>a. split \subseteq split' /\ CutKeys(cut) \subseteq Keys /\ split' = split \cup CutKeys(cut)
  <2>1. CutKeys(cut) \subseteq Keys
    <3>1. \A e \in Kept : e \in history
      BY InputIs DEF Kept
    <3>2. \A e \in history : e.key \in Keys
      BY StoredNumbers, EntryNumbers
    <3> QED
      BY <3>1, <3>2 DEF CutKeys
  <2> QED
    BY <2>1, <1>1
<1> HIDE DEF Out, L
<1>6. /\ last_sequence_ \in Nat /\ Stored \subseteq history
      /\ \A f \in history : /\ f \in Entry /\ f.seq \in Nat /\ f.key \in Nat
                            /\ f.seq <= last_sequence_
      /\ \A s \in Views : s \in Nat /\ s <= last_sequence_
      /\ \A m \in Level : \A u \in files_[m] : u \subseteq Stored
  BY StoredNumbers
<1>7. ASSUME NEW m \in Level, NEW u \in files_'[m]
      PROVE  \/ /\ u \in files_[m]
                /\ m = L => u \notin compaction.inputs0
                /\ m = L + 1 => u \notin compaction.inputs1
             \/ m = L + 1 /\ u \in Out
  BY <1>3, <1>4
<1>8. Kept \subseteq Input
  BY DEF Kept
<1>9. ASSUME NEW e \in Input
      PROVE  /\ e \in Stored /\ e \in history
             /\ \/ \E t \in compaction.inputs0 : t \in files_[L] /\ e \in t
                \/ \E t \in compaction.inputs1 : t \in files_[L + 1] /\ e \in t
  BY InputIs DEF L
<1>10. \A m \in Level : \A u \in files_[m] : Table(u)
  BY DEF TreeInv, TypeOK, Table
<1>11. Stored' \subseteq Stored
  <2> SUFFICES ASSUME NEW e \in Stored' PROVE e \in Stored
    OBVIOUS
  <2>1. CASE e \in mem_'
    BY <2>1, <1>2 DEF Stored
  <2>2. CASE \E m \in Level : \E u \in files_'[m] : e \in u
    <3>0. PICK m \in Level : \E u \in files_'[m] : e \in u
      BY <2>2
    <3>1. PICK u \in files_'[m] : e \in u
      BY <3>0
    <3>2. CASE u \in files_[m]
      BY <3>1, <3>2, <1>6
    <3>3. CASE u \in Out
      BY <3>1, <3>3, <1>5, <1>8, <1>9
    <3> QED
      BY <3>2, <3>3, <1>7
  <2> QED
    BY <2>1, <2>2 DEF Stored
<1>12. TypeOK'
  <2>1. \A m \in Level : \A u \in files_'[m] : u \subseteq Entry /\ u # {}
    BY <1>5, <1>7, <1>10 DEF Table
  <2>2. 0 \in 0..(NumLevels - 2) /\ 0 \in 0..last_sequence_
    BY <1>6, TreeAssumption
  <2> QED
    BY <2>1, <2>2, <1>2, <1>4, <1>a DEF TreeInv, TypeOK, NoCompaction
<1>13. HistoryInv'
  BY <1>2, <1>11 DEF TreeInv, HistoryInv
<1>14. FlushInv'
  <2>1. ASSUME NEW e \in mem_', NEW m \in Level, NEW u \in files_'[m], NEW f \in u
        PROVE  e.seq > f.seq
    <3>1. CASE u \in files_[m]
      BY <3>1, <1>2 DEF TreeInv, FlushInv
    <3>2. CASE u \in Out
      <4>1. f \in Input
        BY <3>2, <1>5, <1>8
      <4>2. PICK l \in Level : \E t \in files_[l] : f \in t
        BY <4>1, <1>3, <1>9
      <4> QED
        BY <4>2, <1>2 DEF TreeInv, FlushInv
    <3> QED
      BY <3>1, <3>2, <1>7
  <2>2. files_'[0] \subseteq files_[0]
    <3>1. 0 \in Level /\ L + 1 # 0
      BY <1>3, TreeAssumption DEF Level
    <3> QED
      BY <3>1, <1>7
  <2> QED
    BY <2>1, <2>2 DEF TreeInv, FlushInv
<1>15. CompactionInv /\ NewerAbove /\ SortedInv
  BY DEF TreeInv
<1>16. ASSUME NEW u \in files_[L + 1] \ compaction.inputs1
       PROVE  Follow(u, Input)
  BY <1>2, <1>15 DEF CompactionInv, L
<1>17. ASSUME NEW u \in files_[L] \ compaction.inputs0, NEW e \in u,
              NEW t \in compaction.inputs0, NEW f \in t, e.key = f.key
       PROVE  e.seq > f.seq \/ e.key \in split
  BY <1>2, <1>15, <1>17 DEF CompactionInv, L
<1>18. SortedInv'
  <2> SUFFICES ASSUME NEW m \in Level \ {0}, NEW u \in files_'[m], NEW w \in files_'[m],
                      u # w
               PROVE  Follow(u, w)'
    BY DEF SortedInv
  <2>0. \A S, T : Follow(S, T) => Follow(S, T)' /\ Follow(T, S)'
    BY <1>a DEF Follow, Share, Precede
  <2>1. CASE u \in files_[m] /\ w \in files_[m]
    BY <2>0, <2>1, <1>15 DEF SortedInv
  <2>2. ASSUME NEW o \in Out, NEW x \in files_[L + 1] \ compaction.inputs1
        PROVE  Follow(o, x)' /\ Follow(x, o)'
    <3>1. o \subseteq Input
      BY <1>5, <1>8
    <3>2. Follow(x, o)
      BY <3>1, <1>16 DEF Follow, Share, Precede
    <3> QED
      BY <2>0, <3>2
  <2>3. CASE u \in Out /\ w \in Out
    BY <2>3, <1>5
  <2> QED
    BY <2>1, <2>2, <2>3, <1>7
<1>19. ASSUME NEW a \in Level, NEW b \in Level, a < b,
              NEW u \in files_[a], NEW w \in files_[b],
              NEW e \in u, NEW f \in w, e.key = f.key
       PROVE  e.seq > f.seq \/ e.key \in split
  BY <1>15, <1>19 DEF NewerAbove
<1>20. NewerAbove'
  <2> SUFFICES ASSUME NEW a \in Level, NEW b \in Level, a < b,
                      NEW u \in files_'[a], NEW w \in files_'[b],
                      NEW e \in u, NEW f \in w, e.key = f.key
               PROVE  e.seq > f.seq \/ e.key \in split
    BY <1>a DEF NewerAbove
  <2>0. a \in Nat /\ b \in Nat
    BY TreeAssumption DEF Level
  <2>1. CASE u \in files_[a] /\ w \in files_[b]
    BY <2>1, <1>19
  <2>2. CASE a = L + 1 /\ u \in Out /\ w \in files_[b]
    <3>1. e \in Input
      BY <2>2, <1>5, <1>8
    <3>2. L < b /\ L + 1 < b
      BY <2>0, <2>2, <1>3
    <3> QED
      BY <3>1, <3>2, <2>2, <1>3, <1>9, <1>19
  <2>3. CASE /\ b = L + 1 /\ w \in Out /\ u \in files_[a]
             /\ a = L => u \notin compaction.inputs0
    <3>0. f \in Input
      BY <2>3, <1>5, <1>8
    <3>1. a < L + 1 /\ (a = L \/ a < L)
      BY <2>0, <2>3, <1>3
    <3>2. CASE \E t \in compaction.inputs1 : t \in files_[L + 1] /\ f \in t
      BY <3>1, <3>2, <2>3, <1>3, <1>19
    <3>3. CASE \E t \in compaction.inputs0 : t \in files_[L] /\ f \in t
      <4>1. CASE a < L
        BY <4>1, <3>3, <2>3, <1>3, <1>19
      <4>2. CASE a = L
        BY <4>2, <3>3, <2>3, <1>17
      <4> QED
        BY <4>1, <4>2, <3>1
    <3> QED
      BY <3>0, <3>2, <3>3, <1>9
  <2>4. ~(a = L + 1 /\ b = L + 1)
    BY <2>0
  <2> QED
    BY <2>1, <2>2, <2>3, <2>4, <1>7
<1>21. CompactionInv'
  BY <1>2 DEF CompactionInv, NoCompaction
<1>22. ASSUME NEW s \in Views, NEW e \in Stored, Last(e, s), e \notin Stored',
              e.key \notin split
       PROVE  e.type = "deletion" /\ \A f \in Stored' : f.key = e.key => f.seq > s
  <2>1. e \in Input /\ e \notin Kept
    <3>1. e \notin mem_
      BY <1>2, <1>22 DEF Stored
    <3>0. PICK m \in Level : \E u \in files_[m] : e \in u
      BY <3>1 DEF Stored
    <3>2. PICK u \in files_[m] : e \in u
      BY <3>0
    <3>3. u \notin files_'[m]
      BY <3>2, <1>22 DEF Stored
    <3>4. u \in compaction.inputs0 \cup compaction.inputs1
      BY <3>3, <1>4
    <3>5. e \notin Kept
      <4> SUFFICES ASSUME e \in Kept PROVE FALSE
        OBVIOUS
      <4>1. PICK o \in Out : e \in o
        BY <1>5
      <4>2. o \in files_'[L + 1]
        BY <4>1, <1>4
      <4> QED
        BY <4>1, <4>2, <1>3, <1>22 DEF Stored
    <3> QED
      BY <3>2, <3>4, <3>5 DEF Input
  <2>2. Drop(e)
    BY <2>1 DEF Kept
  <2>3. compaction.smallest_snapshot <= s /\ compaction.smallest_snapshot \in Nat
    BY <1>2, <1>6, <1>15 DEF CompactionInv, TreeInv, TypeOK
  <2>4. e.seq <= s /\ \A f \in history : f.key = e.key /\ f.seq <= s => f.seq <= e.seq
    BY <1>22 DEF Last
  <2>5. /\ e.type = "deletion" /\ e.seq <= compaction.smallest_snapshot
        /\ IsBaseLevelForKey(e.key)
    <3>1. ASSUME NEW n \in Input, n.key = e.key, n.seq > e.seq,
                 n.seq <= compaction.smallest_snapshot
          PROVE  FALSE
      <4>1. n \in history /\ e \in history
        BY <1>9, <2>1
      <4>2. n.seq \in Nat /\ e.seq \in Nat /\ s \in Nat
        BY <4>1, <1>6
      <4>3. n.seq <= s
        BY <4>2, <3>1, <2>3
      <4> QED
        BY <4>1, <4>2, <4>3, <3>1, <2>4
    <3> QED
      BY <3>1, <2>2 DEF Drop
  <2>6. ASSUME NEW f \in Stored', f.key = e.key, ~(f.seq > s)
        PROVE  FALSE
    <3>1. /\ f \in history /\ e \in history /\ f # e
          /\ f.seq \in Nat /\ e.seq \in Nat /\ s \in Nat /\ e.key \in Nat
      BY <1>6, <1>11, <1>22
    <3>2. f.seq <= e.seq
      BY <3>1, <2>4, <2>6
    <3>3. f.seq # e.seq
      BY <3>1 DEF TreeInv, HistoryInv
    <3>4. f.seq < e.seq /\ ~(f.seq > e.seq)
      BY <3>1, <3>2, <3>3
    <3>0. PICK x \in {L, L + 1} : \E t \in files_[x] :
            /\ e \in t
            /\ \/ x = L /\ t \in compaction.inputs0
               \/ x = L + 1 /\ t \in compaction.inputs1
      BY <2>1, <1>3, <1>9
    <3>5. PICK t \in files_[x] :
            /\ e \in t /\ x \in Level
            /\ \/ x = L /\ t \in compaction.inputs0
               \/ x = L + 1 /\ t \in compaction.inputs1
      BY <3>0, <1>3
    <3>6. CASE f \in mem_
      BY <3>4, <3>5, <3>6 DEF TreeInv, FlushInv
    <3>7. CASE \E m \in Level : \E u \in files_'[m] : f \in u
      <4>0. PICK m \in Level : \E u \in files_'[m] : f \in u
        BY <3>7
      <4>1. PICK u \in files_'[m] : f \in u
        BY <4>0
      <4>2. CASE u \in Out
        <5>1. f \in Kept
          BY <4>1, <4>2, <1>5
        <5>2. Drop(f)
          BY <3>1, <3>4, <2>1, <2>5, <2>6 DEF Drop
        <5> QED
          BY <5>1, <5>2 DEF Kept
      <4>3. CASE /\ u \in files_[m]
                 /\ m = L => u \notin compaction.inputs0
                 /\ m = L + 1 => u \notin compaction.inputs1
        <5>0. m \in Nat /\ x \in Nat
          BY <3>5, TreeAssumption DEF Level
        <5>1. CASE m < L
          <6>1. m < x
            BY <5>0, <5>1, <3>5, <1>3
          <6> QED
            BY <6>1, <4>1, <4>3, <3>4, <3>5, <2>6, <1>19, <1>22
        <5>2. CASE m = L
          <6>1. CASE x = L /\ t \in compaction.inputs0
            BY <6>1, <5>2, <4>1, <4>3, <3>4, <3>5, <2>6, <1>17, <1>22
          <6>2. CASE x = L + 1
            <7>1. m < x
              BY <5>0, <5>2, <6>2
            <7> QED
              BY <7>1, <4>1, <4>3, <3>4, <3>5, <2>6, <1>19, <1>22
          <6> QED
            BY <6>1, <6>2, <3>5
        <5>3. CASE m = L + 1
          <6>1. Follow(u, Input)
            BY <5>3, <4>3, <1>16
          <6> QED
            BY <6>1, <4>1, <2>1, <2>6, <1>22 DEF Follow, Share
        <5>4. CASE m >= L + 2
          <6>1. u \in compaction.base[m] \/ \A g \in u, h \in Input : g.key # h.key
            BY <5>4, <4>3, <1>2, <1>15 DEF CompactionInv, L
          <6>2. u \in compaction.base[m]
            BY <6>1, <4>1, <2>1, <2>6
          <6>3. ~Overlaps(u, e.key, e.key)
            BY <6>2, <5>4, <2>5 DEF IsBaseLevelForKey, L
          <6>4. RangeStart({u}) <= f.key /\ f.key <= RangeLimit({u})
            BY <4>1, <4>3, <1>10, TableRange
          <6>5. RangeStart({u}) \in Nat /\ RangeLimit({u}) \in Nat
            BY <4>3, <1>10, TableRange
          <6> QED
            BY <6>3, <6>4, <6>5, <3>1, <2>6 DEF Overlaps
        <5> QED
          BY <5>0, <5>1, <5>2, <5>3, <5>4, <1>3
      <4> QED
        BY <4>1, <4>2, <4>3, <1>7
    <3> QED
      BY <3>6, <3>7, <1>2 DEF Stored
  <2> QED
    BY <2>5, <2>6
<1>23. KeptInv'
  <2> SUFFICES ASSUME NEW s \in Views', NEW e \in history', Last(e, s)',
                      e.key \notin split
               PROVE  (\/ e \in Stored
                       \/ e.type = "deletion" /\ \A f \in Stored : f.key = e.key => f.seq > s)'
    BY <1>a DEF KeptInv
  <2>1. s \in Views /\ e \in history /\ Last(e, s)
    BY <1>2 DEF Views, Last
  <2>2. \/ e \in Stored
        \/ e.type = "deletion" /\ \A f \in Stored : f.key = e.key => f.seq > s
    BY <2>1 DEF TreeInv, KeptInv
  <2> QED
    BY <2>1, <2>2, <1>11, <1>22
<1> QED
  BY <1>12, <1>13, <1>14, <1>18, <1>20, <1>21, <1>23 DEF TreeInv

\* The inductive invariant holds in every state of the tree.
THEOREM TreeInvariant == Spec => []TreeInv
<1>1. Init => TreeInv
  BY InitTree
<1>2. TreeInv /\ [Next]_vars => TreeInv'
  <2> SUFFICES ASSUME TreeInv, [Next]_vars PROVE TreeInv'
    OBVIOUS
  <2>1. CASE UNCHANGED vars
    <3>1. /\ UNCHANGED <<mem_, files_, last_sequence_, snapshots_, history, split>>
          /\ compaction' = compaction
      BY <2>1 DEF vars
    <3>2. Views' \subseteq Views
      BY <3>1 DEF Views
    <3>3. TypeOK' /\ CompactionInv'
      BY <3>1 DEF TreeInv, TypeOK, CompactionInv, Inputs, Input, Views, Follow, Share,
         Precede
    <3> QED
      BY <3>1, <3>2, <3>3, SameTree DEF TreeInv
  <2> QED
    BY <2>1, WriteStep, SnapshotStep, FlushStep, BeginStep, InstallStep, FailStep
       DEF Next
<1> QED
  BY <1>1, <1>2, PTL DEF Spec

-----------------------------------------------------------------------------
(* What Get() finds in the tree.                                           *)

LEMMA NewestIs ==
  ASSUME NEW S, S \subseteq Entry, S # {}
  PROVE  Newest(S) \in S /\ \A f \in S : f.seq <= Newest(S).seq
<1> DEFINE N == {e.seq : e \in S}
<1>1. N \subseteq Nat /\ N # {} /\ \A y \in N : y <= MaxWrites
  BY EntryNumbers
<1>2. MaxWrites \in Nat
  BY TreeAssumption
<1>3. Max(N) \in N /\ \A y \in N : y <= Max(N)
  <2> HIDE DEF N
  <2> QED
    BY <1>1, <1>2, MaxNat
<1>4. PICK e \in S : e.seq = Max(N)
  BY <1>3
<1>5. \A f \in S : f.seq <= e.seq
  BY <1>3, <1>4
<1> QED
  BY <1>5 DEF Newest

\* Level 0: the newest table that has an entry of the key has the newest one.
LEMMA Level0Newest ==
  ASSUME TreeInv, NEW k \in Keys, NEW s \in Views,
         NEW u \in files_[0], NEW e \in Hits(u, k, s)
  PROVE  \E g \in InLevel(0, k, s) : e.seq <= g.seq
<1>0. 0 \in Level
  BY TreeAssumption DEF Level
<1> DEFINE hit == {t \in files_[0] : Hits(t, k, s) # {}}
           top(t) == Max({f.seq : f \in t})
           N == {top(t) : t \in hit}
<1>1. \A t \in files_[0] : Table(t) /\ \A f \in t : f.seq \in Nat /\ f.seq <= MaxWrites
  <2>1. \A t \in files_[0] : Table(t)
    BY <1>0 DEF TreeInv, TypeOK, Table
  <2> QED
    BY <2>1, EntryNumbers DEF Table
<1>2. MaxWrites \in Nat
  BY TreeAssumption
<1>3. ASSUME NEW t \in files_[0]
      PROVE  top(t) \in {f.seq : f \in t} /\ \A f \in t : f.seq <= top(t)
  <2> DEFINE T == {f.seq : f \in t}
  <2>1. T \subseteq Nat /\ T # {} /\ \A y \in T : y <= MaxWrites
    BY <1>1 DEF Table
  <2>2. \A f \in t : f.seq \in T
    OBVIOUS
  <2> HIDE DEF T
  <2>3. Max(T) \in T /\ \A y \in T : y <= Max(T)
    BY <2>1, <1>2, MaxNat
  <2>4. top(t) = Max(T)
    BY DEF T
  <2>5. T = {f.seq : f \in t}
    BY DEF T
  <2> HIDE DEF top
  <2> QED
    BY <2>2, <2>3, <2>4, <2>5
<1> HIDE DEF top
<1>4. u \in hit
  OBVIOUS
<1>5. N \subseteq Nat /\ N # {} /\ \A y \in N : y <= MaxWrites
  <2>1. \A t \in files_[0] : top(t) \in Nat /\ top(t) <= MaxWrites
    BY <1>1, <1>3
  <2> QED
    BY <2>1, <1>4
<1>6. PICK t \in hit : \A w \in hit : top(w) <= top(t)
  <2>1. Max(N) \in N /\ \A y \in N : y <= Max(N)
    <3> HIDE DEF N
    <3> QED
      BY <1>2, <1>5, MaxNat
  <2> QED
    BY <2>1
<1>7. t \in files_[0] /\ Hits(t, k, s) # {}
  BY <1>6
<1>8. t \subseteq InLevel0(k, s)
  BY <1>6 DEF InLevel0, top
<1>9. Hits(t, k, s) \subseteq InLevel(0, k, s)
  BY <1>8 DEF InLevel, Hits
<1>10. PICK g \in Hits(t, k, s) : TRUE
  BY <1>7
<1>11. g \in t /\ e \in u /\ g.seq \in Nat /\ e.seq \in Nat
  BY <1>1, <1>7 DEF Hits
<1>12. CASE u = t
  <2>1. e \in InLevel(0, k, s) /\ e.seq <= e.seq
    BY <1>9, <1>11, <1>12
  <2> QED
    BY <2>1
<1>13. CASE \A x \in u, y \in t : x.seq < y.seq
  <2>1. e.seq <= g.seq
    BY <1>11, <1>13
  <2> QED
    BY <2>1, <1>9
<1>14. CASE \A x \in u, y \in t : x.seq > y.seq
  <2>1. PICK y \in t : y.seq = top(t)
    BY <1>3, <1>7
  <2>2. e.seq > y.seq /\ e.seq <= top(u)
    BY <1>3, <1>11, <1>14
  <2>3. top(u) <= top(t)
    BY <1>4, <1>6
  <2>4. top(u) \in Nat /\ top(t) \in Nat
    BY <1>1, <1>3, <1>7
  <2> QED
    BY <2>1, <2>2, <2>3, <2>4, <1>11
<1> QED
  BY <1>7, <1>12, <1>13, <1>14 DEF TreeInv, FlushInv

\* A sorted level: the first table that does not end before the key has its entries.
LEMMA SortedLevelFinds ==
  ASSUME TreeInv, NEW k \in Keys \ split, NEW s \in Views, NEW l \in Level \ {0},
         NEW t \in files_[l], NEW e \in Hits(t, k, s)
  PROVE  e \in InLevel(l, k, s)
<1> DEFINE target == [key |-> k, seq |-> s, type |-> "value"]
           from == {u \in files_[l] : ~Before(Largest(u), target)}
<1>1. \A u \in files_[l] : Table(u) /\ OwnNumbers(u)
  <2>1. \A u \in files_[l] : Table(u)
    BY DEF TreeInv, TypeOK, Table
  <2>2. \A u \in files_[l] : u \subseteq history
    BY StoredNumbers
  <2> QED
    BY <2>1, <2>2 DEF TreeInv, HistoryInv, OwnNumbers
<1>2. k \in Nat /\ s \in Nat
  BY TreeAssumption, StoredNumbers
<1>3. e \in t /\ e.key = k /\ e.seq <= s
  BY DEF Hits
<1>4. \A u \in files_[l] :
        /\ Largest(u) \in u /\ Largest(u).key = RangeLimit({u})
        /\ \A f \in u : f = Largest(u) \/ Before(f, Largest(u))
        /\ Smallest(u).key = RangeStart({u}) /\ Smallest(u) \in u
  BY <1>1, SmallestIs, LargestIs
<1>5. \A u \in files_[l] : /\ RangeStart({u}) \in Nat /\ RangeLimit({u}) \in Nat
                           /\ RangeStart({u}) <= RangeLimit({u})
  BY <1>1, TableRange
<1>6. RangeStart({t}) <= k /\ k <= RangeLimit({t})
  BY <1>1, <1>3, TableRange
<1>7. ~Before(Largest(t), target)
  <2>1. Largest(t) \in Entry /\ e \in Entry
    BY <1>1, <1>3, <1>4 DEF Table
  <2>2. /\ Largest(t).seq \in Nat /\ Largest(t).key \in Nat /\ e.seq \in Nat
    BY <2>1, EntryNumbers
  <2>3. Largest(t).key = RangeLimit({t}) /\ (e = Largest(t) \/ Before(e, Largest(t)))
    BY <1>3, <1>4
  <2>4. target.key = k /\ target.seq = s
    OBVIOUS
  <2> HIDE DEF target
  <2> QED
    BY <2>2, <2>3, <2>4, <1>2, <1>3, <1>6 DEF Before
<1>8. ASSUME NEW u \in from, u # t
      PROVE  Before(Smallest(t), Smallest(u))
  <2>1. u \in files_[l] /\ ~Before(Largest(u), target)
    OBVIOUS
  <2>2. Precede(t, u) \/ Precede(u, t)
    BY <2>1, <1>8 DEF TreeInv, SortedInv, Follow
  <2>3. k <= RangeLimit({u})
    <3>1. target.key = k
      OBVIOUS
    <3> HIDE DEF target
    <3> QED
      BY <3>1, <2>1, <1>2, <1>4, <1>5 DEF Before
  <2>4. ~Precede(u, t)
    <3> SUFFICES ASSUME Precede(u, t) PROVE FALSE
      OBVIOUS
    <3>1. PICK f \in u : f.key = RangeLimit({u})
      BY <2>1, <1>1, TableRange
    <3>2. Before(f, e) /\ f.key \in Nat
      BY <3>1, <2>1, <1>3, <1>5 DEF Precede
    <3>3. f.key = k
      BY <3>1, <3>2, <2>3, <1>2, <1>3 DEF Before
    <3>4. Share(u, t)
      BY <2>1, <1>8 DEF TreeInv, SortedInv, Follow
    <3> QED
      BY <3>3, <3>4, <1>3 DEF Share
  <2> QED
    BY <2>1, <2>2, <2>4, <1>4 DEF Precede
<1>9. t \in {u \in from : \A w \in from : w = u \/ Before(Smallest(u), Smallest(w))}
  BY <1>7, <1>8
<1>10. e \in TableFor(l, k, s)
  BY <1>3, <1>9 DEF TableFor
<1> QED
  BY <1>3, <1>10 DEF InLevel, Hits

LEMMA InLevelIs ==
  ASSUME TreeInv, NEW k \in Keys \ split, NEW s \in Views, NEW l \in Level
  PROVE  /\ \A g \in InLevel(l, k, s) : \E t \in files_[l] : g \in Hits(t, k, s)
         /\ \A t \in files_[l] : \A e \in Hits(t, k, s) :
              \E g \in InLevel(l, k, s) : e.seq <= g.seq
<1>1. ASSUME NEW g \in InLevel(l, k, s)
      PROVE  \E t \in files_[l] : g \in Hits(t, k, s)
  <2>1. CASE l = 0
    BY <2>1 DEF InLevel, InLevel0, Hits
  <2>2. CASE l # 0
    BY <2>2 DEF InLevel, TableFor, Hits
  <2> QED
    BY <2>1, <2>2
<1>2. ASSUME NEW t \in files_[l], NEW e \in Hits(t, k, s)
      PROVE  \E g \in InLevel(l, k, s) : e.seq <= g.seq
  <2>1. CASE l = 0
    BY <2>1, Level0Newest
  <2>2. CASE l # 0
    <3>1. e \in InLevel(l, k, s)
      BY <2>2, SortedLevelFinds
    <3>2. e \in history /\ e.seq \in Nat
      BY StoredNumbers DEF Hits
    <3>3. e.seq <= e.seq
      BY <3>2
    <3> QED
      BY <3>1, <3>3
  <2> QED
    BY <2>1, <2>2
<1> QED
  BY <1>1, <1>2

\* The search stops at the newest entry stored.
LEMMA FoundIs ==
  ASSUME TreeInv, NEW k \in Keys \ split, NEW s \in Views
  PROVE  \/ Found(k, s) = {} /\ Hits(Stored, k, s) = {}
         \/ \E n \in Hits(Stored, k, s) :
              Found(k, s) = {n} /\ \A f \in Hits(Stored, k, s) : f.seq <= n.seq
<1> DEFINE hit == {l \in Level : InLevel(l, k, s) # {}}
<1>1. /\ Stored \subseteq history
      /\ \A f \in history : f \in Entry /\ f.seq \in Nat
      /\ \A l \in Level : \A t \in files_[l] : t \subseteq Stored
  BY StoredNumbers
<1>2. ASSUME NEW f \in Hits(Stored, k, s)
      PROVE  \/ f \in Hits(mem_, k, s)
             \/ \E l \in Level : \E t \in files_[l] : f \in Hits(t, k, s)
  BY DEF Stored, Hits
<1>3. \A f \in Hits(Stored, k, s) : f \in Entry /\ f.seq \in Nat
  BY <1>1 DEF Hits
<1>4. CASE Hits(mem_, k, s) # {}
  <2>1. Hits(mem_, k, s) \subseteq Hits(Stored, k, s) /\ Hits(mem_, k, s) \subseteq mem_
    BY DEF Hits, Stored
  <2>2. Hits(mem_, k, s) \subseteq Entry
    BY <2>1, <1>3
  <2> DEFINE n == Newest(Hits(mem_, k, s))
  <2>3. n \in Hits(mem_, k, s) /\ \A f \in Hits(mem_, k, s) : f.seq <= n.seq
    BY <2>2, <1>4, NewestIs
  <2>4. Found(k, s) = {n}
    BY <1>4 DEF Found
  <2> HIDE DEF n
  <2>5. ASSUME NEW f \in Hits(Stored, k, s)
        PROVE  f.seq <= n.seq
    <3>1. CASE f \in Hits(mem_, k, s)
      BY <3>1, <2>3
    <3>2. CASE \E l \in Level : \E t \in files_[l] : f \in Hits(t, k, s)
      <4>1. n.seq > f.seq
        BY <3>2, <2>1, <2>3 DEF TreeInv, FlushInv, Hits
      <4>2. n.seq \in Nat /\ f.seq \in Nat
        BY <1>3, <2>1, <2>3
      <4> QED
        BY <4>1, <4>2
    <3> QED
      BY <3>1, <3>2, <1>2
  <2> QED
    BY <2>1, <2>3, <2>4, <2>5
<1>5. CASE Hits(mem_, k, s) = {} /\ hit # {}
  <2> DEFINE m == Min(hit)
             n == Newest(InLevel(m, k, s))
  <2>1. hit \subseteq Nat
    BY TreeAssumption DEF Level
  <2>2. m \in hit /\ \A l \in hit : m <= l
    <3> HIDE DEF hit
    <3> QED
      BY <2>1, <1>5, MinNat
  <2>3. m \in Level /\ InLevel(m, k, s) # {}
    BY <2>2
  <2>4. Found(k, s) = {n}
    BY <1>5 DEF Found
  <2>5. \A l \in Level : InLevel(l, k, s) # {} => m <= l
    BY <2>2
  <2> HIDE DEF m, hit
  <2>6. \A g \in InLevel(m, k, s) :
          /\ g \in Entry /\ g \in Hits(Stored, k, s)
          /\ \E t \in files_[m] : g \in Hits(t, k, s)
    <3>1. ASSUME NEW g \in InLevel(m, k, s)
          PROVE  \E t \in files_[m] : g \in Hits(t, k, s)
      BY <2>3, InLevelIs
    <3>2. ASSUME NEW g \in InLevel(m, k, s)
          PROVE  g \in Hits(Stored, k, s)
      BY <3>1, <2>3, <1>1 DEF Hits
    <3> QED
      BY <3>1, <3>2, <1>3
  <2>7. n \in InLevel(m, k, s) /\ \A f \in InLevel(m, k, s) : f.seq <= n.seq
    BY <2>3, <2>6, NewestIs
  <2> HIDE DEF n
  <2>8. PICK t \in files_[m] : n \in Hits(t, k, s)
    BY <2>6, <2>7
  <2>9. ASSUME NEW f \in Hits(Stored, k, s)
        PROVE  f.seq <= n.seq
    <3>0. f.seq \in Nat /\ n.seq \in Nat
      BY <2>6, <2>7, <1>3
    <3>1. PICK l \in Level : \E u \in files_[l] : f \in Hits(u, k, s)
      BY <1>2, <1>5
    <3>2. PICK u \in files_[l] : f \in Hits(u, k, s)
      BY <3>1
    <3>3. PICK g \in InLevel(l, k, s) : f.seq <= g.seq
      BY <3>2, InLevelIs
    <3>4. m <= l
      BY <2>5, <3>3
    <3>5. CASE l = m
      <4>1. g.seq \in Nat /\ g.seq <= n.seq
        BY <3>3, <3>5, <2>6, <2>7, <1>3
      <4> QED
        BY <4>1, <3>0, <3>3
    <3>6. CASE m < l
      <4>1. n \in t /\ f \in u /\ n.key = f.key /\ n.key \notin split
        BY <2>8, <3>2 DEF Hits
      <4>2. n.seq > f.seq
        BY <4>1, <3>6, <2>3 DEF TreeInv, NewerAbove
      <4> QED
        BY <4>2, <3>0
    <3>7. m \in Nat /\ l \in Nat
      BY <2>3, TreeAssumption DEF Level
    <3> QED
      BY <3>4, <3>5, <3>6, <3>7
  <2> QED
    BY <2>4, <2>6, <2>7, <2>9
<1>6. CASE Hits(mem_, k, s) = {} /\ hit = {}
  <2>1. Found(k, s) = {}
    BY <1>6 DEF Found
  <2>2. ASSUME NEW f \in Hits(Stored, k, s)
        PROVE  FALSE
    <3>1. PICK l \in Level : \E t \in files_[l] : f \in Hits(t, k, s)
      BY <1>2, <1>6
    <3>2. InLevel(l, k, s) # {}
      BY <3>1, InLevelIs
    <3> QED
      BY <3>2, <1>6
  <2> QED
    BY <2>1, <2>2
<1> QED
  BY <1>4, <1>5, <1>6

LEMMA TreeReadsNewest == TreeInv => ReadsNewest
<1> SUFFICES ASSUME TreeInv, NEW k \in Keys \ split, NEW s \in Views
             PROVE  Get(k, s) = Expected(k, s)
  BY DEF ReadsNewest, Views
<1> DEFINE H == Hits(history, k, s)
           S == Hits(Stored, k, s)
<1>1. /\ Stored \subseteq history
      /\ \A f \in history : f \in Entry /\ f.seq \in Nat
  BY StoredNumbers
<1>2. S \subseteq H /\ H \subseteq Entry
  BY <1>1 DEF Hits
<1>3. Expected(k, s) = {e \in H : e.type = "value" /\ \A f \in H : f.seq <= e.seq}
  BY DEF Expected, Hits
<1>4. CASE H = {}
  <2>1. Found(k, s) = {}
    BY <1>2, <1>4, FoundIs
  <2> QED
    BY <2>1, <1>3, <1>4 DEF Get
<1>5. CASE H # {}
  <2> DEFINE w == Newest(H)
  <2>1. w \in H /\ \A f \in H : f.seq <= w.seq
    BY <1>2, <1>5, NewestIs
  <2> HIDE DEF w
  <2>2. w \in history /\ w.key = k /\ Last(w, s)
    BY <2>1 DEF Hits, Last
  <2>3. ASSUME NEW e \in H, \A f \in H : f.seq <= e.seq
        PROVE  e = w
    <3>1. e.seq <= w.seq /\ w.seq <= e.seq
      BY <2>1, <2>3
    <3>2. e \in history /\ e.seq \in Nat /\ w.seq \in Nat
      BY <1>1, <2>2 DEF Hits
    <3>3. e.seq = w.seq
      BY <3>1, <3>2
    <3> QED
      BY <3>2, <3>3, <2>2 DEF TreeInv, HistoryInv
  <2>4. Expected(k, s) = {e \in {w} : e.type = "value"}
    BY <1>3, <2>1, <2>3
  <2>5. \/ w \in Stored
        \/ w.type = "deletion" /\ \A f \in Stored : f.key = w.key => f.seq > s
    BY <2>2 DEF TreeInv, KeptInv
  <2>6. CASE w \in Stored
    <3>1. w \in S
      BY <2>1, <2>6 DEF Hits
    <3>2. PICK n \in S : Found(k, s) = {n} /\ \A f \in S : f.seq <= n.seq
      BY <3>1, FoundIs
    <3>3. n \in H /\ w.seq <= n.seq /\ n.seq <= w.seq
      BY <3>1, <3>2, <1>2, <2>1
    <3>4. \A f \in H : f.seq <= n.seq
      <4>1. w.seq \in Nat /\ n.seq \in Nat /\ \A f \in H : f.seq \in Nat
        BY <3>3, <1>1, <2>2 DEF Hits
      <4> QED
        BY <4>1, <3>3, <2>1
    <3>5. n = w
      BY <3>3, <3>4, <2>3
    <3> QED
      BY <3>2, <3>5, <2>4 DEF Get
  <2>7. CASE w.type = "deletion" /\ \A f \in Stored : f.key = w.key => f.seq > s
    <3>1. ASSUME NEW f \in S PROVE FALSE
      <4>1. f \in Stored /\ f.key = k /\ f.seq <= s
        BY DEF Hits
      <4>2. f.seq \in Nat /\ s \in Nat
        BY <4>1, StoredNumbers
      <4> QED
        BY <4>1, <4>2, <2>2, <2>7
    <3>2. Found(k, s) = {}
      BY <3>1, FoundIs
    <3>3. w.type # "value"
      BY <2>7
    <3> QED
      BY <3>2, <3>3, <2>4 DEF Get
  <2> QED
    BY <2>5, <2>6, <2>7
<1> QED
  BY <1>4, <1>5

\* Following one another, in terms of the ends of the tables.
LEMMA TreeLevelsDisjoint == TreeInv => LevelsDisjoint
<1> SUFFICES ASSUME TreeInv PROVE LevelsDisjoint
  OBVIOUS
<1>1. ASSUME NEW l \in Level \ {0}, NEW t \in files_[l], NEW u \in files_[l], t # u
      PROVE  Before(Largest(t), Smallest(u)) \/ Before(Largest(u), Smallest(t))
  <2>1. Table(t) /\ Table(u)
    BY DEF TreeInv, TypeOK, Table
  <2>2. t \subseteq history /\ u \subseteq history
    BY StoredNumbers
  <2>3. OwnNumbers(t) /\ OwnNumbers(u)
    BY <2>2 DEF TreeInv, HistoryInv, OwnNumbers
  <2>4. Largest(t) \in t /\ Largest(u) \in u /\ Smallest(t) \in t /\ Smallest(u) \in u
    BY <2>1, <2>3, SmallestIs, LargestIs
  <2>5. Follow(t, u)
    BY <1>1 DEF TreeInv, SortedInv
  <2> QED
    BY <2>4, <2>5 DEF Follow, Precede
<1> QED
  BY <1>1 DEF LevelsDisjoint, TreeInv

-----------------------------------------------------------------------------
(* The theorems.                                                           *)

\* The tables of a level below level 0 do not overlap, also when a flush puts a table into
\* a level that a compaction writes to (it can only fall outside the range of the inputs), and
\* wherever the outputs end, inside a user key too.
THEOREM DisjointLevels == Spec => []LevelsDisjoint
BY TreeInvariant, TreeLevelsDisjoint, PTL

\* The entries of a user key get older from level to level, so a search may stop at the
\* first level that has one; but for a key inside which an output ended.
THEOREM NewerStaysAbove == Spec => []NewerAbove
<1>1. TreeInv => NewerAbove
  BY DEF TreeInv
<1> QED
  BY <1>1, TreeInvariant, PTL

\* Get() returns the newest write of a key, now and in every snapshot held, whatever was
\* flushed, merged and dropped; but for a key inside which an output ended, which harms no
\* other key.
THEOREM ReadsAreNewest == Spec => []ReadsNewest
BY TreeInvariant, TreeReadsNewest, PTL
=============================================================================
