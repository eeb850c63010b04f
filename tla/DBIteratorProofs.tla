-------------------------- MODULE DBIteratorProofs --------------------------
(***************************************************************************)
(* The iterator of a DB implements SnapshotCursor, for any set of keys,    *)
(* any number of children and of writes; and on the way of its merging     *)
(* iterator no child leaves out an entry of the snapshot.                  *)
(*                                                                         *)
(* The argument: of all entries of the snapshot, those on the side that    *)
(* the merging iterator moves to are still before it; so a call passes     *)
(* over every one between where it started and what it shows, and          *)
(* DBIter's fields say enough about the entries passed.                    *)
(***************************************************************************)
EXTENDS DBIterator, FiniteSetsExt, FiniteSetTheorems, WellFoundedInduction, TLAPS

-----------------------------------------------------------------------------
(* The smallest and the largest of some numbers.                           *)

\* Min() of some numbers is one of them and the smallest.
LEMMA MinNat ==
  ASSUME NEW S, S \subseteq Nat, S # {}
  PROVE  Min(S) \in S /\ \A y \in S : Min(S) <= y
<1> DEFINE R == {ss \in Nat \X Nat : ss[1] < ss[2]}
<1>1. OpToRel(<, Nat) = R
  BY Zenon DEF OpToRel
<1>2. IsWellFoundedOn(R, Nat)
  BY <1>1, NatLessThanWellFounded, Zenon
<1>3. PICK x \in S : \A y \in S : ~(<<y, x>> \in R)
  BY <1>2, WFMin
<1>4. ASSUME NEW y \in S
      PROVE  x <= y
  <2>1. x \in Nat /\ y \in Nat
    OBVIOUS
  <2>2. ~(<<y, x>> \in R)
    BY <1>3
  <2>3. y < x => <<y, x>> \in R
    BY <2>1
  <2> HIDE DEF R
  <2> QED
    BY <2>1, <2>2, <2>3
<1> QED
  BY <1>4 DEF Min

\* Max() of some numbers that have a bound is one of them and the largest.
LEMMA MaxNat ==
  ASSUME NEW S, S \subseteq Nat, S # {}, NEW B \in Nat, \A y \in S : y <= B
  PROVE  Max(S) \in S /\ \A y \in S : y <= Max(S)
<1> DEFINE T == {n \in Nat : B - n \in S}
<1>1. PICK y \in S : TRUE
  OBVIOUS
<1>2. \A z \in S : B - z \in T
  OBVIOUS
<1>3. Min(T) \in T /\ \A z \in T : Min(T) <= z
  BY <1>1, <1>2, MinNat
<1>4. B - Min(T) \in S /\ \A z \in S : z <= B - Min(T)
  BY <1>2, <1>3
<1> HIDE DEF T
<1> QED
  BY <1>4 DEF Max

\* A finite set of numbers has a bound: in a list of its members, take the first that
\* would make the ones so far unbounded.
LEMMA FiniteBound ==
  ASSUME NEW S, S \subseteq Nat, IsFiniteSet(S)
  PROVE  \E b \in Nat : \A k \in S : k <= b
<1>0. PICK len \in Nat : ExistsBijection(1..len, S)
  BY FS_NatBijection
<1>1. PICK q \in [1..len -> S] : \A s \in S : \E n \in 1..len : q[n] = s
  BY <1>0 DEF ExistsBijection, Bijection, Surjection
<1> DEFINE Bounded(m) == \E b \in Nat : \A n \in 1..m : q[n] <= b
           Bad == {m \in 0..len : ~Bounded(m)}
<1>2. \A n \in 1..len : q[n] \in S /\ q[n] \in Nat
  OBVIOUS
<1>3. ASSUME NEW m \in Bad, \A y \in Bad : m <= y
      PROVE  FALSE
  <2>1. m # 0
    <3>1. Bounded(0)
      OBVIOUS
    <3> QED
      BY <3>1
  <2>2. m - 1 \in 0..len /\ m \in 1..len /\ ~(m <= m - 1)
    BY <2>1
  <2>3. PICK b \in Nat : \A n \in 1..(m - 1) : q[n] <= b
    BY <1>3, <2>2
  <2>4. q[m] \in Nat /\ \A n \in 1..m : n \in 1..(m - 1) \/ n = m
    BY <1>2, <2>2
  <2>5. ASSUME NEW n \in 1..m
        PROVE  q[n] <= b + q[m]
    <3>1. q[n] \in Nat
      BY <1>2, <2>2
    <3>2. CASE n \in 1..(m - 1)
      BY <2>3, <2>4, <3>1, <3>2
    <3>3. CASE n = m
      BY <2>4, <3>3
    <3> QED
      BY <2>4, <3>2, <3>3
  <2>6. b + q[m] \in Nat
    BY <2>4
  <2>7. Bounded(m)
    BY <2>5, <2>6
  <2> QED
    BY <2>7
<1>4. Bad \subseteq Nat
  OBVIOUS
<1>5. Bounded(len)
  <2> SUFFICES ASSUME ~Bounded(len) PROVE FALSE
    OBVIOUS
  <2>1. len \in Bad
    OBVIOUS
  <2> HIDE DEF Bad
  <2>2. Min(Bad) \in Bad /\ \A y \in Bad : Min(Bad) <= y
    BY <1>4, <2>1, MinNat
  <2> QED
    BY <1>3, <2>2
<1> QED
  BY <1>1, <1>5

-----------------------------------------------------------------------------
(* The inductive invariant.                                                *)

\* Every entry has a sequence number of its own and is in one child; those after the
\* number of entries are still to come, those of the snapshot are all there.
DataInv ==
  /\ IsFiniteSet(Entries)
  /\ sequence_ <= Cardinality(Entries)
  /\ \A e \in Entries : e.seq <= Cardinality(Entries)
  /\ \A e, f \in Entries : e.seq = f.seq => e = f
  /\ \A c, d \in Child : c # d => data[c] \cap data[d] = {}

\* The children stand beyond the current one, each at its first entry there, but for
\* entries inserted since.
Towards(direction, e, f) == IF direction = "forward" THEN Before(e, f) ELSE Before(f, e)
InPlace(m) ==
  /\ \A c \in Child : m.at[c] = NoEntry \/ m.at[c] \in data[c]
  /\ Valid(m) => \A c \in Child \ {m.current} :
       /\ m.at[c] # NoEntry => Towards(m.direction, At(m), m.at[c])
       /\ \A e \in data[c] : Visible(e) /\ Towards(m.direction, At(m), e) =>
            m.at[c] # NoEntry /\ ~Towards(m.direction, e, m.at[c])

\* Where a call is, as far as the types depend on it.
ControlInv ==
  /\ pc = "seek" => call.op = "seek"
  /\ call.op = "seek" => call.arg \in Keys
  /\ pc \in {"next", "prev"} => valid_
  /\ valid_ /\ pc \in {"idle", "next", "prev"} =>
       IF direction_ = "forward" THEN Valid(merge) ELSE saved_key_ \in Keys
  /\ pc = "next_entry" => direction_ = "forward" /\ Valid(merge)
  /\ pc = "back" => direction_ = "forward" /\ Valid(merge) /\ saved_key_ \in Keys
  /\ pc = "prev_entry" =>
       direction_ = "reverse" /\ (value_type = "value" => saved_key_ \in Keys)

MergeInv == TypeOK /\ DataInv /\ InPlace(merge) /\ ControlInv

-----------------------------------------------------------------------------
(* The invariant that the refinement needs besides.                        *)

\* The keys that the call may show.
Wanted ==
  {k \in DOMAIN View :
     CASE call.op = "seek" -> k >= call.arg
       [] call.op = "next" -> \A r \in from : k > r.key
       [] call.op = "prev" -> \A r \in from : k < r.key
       [] OTHER -> TRUE}

\* Between calls: a forward iterator stands at what it shows; a backward one, in iter_,
\* before the entries of the key that it shows, with none of the snapshot in between.
Standing ==
  direction_ = "reverse" =>
    /\ saved_key_ \in DOMAIN View /\ saved_value_ = View[saved_key_]
    /\ Valid(merge) => At(merge).key < saved_key_
    /\ \A e \in Entries : Visible(e) /\ e.key < saved_key_ =>
         Valid(merge) /\ ~Before(At(merge), e)

\* Next() has passed nothing of the snapshot but entries of the key it started from; or it
\* slipped, and then the first entry of the snapshot before it is the one that was shown.
Turned(r) == saved_key_ >= r.key /\ At(merge).key >= r.key
SlippedBack(r) ==
  /\ saved_key_ < r.key /\ \E e \in Newer : e.key = saved_key_
  /\ r.key \in DOMAIN View /\ r = [key |-> r.key, value |-> View[r.key]]
  /\ \A e \in Entries : Visible(e) /\ ~Before(e, At(merge)) => e.key >= r.key
  /\ \A e \in Newest(r.key) : ~Before(e, At(merge))

\* FindNextUserEntry(): what the call may show is not yet passed and is not hidden; a key
\* is hidden once an entry of it that shows has been passed.
Forward ==
  /\ \A k \in Wanted : /\ \A e \in Newest(k) : ~Before(e, At(merge))
                       /\ skipping => k > saved_key_
  /\ \A e \in Entries : Visible(e) /\ Before(e, At(merge)) /\ e.key = At(merge).key =>
       skipping /\ e.key <= saved_key_
  /\ call.op = "seek" => At(merge).key >= call.arg
  /\ call.op = "next" =>
       skipping /\ \E r \in from :
         from = {r} /\ r.key \in Nat /\ (Turned(r) \/ SlippedBack(r))

\* Prev(): iter_ goes back over the entries of the key shown.
GoingBack ==
  /\ At(merge).key >= saved_key_
  /\ \E r \in from : from = {r} /\ r.key = saved_key_

\* An entry in the range of a backward call that iter_ has gone back over.
Reachable(e) == call.op = "prev" => \A r \in from : e.key < r.key
Passed(e) == Valid(merge) => Before(At(merge), e)

\* FindPrevUserEntry(): of what the call may show only the key saved is passed, and the
\* entry saved is the last one passed.
Backward ==
  /\ Valid(merge) => Reachable(At(merge))
  /\ call.op = "prev" => \E r \in from : from = {r} /\ r.key \in Nat
  /\ \A k \in Wanted : \A e \in Newest(k) : Passed(e) =>
       value_type = "value" /\ saved_key_ = k /\ saved_value_ = e.seq
  /\ value_type = "value" =>
       /\ \E w \in Entries : /\ w.key = saved_key_ /\ w.seq = saved_value_ /\ Visible(w)
                             /\ w.type = "value" /\ Reachable(w) /\ Passed(w)
       /\ \A e \in Entries : Visible(e) /\ Reachable(e) /\ Passed(e) =>
            e.key > saved_key_ \/ (e.key = saved_key_ /\ e.seq <= saved_value_)

\* The call, and where it is.
CursorInv ==
  /\ pc = "idle" => call = Idle /\ from = {}
  /\ pc \in {"first", "seek", "last", "next", "prev"} => call.op = pc
  /\ pc \in {"next", "prev"} => from = Shown
  /\ pc = "next_entry" => call.op \in {"first", "seek", "next"} /\ Forward
  /\ pc = "back" => call.op = "prev" /\ GoingBack
  /\ pc = "prev_entry" => call.op \in {"last", "prev"} /\ Backward
  /\ valid_ /\ pc \in {"idle", "next", "prev"} => Standing

-----------------------------------------------------------------------------
(* Entries and their order.                                                *)

LEMMA EntryIs ==
  ASSUME NEW e \in Entry
  PROVE  /\ e.key \in Keys /\ e.key \in Nat /\ e.key > 0
         /\ e.seq \in Nat /\ e.seq <= MaxWrites /\ e.type \in {"value", "deletion"}
         /\ e # NoEntry
<1>1. e.key \in Keys /\ e.seq \in 1..MaxWrites /\ e.type \in {"value", "deletion"}
  BY DEF Entry
<1>2. Keys \subseteq Nat \ {0} /\ MaxWrites \in Nat
  BY IteratorAssumption
<1>3. \A n \in 1..MaxWrites : n \in Nat /\ n <= MaxWrites
  BY <1>2
<1>4. e.key \in Nat /\ e.key > 0 /\ e.key # 0
  <2>1. \A k \in Keys : k \in Nat /\ k > 0 /\ k # 0
    BY <1>2
  <2> QED
    BY <1>1, <2>1, Zenon
<1>5. NoEntry.key = 0
  BY DEF NoEntry
<1>6. e # NoEntry
  BY <1>4, <1>5
<1> QED
  BY <1>1, <1>3, <1>4, <1>6, Zenon

OwnNumbers(S) == \A e, f \in S : e.seq = f.seq => e = f

\* Before is a strict order; e is at or before f when ~Before(f, e).
LEMMA BeforeOrder ==
  ASSUME NEW e \in Entry, NEW f \in Entry, NEW g \in Entry
  PROVE  /\ ~Before(e, e)
         /\ Before(e, f) => ~Before(f, e) /\ e.key <= f.key
         /\ ~Before(f, e) => e.key <= f.key
         /\ Before(e, f) /\ Before(f, g) => Before(e, g)
         /\ ~Before(f, e) /\ Before(f, g) => Before(e, g)
         /\ Before(e, f) /\ ~Before(g, f) => Before(e, g)
         /\ ~Before(f, e) /\ ~Before(g, f) => ~Before(g, e)
         /\ e.key < f.key => Before(e, f)
         /\ (e.seq = f.seq => e = f) => e = f \/ Before(e, f) \/ Before(f, e)
<1>1. /\ e.key \in Nat /\ f.key \in Nat /\ g.key \in Nat
      /\ e.seq \in Nat /\ f.seq \in Nat /\ g.seq \in Nat
  BY EntryIs
<1> QED
  BY <1>1 DEF Before

LEMMA KeyBound == \E b \in Nat : \A k \in Keys : k <= b
<1>1. Keys \subseteq Nat /\ IsFiniteSet(Keys)
  BY IteratorAssumption
<1> QED
  BY <1>1, FiniteBound

LEMMA SmallestOf ==
  ASSUME NEW S, S \subseteq Entry, OwnNumbers(S)
  PROVE  /\ S = {} => Smallest(S) = NoEntry
         /\ S # {} => /\ Smallest(S) \in S
                      /\ \A f \in S : f = Smallest(S) \/ Before(Smallest(S), f)
<1>1. S = {} => Smallest(S) = NoEntry
  BY DEF Smallest
<1> SUFFICES ASSUME S # {}
             PROVE  /\ Smallest(S) \in S
                    /\ \A f \in S : f = Smallest(S) \/ Before(Smallest(S), f)
  BY <1>1
<1> DEFINE K == {e.key : e \in S}
           N == {e.seq : e \in {e \in S : e.key = Min(K)}}
<1>2. \A e \in S : e.key \in Nat /\ e.seq \in Nat /\ e.seq <= MaxWrites /\ e.key \in K
  BY EntryIs
<1>3. K \subseteq Nat /\ K # {}
  BY <1>2
<1>4. Min(K) \in K /\ \A y \in K : Min(K) <= y
  <2> HIDE DEF K
  <2> QED
    BY <1>3, MinNat
<1>5. N \subseteq Nat /\ N # {} /\ \A y \in N : y <= MaxWrites
  BY <1>2, <1>4
<1>6. MaxWrites \in Nat
  BY IteratorAssumption
<1>7. Max(N) \in N /\ \A y \in N : y <= Max(N)
  <2> HIDE DEF N
  <2> QED
    BY <1>5, <1>6, MaxNat
<1>8. PICK e \in S : e.key = Min(K) /\ e.seq = Max(N)
  BY <1>7
<1>9. \A f \in S : f.key = Min(K) => f.seq <= Max(N)
  BY <1>7
<1> HIDE DEF N
<1>10. ASSUME NEW f \in S
       PROVE  f = e \/ Before(e, f)
  <2>1. f.key \in Nat /\ f.seq \in Nat /\ e.key \in Nat /\ e.seq \in Nat /\ Min(K) <= f.key
    BY <1>2, <1>4
  <2>2. f.seq = e.seq => f = e
    BY DEF OwnNumbers
  <2> HIDE DEF K
  <2> QED
    BY <1>8, <1>9, <2>1, <2>2 DEF Before
<1> QED
  BY <1>10 DEF Smallest

LEMMA LargestOf ==
  ASSUME NEW S, S \subseteq Entry, OwnNumbers(S)
  PROVE  /\ S = {} => Largest(S) = NoEntry
         /\ S # {} => /\ Largest(S) \in S
                      /\ \A f \in S : f = Largest(S) \/ Before(f, Largest(S))
<1>1. S = {} => Largest(S) = NoEntry
  BY DEF Largest
<1> SUFFICES ASSUME S # {}
             PROVE  /\ Largest(S) \in S
                    /\ \A f \in S : f = Largest(S) \/ Before(f, Largest(S))
  BY <1>1
<1> DEFINE K == {e.key : e \in S}
           N == {e.seq : e \in {e \in S : e.key = Max(K)}}
<1>2. \A e \in S : e.key \in Keys /\ e.key \in Nat /\ e.seq \in Nat /\ e.key \in K
  BY EntryIs
<1>b. PICK b \in Nat : \A k \in Keys : k <= b
  BY KeyBound
<1>3. K \subseteq Nat /\ K # {} /\ \A y \in K : y <= b
  BY <1>2, <1>b
<1>4. Max(K) \in K /\ \A y \in K : y <= Max(K)
  <2> HIDE DEF K
  <2> QED
    BY <1>3, MaxNat
<1>5. N \subseteq Nat /\ N # {}
  BY <1>2, <1>4
<1>7. Min(N) \in N /\ \A y \in N : Min(N) <= y
  <2> HIDE DEF N
  <2> QED
    BY <1>5, MinNat
<1>8. PICK e \in S : e.key = Max(K) /\ e.seq = Min(N)
  BY <1>7
<1>9. \A f \in S : f.key = Max(K) => Min(N) <= f.seq
  BY <1>7
<1> HIDE DEF N
<1>10. ASSUME NEW f \in S
       PROVE  f = e \/ Before(f, e)
  <2>1. f.key \in Nat /\ f.seq \in Nat /\ e.key \in Nat /\ e.seq \in Nat /\ f.key <= Max(K)
    BY <1>2, <1>4
  <2>2. f.seq = e.seq => f = e
    BY DEF OwnNumbers
  <2> HIDE DEF K
  <2> QED
    BY <1>8, <1>9, <2>1, <2>2 DEF Before
<1> QED
  BY <1>10 DEF Largest

-----------------------------------------------------------------------------
(* The children.                                                           *)

LEMMA ChildIs ==
  ASSUME TypeOK, DataInv, NEW c \in Child
  PROVE  data[c] \subseteq Entry /\ data[c] \subseteq Entries /\ OwnNumbers(data[c])
<1>1. data[c] \subseteq Entry
  BY DEF TypeOK
<1>2. data[c] \subseteq Entries
  BY DEF Entries
<1> QED
  BY <1>1, <1>2 DEF DataInv, OwnNumbers

LEMMA EntriesAre ==
  ASSUME TypeOK, DataInv
  PROVE  /\ Entries \subseteq Entry /\ OwnNumbers(Entries)
         /\ \A e \in Entries : \E c \in Child : e \in data[c]
         /\ sequence_ \in Nat
<1>1. \A e \in Entries : \E c \in Child : e \in data[c]
  BY DEF Entries
<1>2. Entries \subseteq Entry
  BY <1>1 DEF TypeOK
<1>3. OwnNumbers(Entries)
  BY DEF DataInv, OwnNumbers
<1>4. sequence_ \in Nat
  BY IteratorAssumption DEF TypeOK
<1> QED
  BY <1>1, <1>2, <1>3, <1>4

LEMMA AfterIs ==
  ASSUME NEW S, S \subseteq Entry, OwnNumbers(S), NEW x \in Entry
  PROVE  \/ After(S, x) = NoEntry /\ \A e \in S : ~Before(x, e)
         \/ /\ After(S, x) \in S /\ After(S, x) # NoEntry /\ Before(x, After(S, x))
            /\ \A e \in S : Before(x, e) => ~Before(e, After(S, x))
<1> DEFINE T == {f \in S : Before(x, f)}
<1>1. T \subseteq Entry /\ OwnNumbers(T) /\ After(S, x) = Smallest(T)
  BY DEF OwnNumbers, After
<1>2. CASE T = {}
  BY <1>1, <1>2, SmallestOf
<1>3. CASE T # {}
  <2>1. Smallest(T) \in T /\ \A f \in T : f = Smallest(T) \/ Before(Smallest(T), f)
    BY <1>1, <1>3, SmallestOf
  <2>2. \A f \in T : ~Before(f, Smallest(T))
    BY <1>1, <2>1, BeforeOrder
  <2>3. Smallest(T) # NoEntry
    BY <1>1, <2>1, EntryIs
  <2> QED
    BY <1>1, <2>1, <2>2, <2>3
<1> QED
  BY <1>2, <1>3

LEMMA AheadIs ==
  ASSUME NEW S, S \subseteq Entry, OwnNumbers(S), NEW x \in Entry
  PROVE  \/ Ahead(S, x) = NoEntry /\ \A e \in S : ~Before(e, x)
         \/ /\ Ahead(S, x) \in S /\ Ahead(S, x) # NoEntry /\ Before(Ahead(S, x), x)
            /\ \A e \in S : Before(e, x) => ~Before(Ahead(S, x), e)
<1> DEFINE T == {f \in S : Before(f, x)}
<1>1. T \subseteq Entry /\ OwnNumbers(T) /\ Ahead(S, x) = Largest(T)
  BY DEF OwnNumbers, Ahead
<1>2. CASE T = {}
  BY <1>1, <1>2, LargestOf
<1>3. CASE T # {}
  <2>1. Largest(T) \in T /\ \A f \in T : f = Largest(T) \/ Before(f, Largest(T))
    BY <1>1, <1>3, LargestOf
  <2>2. \A f \in T : ~Before(Largest(T), f)
    BY <1>1, <2>1, BeforeOrder
  <2>3. Largest(T) # NoEntry
    BY <1>1, <2>1, EntryIs
  <2> QED
    BY <1>1, <2>1, <2>2, <2>3
<1> QED
  BY <1>2, <1>3

LEMMA FromIs ==
  ASSUME NEW S, S \subseteq Entry, OwnNumbers(S), NEW x
  PROVE  \/ From(S, x) = NoEntry /\ \A e \in S : Before(e, x)
         \/ /\ From(S, x) \in S /\ From(S, x) # NoEntry /\ ~Before(From(S, x), x)
            /\ \A e \in S : ~Before(e, x) => ~Before(e, From(S, x))
<1> DEFINE T == {f \in S : ~Before(f, x)}
<1>1. T \subseteq Entry /\ OwnNumbers(T) /\ From(S, x) = Smallest(T)
  BY DEF OwnNumbers, From
<1>2. CASE T = {}
  BY <1>1, <1>2, SmallestOf
<1>3. CASE T # {}
  <2>1. Smallest(T) \in T /\ \A f \in T : f = Smallest(T) \/ Before(Smallest(T), f)
    BY <1>1, <1>3, SmallestOf
  <2>2. \A f \in T : ~Before(f, Smallest(T))
    BY <1>1, <2>1, BeforeOrder
  <2>3. Smallest(T) # NoEntry
    BY <1>1, <2>1, EntryIs
  <2> QED
    BY <1>1, <2>1, <2>2, <2>3
<1> QED
  BY <1>2, <1>3

-----------------------------------------------------------------------------
(* The merging iterator.                                                   *)

MergeType(m) ==
  /\ m.at \in [Child -> Entry \cup {NoEntry}]
  /\ m.current \in {0} \cup ChildrenAt(m.at)
  /\ m.direction \in {"forward", "reverse"}

LEMMA CurrentIs ==
  ASSUME TypeOK, DataInv, NEW m, MergeType(m), Valid(m),
         \A c \in Child : m.at[c] = NoEntry \/ m.at[c] \in data[c]
  PROVE  /\ m.current \in Child /\ At(m) = m.at[m.current] /\ At(m) # NoEntry
         /\ At(m) \in data[m.current] /\ At(m) \in Entries /\ At(m) \in Entry
<1>1. m.current \in ChildrenAt(m.at)
  BY DEF MergeType, Valid
<1>2. m.current \in Child /\ m.at[m.current] # NoEntry
  BY <1>1 DEF ChildrenAt
<1>3. m.at[m.current] \in data[m.current]
  BY <1>2
<1> QED
  BY <1>2, <1>3, ChildIs DEF At

\* The first of the entries that the children stand at.
LEMMA FindSmallestIs ==
  ASSUME TypeOK, DataInv, NEW at \in [Child -> Entry \cup {NoEntry}],
         \A c \in Child : at[c] = NoEntry \/ at[c] \in data[c],
         NEW m, m = FindSmallest(at)
  PROVE  /\ MergeType(m) /\ m.at = at /\ m.direction = "forward"
         /\ \A d \in Child : at[d] # NoEntry =>
              Valid(m) /\ (d = m.current \/ Before(At(m), at[d]))
<1> DEFINE C == ChildrenAt(at)
           S == {at[c] : c \in C}
           Is(c) == \A d \in C : d = c \/ Before(at[c], at[d])
<1>1. /\ m.at = at /\ m.direction = "forward"
      /\ m.current = IF C = {} THEN 0 ELSE CHOOSE c \in C : Is(c)
  BY DEF FindSmallest
<1>2. C \subseteq Child /\ \A c \in Child : c \in C <=> at[c] # NoEntry
  BY DEF ChildrenAt
<1>3. 0 \notin Child
  BY DEF Child
<1>4. CASE C = {}
  <2>1. m.current = 0
    BY <1>1, <1>4
  <2> QED
    BY <2>1, <1>1, <1>2, <1>4 DEF MergeType
<1>5. CASE C # {}
  <2>1. \A c \in C : at[c] \in data[c] /\ at[c] \in Entries /\ at[c] \in Entry
    BY <1>2, ChildIs
  <2>2. S \subseteq Entry /\ S # {} /\ OwnNumbers(S)
    <3>1. S \subseteq Entry /\ S \subseteq Entries /\ S # {}
      BY <2>1, <1>5
    <3> QED
      BY <3>1, EntriesAre DEF OwnNumbers
  <2>3. Smallest(S) \in S /\ \A f \in S : f = Smallest(S) \/ Before(Smallest(S), f)
    <3> HIDE DEF S
    <3> QED
      BY <2>2, SmallestOf
  <2>4. PICK c \in C : at[c] = Smallest(S)
    BY <2>3
  <2>5. ASSUME NEW d \in C, d # c
        PROVE  Before(at[c], at[d])
    <3>1. at[d] # at[c]
      <4>1. data[c] \cap data[d] = {}
        BY <2>5, <1>2 DEF DataInv
      <4> QED
        BY <4>1, <2>1
    <3> QED
      BY <3>1, <2>3, <2>4
  <2>6. Is(c)
    BY <2>5
  <2>7. m.current \in C /\ Is(m.current)
    <3> HIDE DEF Is, C
    <3> QED
      BY <2>6, <1>1, <1>5
  <2>8. Valid(m) /\ At(m) = at[m.current]
    BY <2>7, <1>1, <1>2, <1>3 DEF Valid, At
  <2>9. MergeType(m)
    BY <2>7, <1>1 DEF MergeType
  <2> QED
    BY <2>7, <2>8, <2>9, <1>1, <1>2
<1> QED
  BY <1>4, <1>5

\* The last of the entries that the children stand at.
LEMMA FindLargestIs ==
  ASSUME TypeOK, DataInv, NEW at \in [Child -> Entry \cup {NoEntry}],
         \A c \in Child : at[c] = NoEntry \/ at[c] \in data[c],
         NEW m, m = FindLargest(at)
  PROVE  /\ MergeType(m) /\ m.at = at /\ m.direction = "reverse"
         /\ \A d \in Child : at[d] # NoEntry =>
              Valid(m) /\ (d = m.current \/ Before(at[d], At(m)))
<1> DEFINE C == ChildrenAt(at)
           S == {at[c] : c \in C}
           Is(c) == \A d \in C : d = c \/ Before(at[d], at[c])
<1>1. /\ m.at = at /\ m.direction = "reverse"
      /\ m.current = IF C = {} THEN 0 ELSE CHOOSE c \in C : Is(c)
  BY DEF FindLargest
<1>2. C \subseteq Child /\ \A c \in Child : c \in C <=> at[c] # NoEntry
  BY DEF ChildrenAt
<1>3. 0 \notin Child
  BY DEF Child
<1>4. CASE C = {}
  <2>1. m.current = 0
    BY <1>1, <1>4
  <2> QED
    BY <2>1, <1>1, <1>2, <1>4 DEF MergeType
<1>5. CASE C # {}
  <2>1. \A c \in C : at[c] \in data[c] /\ at[c] \in Entries /\ at[c] \in Entry
    BY <1>2, ChildIs
  <2>2. S \subseteq Entry /\ S # {} /\ OwnNumbers(S)
    <3>1. S \subseteq Entry /\ S \subseteq Entries /\ S # {}
      BY <2>1, <1>5
    <3> QED
      BY <3>1, EntriesAre DEF OwnNumbers
  <2>3. Largest(S) \in S /\ \A f \in S : f = Largest(S) \/ Before(f, Largest(S))
    <3> HIDE DEF S
    <3> QED
      BY <2>2, LargestOf
  <2>4. PICK c \in C : at[c] = Largest(S)
    BY <2>3
  <2>5. ASSUME NEW d \in C, d # c
        PROVE  Before(at[d], at[c])
    <3>1. at[d] # at[c]
      <4>1. data[c] \cap data[d] = {}
        BY <2>5, <1>2 DEF DataInv
      <4> QED
        BY <4>1, <2>1
    <3> QED
      BY <3>1, <2>3, <2>4
  <2>6. Is(c)
    BY <2>5
  <2>7. m.current \in C /\ Is(m.current)
    <3> HIDE DEF Is, C
    <3> QED
      BY <2>6, <1>1, <1>5
  <2>8. Valid(m) /\ At(m) = at[m.current]
    BY <2>7, <1>1, <1>2, <1>3 DEF Valid, At
  <2>9. MergeType(m)
    BY <2>7, <1>1 DEF MergeType
  <2> QED
    BY <2>7, <2>8, <2>9, <1>1, <1>2
<1> QED
  BY <1>4, <1>5

\* When every child stands at its first entry of W, a set that has every entry of the
\* snapshot after those, the iterator is at the first of W.
LEMMA GatherForward ==
  ASSUME TypeOK, DataInv, NEW at \in [Child -> Entry \cup {NoEntry}],
         \A c \in Child : at[c] = NoEntry \/ at[c] \in data[c],
         NEW W, W \subseteq Entries,
         \A c \in Child : \A e \in data[c] : e \in W =>
           at[c] # NoEntry /\ ~Before(e, at[c]),
         \A c \in Child : at[c] # NoEntry =>
           \A e \in Entries : Visible(e) /\ Before(at[c], e) => e \in W,
         NEW m, m = FindSmallest(at)
  PROVE  /\ MergeType(m) /\ InPlace(m) /\ m.direction = "forward"
         /\ Valid(m) => \E c \in Child : at[c] = At(m) /\ at[c] # NoEntry
         /\ \A e \in W : Valid(m) /\ ~Before(e, At(m))
<1>1. /\ MergeType(m) /\ m.at = at /\ m.direction = "forward"
      /\ \A d \in Child : at[d] # NoEntry =>
           Valid(m) /\ (d = m.current \/ Before(At(m), at[d]))
  BY FindSmallestIs
<1>2. Valid(m) => /\ m.current \in Child /\ At(m) = at[m.current] /\ At(m) # NoEntry
                  /\ At(m) \in Entries /\ At(m) \in Entry
  BY <1>1, CurrentIs
<1>3. InPlace(m)
  <2>1. ASSUME Valid(m), NEW c \in Child \ {m.current}, NEW e \in data[c],
               Visible(e), Before(At(m), e)
        PROVE  at[c] # NoEntry /\ ~Before(e, at[c])
    <3>1. e \in Entries
      BY ChildIs
    <3>2. e \in W
      BY <3>1, <1>2, <2>1
    <3> QED
      BY <3>2
  <2> QED
    BY <1>1, <2>1 DEF InPlace, Towards
<1>4. ASSUME NEW e \in W
      PROVE  Valid(m) /\ ~Before(e, At(m))
  <2>1. PICK c \in Child : e \in data[c]
    BY EntriesAre
  <2>2. at[c] # NoEntry /\ ~Before(e, at[c]) /\ at[c] \in Entry /\ e \in Entry
    BY <2>1, ChildIs
  <2>3. Valid(m) /\ (c = m.current \/ Before(At(m), at[c]))
    BY <1>1, <2>2
  <2> QED
    BY <1>2, <2>2, <2>3, BeforeOrder
<1> QED
  BY <1>1, <1>2, <1>3, <1>4

\* The same backwards.
LEMMA GatherReverse ==
  ASSUME TypeOK, DataInv, NEW at \in [Child -> Entry \cup {NoEntry}],
         \A c \in Child : at[c] = NoEntry \/ at[c] \in data[c],
         NEW W, W \subseteq Entries,
         \A c \in Child : \A e \in data[c] : e \in W =>
           at[c] # NoEntry /\ ~Before(at[c], e),
         \A c \in Child : at[c] # NoEntry =>
           \A e \in Entries : Visible(e) /\ Before(e, at[c]) => e \in W,
         NEW m, m = FindLargest(at)
  PROVE  /\ MergeType(m) /\ InPlace(m) /\ m.direction = "reverse"
         /\ Valid(m) => \E c \in Child : at[c] = At(m) /\ at[c] # NoEntry
         /\ \A e \in W : Valid(m) /\ ~Before(At(m), e)
<1>1. /\ MergeType(m) /\ m.at = at /\ m.direction = "reverse"
      /\ \A d \in Child : at[d] # NoEntry =>
           Valid(m) /\ (d = m.current \/ Before(at[d], At(m)))
  BY FindLargestIs
<1>2. Valid(m) => /\ m.current \in Child /\ At(m) = at[m.current] /\ At(m) # NoEntry
                  /\ At(m) \in Entries /\ At(m) \in Entry
  BY <1>1, CurrentIs
<1>3. InPlace(m)
  <2>1. ASSUME Valid(m), NEW c \in Child \ {m.current}, NEW e \in data[c],
               Visible(e), Before(e, At(m))
        PROVE  at[c] # NoEntry /\ ~Before(at[c], e)
    <3>1. e \in Entries
      BY ChildIs
    <3>2. e \in W
      BY <3>1, <1>2, <2>1
    <3> QED
      BY <3>2
  <2>2. m.direction # "forward"
    BY <1>1
  <2> QED
    BY <1>1, <2>1, <2>2 DEF InPlace, Towards
<1>4. ASSUME NEW e \in W
      PROVE  Valid(m) /\ ~Before(At(m), e)
  <2>1. PICK c \in Child : e \in data[c]
    BY EntriesAre
  <2>2. at[c] # NoEntry /\ ~Before(at[c], e) /\ at[c] \in Entry /\ e \in Entry
    BY <2>1, ChildIs
  <2>3. Valid(m) /\ (c = m.current \/ Before(at[c], At(m)))
    BY <1>1, <2>2
  <2> QED
    BY <1>2, <2>2, <2>3, BeforeOrder
<1> QED
  BY <1>1, <1>2, <1>3, <1>4

\* SeekToFirst(), SeekToLast() and Seek().
LEMMA MergeFirstIs ==
  ASSUME TypeOK, DataInv, NEW m, m = MergeFirst
  PROVE  /\ MergeType(m) /\ InPlace(m) /\ m.direction = "forward"
         /\ \A e \in Entries : Valid(m) /\ ~Before(e, At(m))
<1> DEFINE at == [c \in Child |-> Smallest(data[c])]
<1>1. ASSUME NEW c \in Child
      PROVE  \/ at[c] = NoEntry /\ data[c] = {}
             \/ /\ at[c] \in data[c] /\ at[c] \in Entry /\ at[c] # NoEntry
                /\ \A e \in data[c] : ~Before(e, at[c])
  <2>1. data[c] \subseteq Entry /\ OwnNumbers(data[c])
    BY ChildIs
  <2>2. CASE data[c] = {}
    BY <2>1, <2>2, SmallestOf
  <2>3. CASE data[c] # {}
    <3>1. /\ Smallest(data[c]) \in data[c]
          /\ \A f \in data[c] : f = Smallest(data[c]) \/ Before(Smallest(data[c]), f)
      BY <2>1, <2>3, SmallestOf
    <3>2. \A e \in data[c] : ~Before(e, Smallest(data[c]))
      BY <2>1, <3>1, BeforeOrder
    <3>3. Smallest(data[c]) \in Entry /\ Smallest(data[c]) # NoEntry
      BY <2>1, <3>1, EntryIs
    <3> QED
      BY <3>1, <3>2, <3>3
  <2> QED
    BY <2>2, <2>3
<1>2. at \in [Child -> Entry \cup {NoEntry}]
  BY <1>1
<1>3. m = FindSmallest(at)
  BY DEF MergeFirst
<1> HIDE DEF at
<1>4. /\ \A c \in Child : at[c] = NoEntry \/ at[c] \in data[c]
      /\ \A c \in Child : \A e \in data[c] : at[c] # NoEntry /\ ~Before(e, at[c])
  BY <1>1
<1> QED
  BY <1>2, <1>3, <1>4, GatherForward

LEMMA MergeLastIs ==
  ASSUME TypeOK, DataInv, NEW m, m = MergeLast
  PROVE  /\ MergeType(m) /\ InPlace(m) /\ m.direction = "reverse"
         /\ \A e \in Entries : Valid(m) /\ ~Before(At(m), e)
<1> DEFINE at == [c \in Child |-> Largest(data[c])]
<1>1. ASSUME NEW c \in Child
      PROVE  \/ at[c] = NoEntry /\ data[c] = {}
             \/ /\ at[c] \in data[c] /\ at[c] \in Entry /\ at[c] # NoEntry
                /\ \A e \in data[c] : ~Before(at[c], e)
  <2>1. data[c] \subseteq Entry /\ OwnNumbers(data[c])
    BY ChildIs
  <2>2. CASE data[c] = {}
    BY <2>1, <2>2, LargestOf
  <2>3. CASE data[c] # {}
    <3>1. /\ Largest(data[c]) \in data[c]
          /\ \A f \in data[c] : f = Largest(data[c]) \/ Before(f, Largest(data[c]))
      BY <2>1, <2>3, LargestOf
    <3>2. \A e \in data[c] : ~Before(Largest(data[c]), e)
      BY <2>1, <3>1, BeforeOrder
    <3>3. Largest(data[c]) \in Entry /\ Largest(data[c]) # NoEntry
      BY <2>1, <3>1, EntryIs
    <3> QED
      BY <3>1, <3>2, <3>3
  <2> QED
    BY <2>2, <2>3
<1>2. at \in [Child -> Entry \cup {NoEntry}]
  BY <1>1
<1>3. m = FindLargest(at)
  BY DEF MergeLast
<1> HIDE DEF at
<1>4. /\ \A c \in Child : at[c] = NoEntry \/ at[c] \in data[c]
      /\ \A c \in Child : \A e \in data[c] : at[c] # NoEntry /\ ~Before(at[c], e)
  BY <1>1
<1> QED
  BY <1>2, <1>3, <1>4, GatherReverse

LEMMA MergeSeekIs ==
  ASSUME TypeOK, DataInv, NEW k \in Keys, NEW m, m = MergeSeek(SeekTarget(k))
  PROVE  /\ MergeType(m) /\ InPlace(m) /\ m.direction = "forward"
         /\ Valid(m) => At(m).key >= k
         /\ \A e \in Entries : e.key > k \/ (e.key = k /\ Visible(e)) =>
              Valid(m) /\ ~Before(e, At(m))
<1> DEFINE t == SeekTarget(k)
           at == [c \in Child |-> From(data[c], t)]
           W == {e \in Entries : ~Before(e, t)}
<1>0. t.key = k /\ t.seq = sequence_ /\ k \in Nat /\ sequence_ \in Nat
  BY IteratorAssumption, EntriesAre DEF SeekTarget
<1>1. ASSUME NEW c \in Child
      PROVE  \/ at[c] = NoEntry /\ \A e \in data[c] : Before(e, t)
             \/ /\ at[c] \in data[c] /\ at[c] \in Entry /\ at[c] # NoEntry
                /\ ~Before(at[c], t)
                /\ \A e \in data[c] : ~Before(e, t) => ~Before(e, at[c])
  <2>1. data[c] \subseteq Entry /\ OwnNumbers(data[c])
    BY ChildIs
  <2>2. at[c] = From(data[c], t)
    OBVIOUS
  <2> HIDE DEF at, t
  <2> QED
    BY <2>1, <2>2, FromIs
<1>2. at \in [Child -> Entry \cup {NoEntry}]
  <2>1. \A c \in Child : at[c] \in Entry \cup {NoEntry}
    BY <1>1
  <2> QED
    BY <2>1
<1>3. m = FindSmallest(at)
  BY DEF MergeSeek
<1> HIDE DEF at, t
<1>4. ASSUME NEW e \in Entry
      PROVE  /\ ~Before(e, t) => e.key >= k
             /\ e.key > k \/ (e.key = k /\ Visible(e)) => ~Before(e, t)
             /\ \A f \in Entry : ~Before(f, t) /\ Before(f, e) => ~Before(e, t)
  <2>1. e.key \in Nat /\ e.seq \in Nat
    BY EntryIs
  <2>2. \A f \in Entry : f.key \in Nat /\ f.seq \in Nat
    BY EntryIs
  <2> QED
    BY <2>1, <2>2, <1>0 DEF Before, Visible
<1>5. /\ \A c \in Child : at[c] = NoEntry \/ at[c] \in data[c]
      /\ \A c \in Child : \A e \in data[c] : e \in W => at[c] # NoEntry /\ ~Before(e, at[c])
  BY <1>1
<1>6. \A c \in Child : at[c] # NoEntry =>
        \A e \in Entries : Visible(e) /\ Before(at[c], e) => e \in W
  BY <1>1, <1>4, EntriesAre
<1>7. /\ MergeType(m) /\ InPlace(m) /\ m.direction = "forward"
      /\ Valid(m) => \E c \in Child : at[c] = At(m) /\ at[c] # NoEntry
      /\ \A e \in W : Valid(m) /\ ~Before(e, At(m))
  <2>1. W \subseteq Entries
    OBVIOUS
  <2> HIDE DEF W
  <2> QED
    BY <1>2, <1>3, <1>5, <1>6, <2>1, GatherForward
<1>8. Valid(m) => At(m).key >= k
  BY <1>1, <1>4, <1>7
<1>9. \A e \in Entries : e.key > k \/ (e.key = k /\ Visible(e)) => e \in W
  BY <1>4, EntriesAre
<1> QED
  BY <1>7, <1>8, <1>9

\* Next(): the first entry after the current one, whatever the direction was.
LEMMA MergeNextIs ==
  ASSUME TypeOK, DataInv, InPlace(merge), Valid(merge), NEW m, m = MergeNext(merge)
  PROVE  /\ MergeType(m) /\ InPlace(m) /\ m.direction = "forward"
         /\ Valid(m) => Before(At(merge), At(m))
         /\ \A e \in Entries : Visible(e) /\ Before(At(merge), e) =>
              Valid(m) /\ ~Before(e, At(m))
<1> DEFINE x == At(merge)
           W == {e \in Entries : Visible(e) /\ Before(x, e)}
           at == [c \in Child |->
                    IF c # merge.current /\ merge.direction = "forward"
                    THEN merge.at[c] ELSE After(data[c], x)]
<1>0. MergeType(merge) /\ \A c \in Child : merge.at[c] = NoEntry \/ merge.at[c] \in data[c]
  BY DEF TypeOK, MergeType, InPlace
<1>1. x \in Entry /\ x \in Entries
  BY <1>0, CurrentIs
<1>2. m = FindSmallest(at)
  BY DEF MergeNext
<1> HIDE DEF x
<1>3. ASSUME NEW c \in Child
      PROVE  /\ at[c] = NoEntry \/ (at[c] \in data[c] /\ at[c] \in Entry /\ Before(x, at[c]))
             /\ \A e \in data[c] : Visible(e) /\ Before(x, e) =>
                  at[c] # NoEntry /\ ~Before(e, at[c])
  <2>1. data[c] \subseteq Entry /\ OwnNumbers(data[c])
    BY ChildIs
  <2>2. CASE c # merge.current /\ merge.direction = "forward"
    <3>1. at[c] = merge.at[c]
      BY <2>2
    <3>2. /\ merge.at[c] # NoEntry => Before(x, merge.at[c])
          /\ \A e \in data[c] : Visible(e) /\ Before(x, e) =>
               merge.at[c] # NoEntry /\ ~Before(e, merge.at[c])
      BY <2>2 DEF InPlace, Towards, x
    <3> QED
      BY <3>1, <3>2, <2>1, <1>0
  <2>3. CASE ~(c # merge.current /\ merge.direction = "forward")
    <3>1. at[c] = After(data[c], x)
      BY <2>3
    <3> HIDE DEF at
    <3> QED
      BY <3>1, <2>1, <1>1, AfterIs
  <2> QED
    BY <2>2, <2>3
<1>4. at \in [Child -> Entry \cup {NoEntry}]
  <2>1. \A c \in Child : at[c] \in Entry \cup {NoEntry}
    BY <1>3
  <2> QED
    BY <2>1
<1> HIDE DEF at
<1>5. /\ \A c \in Child : at[c] = NoEntry \/ at[c] \in data[c]
      /\ \A c \in Child : \A e \in data[c] : e \in W => at[c] # NoEntry /\ ~Before(e, at[c])
  BY <1>3
<1>6. \A c \in Child : at[c] # NoEntry =>
        \A e \in Entries : Visible(e) /\ Before(at[c], e) => e \in W
  BY <1>1, <1>3, EntriesAre, BeforeOrder
<1>7. /\ MergeType(m) /\ InPlace(m) /\ m.direction = "forward"
      /\ Valid(m) => \E c \in Child : at[c] = At(m) /\ at[c] # NoEntry
      /\ \A e \in W : Valid(m) /\ ~Before(e, At(m))
  <2>1. W \subseteq Entries
    OBVIOUS
  <2> HIDE DEF W
  <2> QED
    BY <1>2, <1>4, <1>5, <1>6, <2>1, GatherForward
<1>8. Valid(m) => Before(x, At(m))
  BY <1>3, <1>7
<1> QED
  BY <1>7, <1>8 DEF x

\* Prev(): the last entry before the current one, whatever the direction was.
LEMMA MergePrevIs ==
  ASSUME TypeOK, DataInv, InPlace(merge), Valid(merge), NEW m, m = MergePrev(merge)
  PROVE  /\ MergeType(m) /\ InPlace(m) /\ m.direction = "reverse"
         /\ Valid(m) => Before(At(m), At(merge))
         /\ \A e \in Entries : Visible(e) /\ Before(e, At(merge)) =>
              Valid(m) /\ ~Before(At(m), e)
<1> DEFINE x == At(merge)
           W == {e \in Entries : Visible(e) /\ Before(e, x)}
           at == [c \in Child |->
                    CASE c # merge.current /\ merge.direction = "reverse" -> merge.at[c]
                      [] /\ c # merge.current /\ merge.direction = "forward"
                         /\ From(data[c], x) = NoEntry -> Largest(data[c])
                      [] OTHER -> Ahead(data[c], x)]
<1>0. /\ MergeType(merge) /\ merge.direction \in {"forward", "reverse"}
      /\ \A c \in Child : merge.at[c] = NoEntry \/ merge.at[c] \in data[c]
  BY DEF TypeOK, MergeType, InPlace
<1>1. x \in Entry /\ x \in Entries
  BY <1>0, CurrentIs
<1>2. m = FindLargest(at)
  BY DEF MergePrev
<1> HIDE DEF x
<1>3. ASSUME NEW c \in Child
      PROVE  /\ at[c] = NoEntry \/ (at[c] \in data[c] /\ at[c] \in Entry /\ Before(at[c], x))
             /\ \A e \in data[c] : Visible(e) /\ Before(e, x) =>
                  at[c] # NoEntry /\ ~Before(at[c], e)
  <2>1. data[c] \subseteq Entry /\ OwnNumbers(data[c])
    BY ChildIs
  <2>2. CASE c # merge.current /\ merge.direction = "reverse"
    <3>1. at[c] = merge.at[c]
      BY <2>2
    <3>2. merge.direction # "forward"
      BY <2>2
    <3>3. /\ merge.at[c] # NoEntry => Before(merge.at[c], x)
          /\ \A e \in data[c] : Visible(e) /\ Before(e, x) =>
               merge.at[c] # NoEntry /\ ~Before(merge.at[c], e)
      BY <2>2, <3>2 DEF InPlace, Towards, x
    <3> QED
      BY <3>1, <3>3, <2>1, <1>0
  <2>3. CASE /\ c # merge.current /\ merge.direction = "forward"
             /\ From(data[c], x) = NoEntry
    <3>1. at[c] = Largest(data[c])
      BY <2>3
    <3>2. \A e \in data[c] : Before(e, x)
      <4>1. \A e \in data[c] : e # NoEntry
        BY <2>1, EntryIs
      <4> QED
        BY <4>1, <2>1, <2>3, FromIs
    <3> HIDE DEF at
    <3>3. CASE data[c] = {}
      BY <3>1, <3>3, <2>1, LargestOf
    <3>4. CASE data[c] # {}
      <4>1. /\ at[c] \in data[c]
            /\ \A f \in data[c] : f = at[c] \/ Before(f, at[c])
        BY <3>1, <3>4, <2>1, LargestOf
      <4>2. \A e \in data[c] : ~Before(at[c], e)
        BY <2>1, <4>1, BeforeOrder
      <4>3. at[c] \in Entry /\ at[c] # NoEntry
        BY <2>1, <4>1, EntryIs
      <4> QED
        BY <4>1, <4>2, <4>3, <3>2
    <3> QED
      BY <3>3, <3>4
  <2>4. CASE /\ ~(c # merge.current /\ merge.direction = "reverse")
             /\ ~(/\ c # merge.current /\ merge.direction = "forward"
                  /\ From(data[c], x) = NoEntry)
    <3>1. at[c] = Ahead(data[c], x)
      BY <2>4
    <3> HIDE DEF at
    <3> QED
      BY <3>1, <2>1, <1>1, AheadIs
  <2> QED
    BY <2>2, <2>3, <2>4
<1>4. at \in [Child -> Entry \cup {NoEntry}]
  <2>1. \A c \in Child : at[c] \in Entry \cup {NoEntry}
    BY <1>3
  <2> QED
    BY <2>1
<1> HIDE DEF at
<1>5. /\ \A c \in Child : at[c] = NoEntry \/ at[c] \in data[c]
      /\ \A c \in Child : \A e \in data[c] : e \in W => at[c] # NoEntry /\ ~Before(at[c], e)
  BY <1>3
<1>6. \A c \in Child : at[c] # NoEntry =>
        \A e \in Entries : Visible(e) /\ Before(e, at[c]) => e \in W
  BY <1>1, <1>3, EntriesAre, BeforeOrder
<1>7. /\ MergeType(m) /\ InPlace(m) /\ m.direction = "reverse"
      /\ Valid(m) => \E c \in Child : at[c] = At(m) /\ at[c] # NoEntry
      /\ \A e \in W : Valid(m) /\ ~Before(At(m), e)
  <2>1. W \subseteq Entries
    OBVIOUS
  <2> HIDE DEF W
  <2> QED
    BY <1>2, <1>4, <1>5, <1>6, <2>1, GatherReverse
<1>8. Valid(m) => Before(At(m), x)
  BY <1>3, <1>7
<1> QED
  BY <1>7, <1>8 DEF x

-----------------------------------------------------------------------------
(* The steps keep MergeInv.                                                *)

PC == {"idle", "first", "seek", "last", "next", "next_entry", "prev", "back",
       "prev_entry"}

LEMMA InitMerge == Init => MergeInv
<1> SUFFICES ASSUME Init PROVE MergeInv
  OBVIOUS
<1>1. PICK written \in [1..Written -> Keys \X {"value", "deletion"}],
           place \in [1..Written -> Child] :
        data = [c \in Child |->
                  {[key |-> written[s][1], seq |-> s, type |-> written[s][2]] :
                     s \in {s \in 1..Written : place[s] = c}}]
  BY DEF Init
<1> DEFINE E(s) == [key |-> written[s][1], seq |-> s, type |-> written[s][2]]
           F == [s \in 1..Written |-> E(s)]
<1>2. Written \in Nat /\ MaxWrites \in Nat /\ Written <= MaxWrites /\ Children \in Nat \ {0, 1}
  BY IteratorAssumption
<1>3. ASSUME NEW s \in 1..Written
      PROVE  E(s) \in Entry /\ E(s).seq = s /\ s \in Nat
  <2>1. s \in 1..MaxWrites /\ s \in Nat
    BY <1>2
  <2>2. written[s][1] \in Keys /\ written[s][2] \in {"value", "deletion"}
    OBVIOUS
  <2> QED
    BY <2>1, <2>2 DEF Entry
<1>4. \A c \in Child : data[c] = {E(s) : s \in {s \in 1..Written : place[s] = c}}
  BY <1>1
<1>5. Entries = {E(s) : s \in 1..Written}
  <2>1. ASSUME NEW s \in 1..Written
        PROVE  E(s) \in Entries
    <3>1. place[s] \in Child /\ E(s) \in data[place[s]]
      BY <1>4
    <3> QED
      BY <3>1 DEF Entries
  <2>2. ASSUME NEW e \in Entries
        PROVE  \E s \in 1..Written : e = E(s)
    BY <1>4 DEF Entries
  <2> QED
    BY <2>1, <2>2
<1>6. F \in Bijection(1..Written, Entries)
  <2>1. F \in [1..Written -> Entries]
    BY <1>5
  <2>2. \A s, t \in 1..Written : F[s] = F[t] => s = t
    BY <1>3
  <2>3. \A e \in Entries : \E s \in 1..Written : F[s] = e
    BY <1>5
  <2> QED
    BY <2>1, <2>2, <2>3 DEF Bijection, Injection, Surjection, IsInjective
<1>7. IsFiniteSet(Entries) /\ Cardinality(Entries) = Written
  <2>1. IsFiniteSet(1..Written) /\ Cardinality(1..Written) = Written
    BY <1>2, FS_Interval
  <2> QED
    BY <2>1, <1>6, FS_Bijection DEF ExistsBijection
<1>8. sequence_ \in 0..Written /\ sequence_ \in 0..MaxWrites
  BY <1>2 DEF Init
<1>9. \A e, f \in Entries : e.seq = f.seq => e = f
  <2> SUFFICES ASSUME NEW s \in 1..Written, NEW t \in 1..Written, E(s).seq = E(t).seq
               PROVE  E(s) = E(t)
    BY <1>5
  <2> QED
    BY <1>3
<1>10. \A c, d \in Child : c # d => data[c] \cap data[d] = {}
  <2> SUFFICES ASSUME NEW c \in Child, NEW d \in Child, c # d,
                      NEW e \in data[c], e \in data[d]
               PROVE  FALSE
    OBVIOUS
  <2>1. PICK s \in 1..Written : place[s] = c /\ e = E(s)
    BY <1>4
  <2>2. PICK t \in 1..Written : place[t] = d /\ e = E(t)
    BY <1>4
  <2>3. s = t
    BY <2>1, <2>2, <1>3
  <2> QED
    BY <2>1, <2>2, <2>3
<1>11. DataInv
  <2>1. \A e \in Entries : e.seq <= Cardinality(Entries)
    BY <1>2, <1>3, <1>5, <1>7
  <2>2. sequence_ <= Cardinality(Entries)
    BY <1>2, <1>7, <1>8
  <2> QED
    BY <1>7, <1>9, <1>10, <2>1, <2>2 DEF DataInv
<1>12. data \in [Child -> SUBSET Entry]
  <2>1. \A c \in Child : data[c] \subseteq Entry
    BY <1>3, <1>4
  <2> QED
    BY <1>1, <2>1
<1>13. /\ merge.at \in [Child -> Entry \cup {NoEntry}] /\ merge.current = 0
       /\ merge.direction = "forward" /\ \A c \in Child : merge.at[c] = NoEntry
  BY DEF Init
<1>14. TypeOK
  <2>1. 0 \in 0..MaxWrites
    BY <1>2
  <2>2. merge.current \in {0} \cup ChildrenAt(merge.at)
    BY <1>13
  <2>3. ~valid_
    BY DEF Init
  <2> QED
    BY <1>8, <1>12, <1>13, <2>1, <2>2, <2>3 DEF TypeOK, Init
<1>15. InPlace(merge)
  BY <1>13 DEF InPlace, Valid
<1>16. ControlInv
  BY DEF Init, ControlInv, Idle
<1> QED
  BY <1>11, <1>14, <1>15, <1>16 DEF MergeInv

\* An insertion adds an entry that is newer than the snapshot.
LEMMA InsertMerge ==
  ASSUME MergeInv, Insert
  PROVE  /\ MergeInv'
         /\ Entries \subseteq Entries'
         /\ \A e \in Entries' : Visible(e) => e \in Entries
<1>1. PICK k \in Keys, t \in {"value", "deletion"} :
        data' = [data EXCEPT ![1] =
                   Inserted(@, [key |-> k, seq |-> Cardinality(Entries) + 1, type |-> t])]
  BY DEF Insert
<1> DEFINE n == Cardinality(Entries)
           e == [key |-> k, seq |-> n + 1, type |-> t]
<1>2. /\ n < MaxWrites
      /\ UNCHANGED <<sequence_, merge, iterVars, skipping, value_type, pc, call, from>>
  BY DEF Insert
<1>3. TypeOK /\ DataInv /\ InPlace(merge) /\ ControlInv
  BY DEF MergeInv
<1>4. n \in Nat /\ MaxWrites \in Nat /\ IsFiniteSet(Entries)
  BY <1>3, IteratorAssumption, FS_CardinalityType DEF DataInv
<1>5. e \in Entry /\ e.seq = n + 1
  <2>1. n + 1 \in 1..MaxWrites
    BY <1>2, <1>4
  <2> QED
    BY <2>1 DEF Entry
<1> HIDE DEF n, e
<1>6. 1 \in Child
  BY IteratorAssumption DEF Child
<1>7. /\ data' \in [Child -> SUBSET Entry]
      /\ data'[1] = data[1] \cup {e}
      /\ \A c \in Child : c # 1 => data'[c] = data[c]
  BY <1>1, <1>3, <1>5, <1>6 DEF TypeOK, Inserted, e, n
<1>8. Entries' = Entries \cup {e}
  <2>1. ASSUME NEW f \in Entries' PROVE f \in Entries \cup {e}
    BY <1>6, <1>7 DEF Entries
  <2>2. ASSUME NEW f \in Entries \cup {e} PROVE f \in Entries'
    BY <1>6, <1>7 DEF Entries
  <2> QED
    BY <2>1, <2>2
<1>9. \A f \in Entries : f.seq \in Nat /\ f.seq <= n /\ f.seq # e.seq
  <2>1. \A f \in Entries : f.seq \in Nat /\ f.seq <= n
    BY <1>3, EntriesAre, EntryIs DEF DataInv, n
  <2> QED
    BY <2>1, <1>4, <1>5
<1>10. sequence_ \in Nat /\ sequence_ <= n
  BY <1>3, EntriesAre DEF DataInv, n
<1>11. ~Visible(e)
  BY <1>4, <1>5, <1>10 DEF Visible
<1>12. IsFiniteSet(Entries') /\ Cardinality(Entries') = n + 1
  <2>1. e \notin Entries
    BY <1>9
  <2> QED
    BY <2>1, <1>4, <1>8, FS_AddElement DEF n
<1>13. DataInv'
  <2>1. \A f \in Entries' : f.seq <= Cardinality(Entries')
    BY <1>4, <1>5, <1>8, <1>9, <1>12
  <2>2. sequence_ <= Cardinality(Entries')
    BY <1>4, <1>10, <1>12
  <2>3. \A f, g \in Entries' : f.seq = g.seq => f = g
    BY <1>3, <1>8, <1>9 DEF DataInv
  <2>4. \A c, d \in Child : c # d => data'[c] \cap data'[d] = {}
    <3>1. \A c \in Child : e \notin data[c]
      BY <1>9 DEF Entries
    <3> QED
      BY <3>1, <1>3, <1>7 DEF DataInv
  <2> QED
    BY <1>2, <1>12, <2>1, <2>2, <2>3, <2>4 DEF DataInv
<1>14. InPlace(merge)'
  <2>1. \A c \in Child : merge.at[c] = NoEntry \/ merge.at[c] \in data'[c]
    BY <1>3, <1>6, <1>7 DEF InPlace
  <2>2. ASSUME NEW c \in Child, NEW f \in data'[c], Visible(f)
        PROVE  f \in data[c]
    BY <2>2, <1>7, <1>11
  <2> QED
    BY <1>2, <1>3, <2>1, <2>2 DEF InPlace, Valid, At, Visible, Towards
<1>15. TypeOK' /\ ControlInv'
  BY <1>2, <1>3, <1>7 DEF TypeOK, ControlInv, iterVars, Valid, ChildrenAt
<1>16. Entries \subseteq Entries' /\ \A f \in Entries' : Visible(f) => f \in Entries
  BY <1>8, <1>11
<1> QED
  BY <1>13, <1>14, <1>15, <1>16 DEF MergeInv

\* What the other steps have to show.
LEMMA MergeKept ==
  ASSUME MergeInv, UNCHANGED <<data, sequence_>>,
         NEW m, merge' = m, MergeType(m), InPlace(m),
         direction_' \in {"forward", "reverse"},
         valid_' \in BOOLEAN, skipping' \in BOOLEAN,
         saved_key_' \in Keys \cup {0}, saved_value_' \in 0..MaxWrites,
         value_type' \in {"value", "deletion"}, pc' \in PC, ControlInv'
  PROVE  MergeInv'
<1>1. TypeOK /\ DataInv
  BY DEF MergeInv
<1>2. Entries' = Entries
  BY DEF Entries
<1>3. DataInv'
  BY <1>1, <1>2 DEF DataInv
<1>4. InPlace(merge)'
  BY DEF InPlace, Valid, At, Visible, Towards
<1>5. /\ data' \in [Child -> SUBSET Entry] /\ sequence_' \in 0..MaxWrites
      /\ merge'.at \in [Child -> Entry \cup {NoEntry}]
      /\ merge'.current \in {0} \cup ChildrenAt(merge'.at)
      /\ merge'.direction \in {"forward", "reverse"}
  BY <1>1 DEF TypeOK, MergeType
<1>6. (valid_ /\ pc = "idle" => IF direction_ = "forward" THEN Valid(merge)
                                ELSE saved_key_ \in Keys)'
  BY DEF ControlInv
<1>7. TypeOK'
  BY <1>5, <1>6 DEF TypeOK, PC
<1> QED
  BY <1>3, <1>4, <1>7 DEF MergeInv

LEMMA BeginMerge == ASSUME MergeInv, Begin PROVE MergeInv'
<1>1. /\ pc = "idle" /\ pc' = call'.op
      /\ UNCHANGED <<data, sequence_, merge, iterVars, skipping, value_type>>
      /\ call' \in {[op |-> o, arg |-> 0] : o \in {"first", "last"}} \cup
                   {[op |-> "seek", arg |-> k] : k \in Keys} \cup
                   {[op |-> o, arg |-> 0] : o \in IF valid_ THEN {"next", "prev"} ELSE {}}
  BY DEF Begin
<1>2. TypeOK /\ ControlInv /\ InPlace(merge)
  BY DEF MergeInv
<1>3. /\ call'.op \in {"first", "last", "seek", "next", "prev"}
      /\ call'.op = "seek" => call'.arg \in Keys
      /\ call'.op \in {"next", "prev"} => valid_
  BY <1>1
<1>4. ControlInv'
  BY <1>1, <1>2, <1>3 DEF ControlInv, Valid, iterVars
<1> QED
  BY <1>1, <1>2, <1>3, <1>4, MergeKept DEF TypeOK, MergeType, PC, iterVars

LEMMA StartForwardMerge ==
  ASSUME MergeInv, UNCHANGED <<data, sequence_, value_type>>, StartForward,
         saved_key_' \in Keys \cup {0}, NEW m, merge' = m, MergeType(m), InPlace(m)
  PROVE  MergeInv'
<1>1. TypeOK /\ ControlInv
  BY DEF MergeInv
<1>2. /\ direction_' = "forward" /\ saved_value_' = 0 /\ skipping' = FALSE
      /\ \/ Valid(m) /\ pc' = "next_entry" /\ valid_' = valid_ /\ call' = call
         \/ ~Valid(m) /\ valid_' = FALSE /\ pc' = "idle" /\ call' = Idle
  BY DEF StartForward, Return
<1>3. ControlInv'
  BY <1>1, <1>2 DEF ControlInv, Idle
<1>4. 0 \in 0..MaxWrites
  BY IteratorAssumption
<1> QED
  BY <1>1, <1>2, <1>3, <1>4, MergeKept DEF TypeOK, PC

LEMMA SeekToFirstMerge == ASSUME MergeInv, SeekToFirst PROVE MergeInv'
<1>1. MergeType(merge') /\ InPlace(MergeFirst) /\ merge' = MergeFirst
  BY MergeFirstIs DEF MergeInv, SeekToFirst
<1> QED
  BY <1>1, StartForwardMerge DEF SeekToFirst, MergeInv, TypeOK

LEMMA SeekMerge == ASSUME MergeInv, Seek PROVE MergeInv'
<1>1. call.arg \in Keys
  BY DEF MergeInv, ControlInv, Seek
<1> DEFINE m == MergeSeek(SeekTarget(call.arg))
<1>2. merge' = m /\ MergeType(m) /\ InPlace(m)
  BY <1>1, MergeSeekIs DEF MergeInv, Seek
<1> HIDE DEF m
<1> QED
  BY <1>1, <1>2, StartForwardMerge DEF Seek

LEMMA SeekToLastMerge == ASSUME MergeInv, SeekToLast PROVE MergeInv'
<1>1. TypeOK /\ DataInv /\ ControlInv
  BY DEF MergeInv
<1> DEFINE m == MergeLast
<1>2. merge' = m /\ MergeType(m) /\ InPlace(m)
  BY <1>1, MergeLastIs DEF SeekToLast
<1> HIDE DEF m
<1>3. ControlInv'
  BY <1>1 DEF ControlInv, SeekToLast, StartReverse
<1>4. 0 \in 0..MaxWrites
  BY IteratorAssumption
<1> QED
  BY <1>1, <1>2, <1>3, <1>4, MergeKept DEF TypeOK, PC, SeekToLast, StartReverse

\* Where a change of direction leads to.
LEMMA MergeForwardIs ==
  ASSUME MergeInv, pc = "next"
  PROVE  MergeType(MergeForward) /\ InPlace(MergeForward)
<1>1. TypeOK /\ DataInv /\ InPlace(merge)
  BY DEF MergeInv
<1>2. CASE direction_ = "forward"
  BY <1>1, <1>2 DEF MergeForward, MergeType, TypeOK
<1>3. CASE direction_ = "reverse" /\ ~Valid(merge)
  BY <1>1, <1>3, MergeFirstIs DEF MergeForward
<1>4. CASE direction_ = "reverse" /\ Valid(merge)
  BY <1>1, <1>4, MergeNextIs DEF MergeForward
<1> QED
  BY <1>1, <1>2, <1>3, <1>4 DEF TypeOK

LEMMA KeyAt ==
  ASSUME TypeOK, DataInv, NEW m, MergeType(m), InPlace(m), Valid(m)
  PROVE  /\ At(m) \in Entry /\ At(m) \in Entries
         /\ At(m).key \in Keys /\ At(m).seq \in 0..MaxWrites
<1>1. At(m) \in Entry /\ At(m) \in Entries
  BY CurrentIs DEF InPlace
<1>2. At(m).seq \in Nat /\ At(m).seq <= MaxWrites /\ MaxWrites \in Nat /\ At(m).key \in Keys
  BY <1>1, EntryIs, IteratorAssumption
<1>3. At(m).seq \in 0..MaxWrites
  BY <1>2
<1> QED
  BY <1>1, <1>2, <1>3

LEMMA NextCallMerge == ASSUME MergeInv, NextCall PROVE MergeInv'
<1>1. TypeOK /\ DataInv /\ ControlInv
  BY DEF MergeInv
<1> DEFINE m == MergeForward
<1>2. merge' = m /\ MergeType(m) /\ InPlace(m)
  BY MergeForwardIs DEF NextCall
<1> HIDE DEF m
<1>3. Valid(m) => At(m).key \in Keys
  BY <1>1, <1>2, KeyAt
<1>4. /\ direction_' = "forward" /\ UNCHANGED <<data, sequence_, saved_value_, value_type>>
      /\ \/ /\ Valid(m) /\ saved_key_' = At(m).key /\ skipping' = TRUE
            /\ pc' = "next_entry" /\ valid_' = valid_ /\ call' = call
         \/ /\ ~Valid(m) /\ saved_key_' = 0 /\ valid_' = FALSE /\ pc' = "idle"
            /\ call' = Idle /\ skipping' = skipping
  BY <1>2 DEF NextCall, Return
<1>5. ControlInv'
  BY <1>1, <1>2, <1>4 DEF ControlInv, Idle
<1>6. saved_key_' \in Keys \cup {0} /\ skipping' \in BOOLEAN /\ valid_' \in BOOLEAN
  BY <1>1, <1>3, <1>4 DEF TypeOK
<1> QED
  BY <1>1, <1>2, <1>4, <1>5, <1>6, MergeKept DEF TypeOK, PC

LEMMA FoundNextMerge == ASSUME MergeInv, FoundNext PROVE MergeInv'
<1>1. TypeOK /\ ControlInv /\ InPlace(merge)
  BY DEF MergeInv
<1>2. /\ pc = "next_entry" /\ valid_' = TRUE /\ saved_key_' = 0 /\ pc' = "idle" /\ call' = Idle
      /\ UNCHANGED <<data, sequence_, merge, direction_, saved_value_, skipping, value_type>>
  BY DEF FoundNext, Return
<1>3. ControlInv'
  BY <1>1, <1>2 DEF ControlInv, Idle
<1> QED
  BY <1>1, <1>2, <1>3, MergeKept DEF TypeOK, MergeType, PC

LEMMA PassNextMerge == ASSUME MergeInv, PassNext PROVE MergeInv'
<1>1. TypeOK /\ DataInv /\ ControlInv /\ InPlace(merge) /\ Valid(merge)
  BY DEF MergeInv, ControlInv, PassNext
<1> DEFINE m == MergeNext(merge)
           deletion == Visible(At(merge)) /\ At(merge).type = "deletion"
<1>2. merge' = m /\ MergeType(m) /\ InPlace(m)
  BY <1>1, MergeNextIs DEF PassNext, NextAfter
<1> HIDE DEF m
<1>3. At(merge).key \in Keys
  BY <1>1, KeyAt DEF TypeOK, MergeType
<1>4. /\ pc = "next_entry" /\ UNCHANGED <<data, sequence_, direction_, saved_value_, value_type>>
      /\ skipping' = (skipping \/ deletion)
      /\ \/ /\ Valid(m) /\ saved_key_' = IF deletion THEN At(merge).key ELSE saved_key_
            /\ UNCHANGED <<valid_, pc, call, from>>
         \/ /\ ~Valid(m) /\ saved_key_' = 0 /\ valid_' = FALSE /\ pc' = "idle"
            /\ call' = Idle
  BY <1>2 DEF PassNext, EndForward, Return
<1> HIDE DEF deletion
<1>5. ControlInv'
  BY <1>1, <1>2, <1>4 DEF ControlInv, Idle
<1>6. saved_key_' \in Keys \cup {0} /\ valid_' \in BOOLEAN
  BY <1>1, <1>3, <1>4 DEF TypeOK
<1>7. skipping' \in BOOLEAN
  BY <1>4
<1> QED
  BY <1>1, <1>2, <1>4, <1>5, <1>6, <1>7, MergeKept DEF TypeOK, PC

LEMMA PrevCallMerge == ASSUME MergeInv, PrevCall PROVE MergeInv'
<1>1. TypeOK /\ DataInv /\ ControlInv /\ InPlace(merge)
  BY DEF MergeInv
<1>2. /\ pc = "prev"
      /\ UNCHANGED <<data, sequence_, merge, valid_, saved_value_, skipping, call>>
      /\ \/ /\ direction_ = "forward" /\ saved_key_' = At(merge).key /\ pc' = "back"
            /\ UNCHANGED <<direction_, value_type>>
         \/ /\ direction_ = "reverse" /\ direction_' = "reverse" /\ value_type' = "deletion"
            /\ pc' = "prev_entry" /\ saved_key_' = saved_key_
  BY <1>1 DEF PrevCall, StartReverse, TypeOK
<1>3. valid_ /\ (direction_ = "forward" => Valid(merge) /\ At(merge).key \in Keys)
  <2>1. valid_ /\ (direction_ = "forward" => Valid(merge))
    BY <1>1, <1>2 DEF ControlInv
  <2> QED
    BY <2>1, <1>1, KeyAt DEF TypeOK, MergeType
<1>4. ControlInv'
  BY <1>1, <1>2, <1>3 DEF ControlInv, Valid
<1> QED
  BY <1>1, <1>2, <1>3, <1>4, MergeKept DEF TypeOK, MergeType, PC

LEMMA BackMerge == ASSUME MergeInv, Back PROVE MergeInv'
<1>1. TypeOK /\ DataInv /\ ControlInv /\ InPlace(merge) /\ Valid(merge)
  BY DEF MergeInv, ControlInv, Back
<1> DEFINE m == MergePrev(merge)
<1>2. merge' = m /\ MergeType(m) /\ InPlace(m)
  BY <1>1, MergePrevIs DEF Back
<1> HIDE DEF m
<1>3. /\ pc = "back" /\ UNCHANGED <<data, sequence_, skipping>>
      /\ \/ /\ ~Valid(m) /\ valid_' = FALSE /\ saved_key_' = 0 /\ saved_value_' = 0
            /\ pc' = "idle" /\ call' = Idle /\ UNCHANGED <<direction_, value_type>>
         \/ /\ Valid(m) /\ direction_' = "reverse" /\ value_type' = "deletion"
            /\ pc' = "prev_entry" /\ UNCHANGED <<valid_, saved_key_, saved_value_, call>>
         \/ /\ Valid(m) /\ UNCHANGED <<iterVars, value_type, pc, call>>
  BY <1>2 DEF Back, StartReverse, Return
<1>4. ControlInv'
  BY <1>1, <1>2, <1>3 DEF ControlInv, Idle, iterVars
<1>5. 0 \in 0..MaxWrites
  BY IteratorAssumption
<1> QED
  BY <1>1, <1>2, <1>3, <1>4, <1>5, MergeKept DEF TypeOK, PC, iterVars

LEMMA TakePrevMerge == ASSUME MergeInv, TakePrev PROVE MergeInv'
<1>1. TypeOK /\ DataInv /\ ControlInv /\ InPlace(merge) /\ Valid(merge) /\ pc = "prev_entry"
  BY DEF MergeInv, TakePrev
<1>2. UNCHANGED <<data, sequence_, direction_, valid_, skipping, pc, call, from>>
  BY DEF TakePrev
<1>3. CASE ~Visible(At(merge))
  <2>1. UNCHANGED <<value_type, saved_key_, saved_value_, merge>>
    BY <1>3 DEF TakePrev
  <2>2. ControlInv'
    BY <1>1, <1>2, <2>1 DEF ControlInv, Valid
  <2> QED
    BY <1>1, <1>2, <2>1, <2>2, MergeKept DEF TypeOK, MergeType, PC
<1>4. CASE Visible(At(merge))
  <2> DEFINE m == MergePrev(merge)
             e == At(merge)
  <2>1. merge' = m /\ MergeType(m) /\ InPlace(m)
    BY <1>1, <1>4, MergePrevIs DEF TakePrev
  <2> HIDE DEF m
  <2>2. /\ e.key \in Keys /\ e.seq \in 0..MaxWrites /\ e.type \in {"value", "deletion"}
    BY <1>1, KeyAt, EntryIs DEF TypeOK, MergeType
  <2>3. /\ value_type' = e.type
        /\ saved_key_' = IF e.type = "value" THEN e.key ELSE 0
        /\ saved_value_' = IF e.type = "value" THEN e.seq ELSE 0
    BY <1>4 DEF TakePrev
  <2> HIDE DEF e
  <2>4. ControlInv'
    BY <1>1, <1>2, <2>1, <2>2, <2>3 DEF ControlInv
  <2>5. saved_key_' \in Keys \cup {0} /\ saved_value_' \in 0..MaxWrites
    <3>1. 0 \in 0..MaxWrites
      BY IteratorAssumption
    <3> QED
      BY <3>1, <2>2, <2>3
  <2> QED
    BY <1>1, <1>2, <2>1, <2>2, <2>3, <2>4, <2>5, MergeKept DEF TypeOK, PC
<1> QED
  BY <1>3, <1>4

LEMMA EndPrevMerge == ASSUME MergeInv, EndPrev PROVE MergeInv'
<1>1. TypeOK /\ ControlInv /\ InPlace(merge)
  BY DEF MergeInv
<1>2. /\ pc = "prev_entry" /\ pc' = "idle" /\ call' = Idle
      /\ UNCHANGED <<data, sequence_, merge, skipping, value_type>>
      /\ \/ /\ value_type = "deletion" /\ valid_' = FALSE /\ saved_key_' = 0
            /\ saved_value_' = 0 /\ direction_' = "forward"
         \/ /\ value_type # "deletion" /\ valid_' = TRUE
            /\ UNCHANGED <<saved_key_, saved_value_, direction_>>
  BY DEF EndPrev, Return
<1>3. ControlInv'
  BY <1>1, <1>2 DEF ControlInv, Idle, TypeOK
<1>4. 0 \in 0..MaxWrites
  BY IteratorAssumption
<1> QED
  BY <1>1, <1>2, <1>3, <1>4, MergeKept DEF TypeOK, MergeType, PC

LEMMA StutterMerge == ASSUME MergeInv, UNCHANGED vars PROVE MergeInv'
<1>1. TypeOK /\ ControlInv /\ InPlace(merge)
  BY DEF MergeInv
<1>2. ControlInv'
  BY <1>1 DEF ControlInv, vars, iterVars, Valid
<1> QED
  BY <1>1, <1>2, MergeKept DEF TypeOK, MergeType, PC, vars, iterVars

\* The merging iterator keeps its children in place, whatever the client calls and whatever
\* is written meanwhile.
THEOREM MergeInvariant == Spec => []MergeInv
<1>1. Init => MergeInv
  BY InitMerge
<1>2. MergeInv /\ [Next]_vars => MergeInv'
  BY InsertMerge, BeginMerge, SeekToFirstMerge, SeekMerge, SeekToLastMerge, NextCallMerge,
     FoundNextMerge, PassNextMerge, PrevCallMerge, BackMerge, TakePrevMerge, EndPrevMerge,
     StutterMerge DEF Next, Step
<1> QED
  BY <1>1, <1>2, PTL DEF Spec

\* In the direction of the merging iterator the other children stand beyond the current one
\* and none has left out an entry of the snapshot (merger.cpp:61-65, 87-91): for any number
\* of children, entries and insertions.
THEOREM NothingIsSkipped == Spec => []NothingSkipped
<1>1. MergeInv => NothingSkipped
  <2> SUFFICES ASSUME MergeInv PROVE NothingSkipped
    OBVIOUS
  <2>1. TypeOK /\ InPlace(merge)
    BY DEF MergeInv
  <2> QED
    BY <2>1 DEF NothingSkipped, InPlace, Towards, TypeOK
<1> QED
  BY <1>1, MergeInvariant, PTL

-----------------------------------------------------------------------------
(* The snapshot, and what a call is to show.                               *)

LEMMA NewestIs ==
  ASSUME TypeOK, DataInv, NEW k, NEW e \in Newest(k)
  PROVE  /\ e \in Entries /\ e \in Entry /\ e.key = k /\ Visible(e) /\ k \in Keys
         /\ k \in Nat /\ e.seq \in Nat /\ e.seq \in 1..MaxWrites
         /\ \A f \in Entries : f.key = k /\ Visible(f) => f.seq <= e.seq
         /\ \A f \in Newest(k) : f = e
<1>1. /\ e \in Entries /\ e.key = k /\ Visible(e)
      /\ \A f \in Entries : f.key = k /\ Visible(f) => f.seq <= e.seq
  BY DEF Newest
<1>2. e \in Entry
  BY <1>1, EntriesAre
<1>3. k \in Keys /\ k \in Nat /\ e.seq \in Nat
  BY <1>1, <1>2, EntryIs
<1>4. e.seq \in 1..MaxWrites
  BY <1>2 DEF Entry
<1>5. ASSUME NEW f \in Newest(k) PROVE f = e
  <2>1. /\ f \in Entries /\ f.key = k /\ Visible(f) /\ e.seq <= f.seq
    BY <1>1 DEF Newest
  <2>2. f \in Entry
    BY <2>1, EntriesAre
  <2>3. f.seq \in Nat /\ f.seq <= e.seq
    BY <1>1, <2>1, <2>2, EntryIs
  <2>4. f.seq = e.seq
    BY <1>3, <2>1, <2>3
  <2> QED
    BY <1>1, <2>1, <2>4 DEF DataInv
<1> QED
  BY <1>1, <1>2, <1>3, <1>4, <1>5

LEMMA ViewDomain == DOMAIN View = {k \in Keys : \E e \in Newest(k) : e.type = "value"}
BY DEF View

LEMMA ViewIs ==
  ASSUME TypeOK, DataInv, NEW k, NEW e \in Newest(k)
  PROVE  /\ k \in DOMAIN View <=> e.type = "value"
         /\ k \in DOMAIN View => View[k] = e.seq
<1>1. k \in Keys /\ \A f \in Newest(k) : f = e
  BY NewestIs
<1>2. k \in DOMAIN View <=> e.type = "value"
  BY <1>1, ViewDomain
<1>3. k \in DOMAIN View => View[k] = (CHOOSE f \in Newest(k) : TRUE).seq
  BY DEF View
<1>4. (CHOOSE f \in Newest(k) : TRUE) \in Newest(k)
  OBVIOUS
<1>5. (CHOOSE f \in Newest(k) : TRUE) = e
  BY <1>1, <1>4
<1> QED
  BY <1>2, <1>3, <1>5

\* A key that the call may show has its newest entry.
LEMMA WantedIs ==
  ASSUME TypeOK, DataInv, NEW k \in Wanted
  PROVE  \E e \in Newest(k) :
           /\ e.type = "value" /\ View[k] = e.seq
           /\ e \in Entries /\ e \in Entry /\ e.key = k /\ Visible(e) /\ k \in Nat
<1>1. k \in DOMAIN View
  BY DEF Wanted
<1>2. PICK e \in Newest(k) : e.type = "value"
  BY <1>1, ViewDomain
<1>3. View[k] = e.seq
  BY <1>1, ViewIs
<1> QED
  BY <1>2, <1>3, NewestIs

\* Insertions do not change what the snapshot shows.
LEMMA SameView ==
  ASSUME sequence_' = sequence_, Entries \subseteq Entries',
         \A e \in Entries' : Visible(e) => e \in Entries
  PROVE  View' = View /\ \A k : Newest(k)' = Newest(k)
<1>1. ASSUME NEW k PROVE Newest(k)' = Newest(k)
  <2>1. \A e : Visible(e)' <=> Visible(e)
    BY DEF Visible
  <2>2. ASSUME NEW e \in Newest(k)' PROVE e \in Newest(k)
    BY <2>1, <2>2 DEF Newest
  <2>3. ASSUME NEW e \in Newest(k) PROVE e \in Newest(k)'
    BY <2>1, <2>3 DEF Newest
  <2> QED
    BY <2>2, <2>3
<1>2. (DOMAIN View)' = DOMAIN View
  <2>1. (DOMAIN View)' = {k \in Keys : \E e \in Newest(k)' : e.type = "value"}
    BY DEF View
  <2> QED
    BY <1>1, <2>1, ViewDomain
<1> DEFINE Pick(S) == (CHOOSE e \in S : TRUE).seq
<1>3. View = [k \in DOMAIN View |-> Pick(Newest(k))]
  BY DEF View
<1>4. View' = [k \in (DOMAIN View)' |-> Pick(Newest(k)')]
  BY DEF View
<1> HIDE DEF Pick
<1>5. View' = [k \in DOMAIN View |-> Pick(Newest(k))]
  BY <1>1, <1>2, <1>4
<1> QED
  BY <1>1, <1>3, <1>5

LEMMA NextView ==
  ASSUME MergeInv, [Next]_vars
  PROVE  View' = View /\ \A k : Newest(k)' = Newest(k)
<1>1. CASE Insert
  <2>1. sequence_' = sequence_
    BY <1>1 DEF Insert
  <2> QED
    BY <1>1, <2>1, InsertMerge, SameView
<1>2. CASE UNCHANGED <<data, sequence_>>
  <2>1. Entries' = Entries /\ sequence_' = sequence_
    BY <1>2 DEF Entries
  <2> QED
    BY <2>1, SameView
<1>3. CASE Begin \/ Step \/ UNCHANGED vars
  <2>1. UNCHANGED <<data, sequence_>>
    BY <1>3 DEF Begin, Step, SeekToFirst, Seek, SeekToLast, NextCall, FoundNext, PassNext,
       PrevCall, Back, TakePrev, EndPrev, vars
  <2> QED
    BY <2>1, <1>2
<1> QED
  BY <1>1, <1>3 DEF Next

-----------------------------------------------------------------------------
(* The steps of the cursor.                                                *)

ForwardOp == {"first", "seek", "next"}
ReverseOp == {"last", "prev"}

\* A call that is running, and what it started from.
Running ==
  /\ pc # "idle" /\ call.op \in ForwardOp \cup ReverseOp
  /\ call.op = "seek" => call.arg \in Keys
  /\ call.op \in {"next", "prev"} => \E r \in from : from = {r}

LEMMA TargetIs ==
  ASSUME TypeOK, DataInv, Running
  PROVE  Cursor!Target = IF call.op \in ForwardOp THEN Cursor!Least(Wanted)
                         ELSE Cursor!Largest(Wanted)
<1>1. DOMAIN View \subseteq Nat
  BY ViewDomain, IteratorAssumption
<1> DEFINE shown == IF pc = "idle" THEN Shown ELSE from
<1>2. shown = from
  BY DEF Running
<1>3. CASE call.op = "first"
  BY <1>3 DEF Cursor!Target, Wanted, ForwardOp
<1>4. CASE call.op = "last"
  BY <1>4 DEF Cursor!Target, Wanted, ForwardOp
<1>5. CASE call.op = "seek"
  <2>1. call.arg \in Nat
    BY <1>5, IteratorAssumption DEF Running
  <2>2. Wanted = Cursor!Above(call.arg - 1)
    BY <1>1, <1>5, <2>1 DEF Wanted, Cursor!Above
  <2> QED
    BY <1>5, <2>2 DEF Cursor!Target, ForwardOp
<1>6. CASE call.op = "next"
  <2>1. PICK r \in from : from = {r}
    BY <1>6 DEF Running
  <2>2. Wanted = Cursor!Above(r.key)
    BY <1>6, <2>1 DEF Wanted, Cursor!Above
  <2>3. Cursor!Target = UNION {Cursor!Least(Cursor!Above(s.key)) : s \in shown}
    BY <1>6 DEF Cursor!Target
  <2>4. Cursor!Target = Cursor!Least(Cursor!Above(r.key))
    BY <1>2, <2>1, <2>3
  <2> QED
    BY <1>6, <2>2, <2>4 DEF ForwardOp
<1>7. CASE call.op = "prev"
  <2>1. PICK r \in from : from = {r}
    BY <1>7 DEF Running
  <2>2. Wanted = Cursor!Below(r.key)
    BY <1>7, <2>1 DEF Wanted, Cursor!Below
  <2>3. Cursor!Target = UNION {Cursor!Largest(Cursor!Below(s.key)) : s \in shown}
    BY <1>7 DEF Cursor!Target
  <2>4. Cursor!Target = Cursor!Largest(Cursor!Below(r.key))
    BY <1>2, <2>1, <2>3
  <2> QED
    BY <1>7, <2>2, <2>4 DEF ForwardOp
<1> QED
  BY <1>3, <1>4, <1>5, <1>6, <1>7 DEF Running, ForwardOp, ReverseOp

\* A call that finds nothing returns when nothing is wanted.
LEMMA ReturnsNothing ==
  ASSUME TypeOK, DataInv, Running, View' = View, Return, valid_' = FALSE, Wanted = {},
         ~Slipped
  PROVE  Cursor!Return
<1>1. Cursor!Target = {}
  BY TargetIs DEF Cursor!Least, Cursor!Largest
<1>2. Shown' = {} /\ pc' = "idle" /\ call' = Idle
  BY DEF Shown, Return
<1>3. call # Cursor!Idle
  BY DEF Running, Cursor!Idle, ForwardOp, ReverseOp
<1>4. Slipped = FALSE /\ Slipped' = FALSE /\ pc # "idle"
  BY <1>2 DEF Slipped, Running
<1> QED
  BY <1>1, <1>2, <1>3, <1>4 DEF Cursor!Return, Cursor!Idle, Idle

\* One that shows a key returns when it is the first one wanted, or the last.
LEMMA ReturnsKey ==
  ASSUME TypeOK, DataInv, Running, View' = View, Return, ~Slipped,
         NEW k \in Wanted, Shown' = {[key |-> k, value |-> View[k]]},
         \A j \in Wanted : IF call.op \in ForwardOp THEN k <= j ELSE k >= j
  PROVE  Cursor!Return
<1>1. Wanted \subseteq Nat
  BY ViewDomain, IteratorAssumption DEF Wanted
<1>2. Cursor!Target = {k}
  <2>1. CASE call.op \in ForwardOp
    <3>1. \A j \in Wanted : k <= j /\ (j <= k => j = k)
      BY <1>1, <2>1
    <3>2. Cursor!Least(Wanted) = {k}
      BY <1>1, <3>1 DEF Cursor!Least
    <3> QED
      BY <2>1, <3>2, TargetIs
  <2>2. CASE call.op \notin ForwardOp
    <3>1. \A j \in Wanted : k >= j /\ (j >= k => j = k)
      BY <1>1, <2>2
    <3>2. Cursor!Largest(Wanted) = {k}
      BY <1>1, <3>1 DEF Cursor!Largest
    <3> QED
      BY <2>2, <3>2, TargetIs
  <2> QED
    BY <2>1, <2>2
<1>3. pc' = "idle" /\ call' = Idle
  BY DEF Return
<1>4. call # Cursor!Idle
  BY DEF Running, Cursor!Idle, ForwardOp, ReverseOp
<1>5. Slipped = FALSE /\ Slipped' = FALSE /\ pc # "idle"
  BY <1>3 DEF Slipped, Running
<1> QED
  BY <1>2, <1>3, <1>4, <1>5 DEF Cursor!Return, Cursor!Idle, Idle

\* A Next() that slipped returns what was shown.
LEMMA ReturnsSlipped ==
  ASSUME Running, View' = View, Return, Slipped, Shown' = from
  PROVE  Cursor!Return
<1>1. pc' = "idle" /\ call' = Idle /\ pc # "idle"
  BY DEF Return, Running
<1>2. call # Cursor!Idle
  BY DEF Running, Cursor!Idle, ForwardOp, ReverseOp
<1>3. Slipped = TRUE /\ Slipped' = FALSE
  BY <1>1 DEF Slipped
<1> QED
  BY <1>1, <1>2, <1>3 DEF Cursor!Return, Cursor!Idle, Idle

-----------------------------------------------------------------------------
(* The steps keep CursorInv and are steps of the cursor.                   *)

LEMMA InitCursor == Init => CursorInv
<1> SUFFICES ASSUME Init PROVE CursorInv
  OBVIOUS
<1>1. /\ pc = "idle" /\ call = Idle /\ from = {} /\ direction_ = "forward" /\ valid_ = FALSE
  BY DEF Init
<1> QED
  BY <1>1 DEF CursorInv

LEMMA InitView == Init => Cursor!Init
<1> SUFFICES ASSUME Init PROVE Cursor!Init
  OBVIOUS
<1>1. TypeOK /\ DataInv
  BY InitMerge DEF MergeInv
<1>2. DOMAIN View \subseteq Keys
  BY ViewDomain
<1>3. ASSUME NEW k \in DOMAIN View PROVE View[k] \in 1..MaxWrites
  <2>1. PICK e \in Newest(k) : e.type = "value"
    BY ViewDomain
  <2> QED
    BY <1>1, <2>1, ViewIs, NewestIs
<1>4. View = [k \in DOMAIN View |-> View[k]]
  BY DEF View
<1>5. View \in [DOMAIN View -> 1..MaxWrites]
  BY <1>3, <1>4
<1>6. call = Idle /\ pc = "idle" /\ Shown = {}
  BY DEF Init, Shown
<1>7. Slipped = FALSE
  BY <1>6 DEF Slipped
<1> QED
  BY <1>2, <1>5, <1>6, <1>7 DEF Cursor!Init, Cursor!Idle, Idle

\* What stays when the children do.
LEMMA Frame ==
  ASSUME UNCHANGED <<data, sequence_>>
  PROVE  /\ Entries' = Entries /\ View' = View /\ Newer' = Newer
         /\ \A k : Newest(k)' = Newest(k)
         /\ \A e : Visible(e)' <=> Visible(e)
         /\ UNCHANGED <<call, from>> => Wanted' = Wanted
<1>1. Entries' = Entries /\ sequence_' = sequence_
  BY DEF Entries
<1>2. View' = View /\ \A k : Newest(k)' = Newest(k)
  BY <1>1, SameView
<1>3. Newer' = Newer
  BY <1>1 DEF Newer
<1>4. \A e : Visible(e)' <=> Visible(e)
  BY <1>1 DEF Visible
<1>5. UNCHANGED <<call, from>> => Wanted' = Wanted
  BY <1>2 DEF Wanted
<1> QED
  BY <1>1, <1>2, <1>3, <1>4, <1>5

LEMMA SavedKeyIs == ASSUME TypeOK PROVE saved_key_ \in Nat
<1>1. saved_key_ \in Keys \cup {0}
  BY DEF TypeOK
<1>2. Keys \subseteq Nat
  BY IteratorAssumption
<1> QED
  BY <1>1, <1>2

\* A call that goes on is not seen.
LEMMA GoesOn ==
  ASSUME pc # "idle", pc' # "idle", View' = View, UNCHANGED <<call, from>>,
         Slipped' = Slipped
  PROVE  UNCHANGED Cursor!vars
BY DEF Cursor!vars

\* Only a Next() slips.
LEMMA NoSlip ==
  ASSUME call.op # "next" \/ pc # "next_entry"
  PROVE  Slipped = FALSE
BY DEF Slipped
LEMMA NoSlipNext ==
  ASSUME call'.op # "next" \/ pc' # "next_entry"
  PROVE  Slipped' = FALSE
BY DEF Slipped

\* When the Next() that is running has slipped.
LEMMA SlippedIs ==
  ASSUME TypeOK, call.op = "next", pc = "next_entry", NEW r, from = {r}, r.key \in Nat
  PROVE  /\ SlippedBack(r) => Slipped = TRUE
         /\ Turned(r) => Slipped = FALSE
<1>1. saved_key_ \in Nat
  BY SavedKeyIs
<1>2. SlippedBack(r) => Slipped
  BY DEF SlippedBack, Slipped
<1>3. Turned(r) => ~Slipped
  BY <1>1 DEF Turned, Slipped
<1>4. Slipped \in BOOLEAN
  BY DEF Slipped
<1> QED
  BY <1>2, <1>3, <1>4

\* Between calls a forward iterator has nothing to remember.
LEMMA RestsForward ==
  ASSUME Return, direction_' = "forward" \/ valid_' = FALSE
  PROVE  CursorInv'
<1>1. pc' = "idle" /\ call' = Idle /\ from' = {}
  BY DEF Return
<1> QED
  BY <1>1 DEF CursorInv, Standing

\* An insertion changes nothing that the invariant of a call says.
LEMMA InsertCursor ==
  ASSUME MergeInv, CursorInv, Insert
  PROVE  CursorInv' /\ UNCHANGED Cursor!vars
<1>1. UNCHANGED <<sequence_, merge, direction_, valid_, saved_key_, saved_value_, skipping,
                  value_type, pc, call, from>>
  BY DEF Insert, iterVars
<1>2. /\ Entries \subseteq Entries' /\ \A e \in Entries' : Visible(e) => e \in Entries
      /\ sequence_' = sequence_
  BY <1>1, InsertMerge
<1>3. View' = View /\ \A k : Newest(k)' = Newest(k)
  BY <1>2, SameView
<1>4. Wanted' = Wanted /\ Shown' = Shown /\ At(merge)' = At(merge)
      /\ (Valid(merge)' <=> Valid(merge))
  BY <1>1, <1>3 DEF Wanted, Shown, At, Valid
<1>5. /\ \A e : (Visible(e)' <=> Visible(e)) /\ (Reachable(e)' <=> Reachable(e))
                /\ (Passed(e)' <=> Passed(e))
      /\ Newer \subseteq Newer'
  BY <1>1, <1>2, <1>4 DEF Visible, Reachable, Passed, Newer
<1>6. ASSUME NEW r, SlippedBack(r) PROVE SlippedBack(r)'
  BY <1>1, <1>2, <1>3, <1>4, <1>5, <1>6 DEF SlippedBack
<1>7. ASSUME NEW r, Turned(r) PROVE Turned(r)'
  BY <1>1, <1>4, <1>7 DEF Turned
<1>8. Forward => Forward'
  <2> SUFFICES ASSUME Forward PROVE Forward'
    OBVIOUS
  <2>1. call.op = "next" =>
          skipping /\ \E r \in from :
            from = {r} /\ r.key \in Nat /\ (Turned(r)' \/ SlippedBack(r)')
    BY <1>6, <1>7 DEF Forward
  <2> QED
    BY <1>1, <1>2, <1>3, <1>4, <1>5, <2>1 DEF Forward
<1>9. Standing => Standing'
  BY <1>1, <1>2, <1>3, <1>4, <1>5 DEF Standing
<1>10. Backward => Backward'
  BY <1>1, <1>2, <1>3, <1>4, <1>5 DEF Backward
<1>11. GoingBack => GoingBack'
  BY <1>1, <1>4 DEF GoingBack
<1>12. CursorInv'
  BY <1>1, <1>4, <1>8, <1>9, <1>10, <1>11 DEF CursorInv
<1>13. Slipped' = Slipped
  <2>1. CASE call.op = "next" /\ pc = "next_entry"
    <3>1. TypeOK /\ TypeOK' /\ Forward
      BY <2>1, InsertMerge DEF MergeInv, CursorInv
    <3>2. PICK r \in from : from = {r} /\ r.key \in Nat /\ (Turned(r) \/ SlippedBack(r))
      BY <2>1, <3>1 DEF Forward
    <3>3. saved_key_ \in Nat
      BY <3>1, SavedKeyIs
    <3>4. CASE Turned(r)
      <4>1. ~(saved_key_ < r.key)
        BY <3>2, <3>3, <3>4 DEF Turned
      <4> QED
        BY <1>1, <3>2, <4>1 DEF Slipped
    <3>5. CASE SlippedBack(r)
      BY <1>1, <1>5, <2>1, <3>2, <3>5 DEF Slipped, SlippedBack
    <3> QED
      BY <3>2, <3>4, <3>5
  <2>2. CASE ~(call.op = "next" /\ pc = "next_entry")
    BY <1>1, <2>2, NoSlip, NoSlipNext
  <2> QED
    BY <2>1, <2>2
<1> QED
  BY <1>1, <1>3, <1>4, <1>12, <1>13 DEF Cursor!vars

LEMMA BeginCursor ==
  ASSUME MergeInv, CursorInv, Begin
  PROVE  CursorInv' /\ Cursor!Begin
<1>1. /\ pc = "idle" /\ pc' = call'.op /\ from' = Shown
      /\ UNCHANGED <<data, sequence_, merge, iterVars, skipping, value_type>>
      /\ call' \in {[op |-> o, arg |-> 0] : o \in {"first", "last"}} \cup
                   {[op |-> "seek", arg |-> k] : k \in Keys} \cup
                   {[op |-> o, arg |-> 0] : o \in IF valid_ THEN {"next", "prev"} ELSE {}}
  BY DEF Begin
<1>2. call'.op \in {"first", "last", "seek", "next", "prev"}
  BY <1>1
<1>3. Entries' = Entries /\ View' = View /\ \A e : Visible(e)' <=> Visible(e)
  BY <1>1, Frame
<1>4. Shown' = Shown /\ (valid_ => Shown # {})
  <2>1. Shown' = Shown
    BY <1>1 DEF Shown, At, iterVars
  <2>2. valid_ => Shown # {}
    BY DEF Shown
  <2> QED
    BY <2>1, <2>2
<1>5. call = Idle /\ from = {}
  BY <1>1 DEF CursorInv
<1>6. Standing' <=> Standing
  BY <1>1, <1>3 DEF Standing, Valid, At, iterVars
<1>7. CursorInv'
  BY <1>1, <1>2, <1>4, <1>6 DEF CursorInv, iterVars
<1>8. Slipped' = Slipped
  BY <1>1, <1>2, NoSlip, NoSlipNext
<1>9. call' \in Cursor!Calls
  BY <1>1, <1>4 DEF Cursor!Calls
<1>10. Cursor!Begin
  BY <1>1, <1>2, <1>3, <1>5, <1>8, <1>9 DEF Cursor!Begin, Cursor!Idle, Idle
<1> QED
  BY <1>7, <1>10

LEMMA StutterCursor ==
  ASSUME CursorInv, UNCHANGED vars
  PROVE  CursorInv' /\ UNCHANGED Cursor!vars
<1>1. UNCHANGED <<data, sequence_, merge, direction_, valid_, saved_key_, saved_value_,
                  skipping, value_type, pc, call, from>>
  BY DEF vars, iterVars
<1>2. /\ Entries' = Entries /\ View' = View /\ Newer' = Newer
      /\ \A k : Newest(k)' = Newest(k)
      /\ \A e : Visible(e)' <=> Visible(e)
      /\ Wanted' = Wanted
  BY <1>1, Frame
<1>3. Shown' = Shown
  BY <1>1 DEF Shown, At
<1>4. Standing' <=> Standing
  BY <1>1, <1>2 DEF Standing, Valid, At
<1>5. Forward' <=> Forward
  BY <1>1, <1>2 DEF Forward, Turned, SlippedBack, At
<1>6. GoingBack' <=> GoingBack
  BY <1>1 DEF GoingBack, At
<1>7. Backward' <=> Backward
  BY <1>1, <1>2 DEF Backward, Reachable, Passed, Valid, At
<1>8. CursorInv'
  BY <1>1, <1>2, <1>3, <1>4, <1>5, <1>6, <1>7 DEF CursorInv
<1>9. Slipped' = Slipped
  BY <1>1, <1>2 DEF Slipped
<1> QED
  BY <1>1, <1>2, <1>3, <1>8, <1>9 DEF Cursor!vars

LEMMA StartForwardCursor ==
  ASSUME MergeInv, UNCHANGED <<data, sequence_>>, StartForward,
         pc \in {"first", "seek"}, call.op = pc,
         NEW m, merge' = m,
         \A k \in Wanted : \A e \in Newest(k) : Valid(m) /\ ~Before(e, At(m)),
         Valid(m) => \A e \in Entries :
           Visible(e) /\ e.key = At(m).key => ~Before(e, At(m)),
         Valid(m) /\ call.op = "seek" => At(m).key >= call.arg
  PROVE  CursorInv' /\ (Cursor!Return \/ UNCHANGED Cursor!vars)
<1>1. TypeOK /\ DataInv /\ ControlInv
  BY DEF MergeInv
<1>2. /\ Entries' = Entries /\ View' = View /\ Newer' = Newer
      /\ \A k : Newest(k)' = Newest(k)
      /\ \A e : Visible(e)' <=> Visible(e)
      /\ UNCHANGED <<call, from>> => Wanted' = Wanted
  BY Frame
<1>3. direction_' = "forward" /\ skipping' = FALSE
  BY DEF StartForward
<1>4. CASE Valid(m)
  <2>1. pc' = "next_entry" /\ UNCHANGED <<valid_, call, from>>
    BY <1>4 DEF StartForward
  <2>2. At(merge)' = At(m)
    BY DEF At
  <2>3. Forward'
    BY <1>2, <1>3, <1>4, <2>1, <2>2 DEF Forward
  <2>4. CursorInv'
    BY <1>3, <2>1, <2>3 DEF CursorInv
  <2>5. Slipped' = Slipped
    BY <2>1, NoSlip, NoSlipNext
  <2> QED
    BY <1>2, <2>1, <2>4, <2>5, GoesOn
<1>5. CASE ~Valid(m)
  <2>1. valid_' = FALSE /\ Return
    BY <1>5 DEF StartForward
  <2>2. Wanted = {}
    <3> SUFFICES ASSUME NEW k \in Wanted PROVE FALSE
      OBVIOUS
    <3>1. PICK e \in Newest(k) : TRUE
      BY <1>1, WantedIs
    <3> QED
      BY <1>5, <3>1
  <2>3. Running /\ ~Slipped
    BY <1>1, NoSlip DEF Running, ControlInv, ForwardOp
  <2> QED
    BY <1>1, <1>2, <1>3, <2>1, <2>2, <2>3, ReturnsNothing, RestsForward
<1> QED
  BY <1>4, <1>5

LEMMA SeekToFirstCursor ==
  ASSUME MergeInv, CursorInv, SeekToFirst
  PROVE  CursorInv' /\ (Cursor!Return \/ UNCHANGED Cursor!vars)
<1>1. TypeOK /\ DataInv /\ pc = "first" /\ call.op = pc
  BY DEF MergeInv, SeekToFirst, CursorInv
<1> DEFINE m == MergeFirst
<1>2. merge' = m /\ UNCHANGED <<data, sequence_>> /\ StartForward
  BY DEF SeekToFirst
<1>3. \A e \in Entries : Valid(m) /\ ~Before(e, At(m))
  BY <1>1, MergeFirstIs
<1> HIDE DEF m
<1>4. \A k \in Wanted : \A e \in Newest(k) : Valid(m) /\ ~Before(e, At(m))
  BY <1>1, <1>3, NewestIs
<1> QED
  BY <1>1, <1>2, <1>3, <1>4, StartForwardCursor

LEMMA SeekCursor ==
  ASSUME MergeInv, CursorInv, Seek
  PROVE  CursorInv' /\ (Cursor!Return \/ UNCHANGED Cursor!vars)
<1>1. TypeOK /\ DataInv /\ pc = "seek" /\ call.op = pc /\ call.arg \in Keys
  BY DEF MergeInv, Seek, CursorInv, ControlInv
<1> DEFINE m == MergeSeek(SeekTarget(call.arg))
<1>2. merge' = m /\ UNCHANGED <<data, sequence_>> /\ StartForward
  BY DEF Seek
<1>3. /\ MergeType(m) /\ InPlace(m)
      /\ Valid(m) => At(m).key >= call.arg
      /\ \A e \in Entries : e.key > call.arg \/ (e.key = call.arg /\ Visible(e)) =>
           Valid(m) /\ ~Before(e, At(m))
  BY <1>1, MergeSeekIs
<1> HIDE DEF m
<1>4. call.arg \in Nat /\ \A e \in Entries : e.key \in Nat
  <2>1. Entries \subseteq Entry
    BY <1>1, EntriesAre
  <2> QED
    BY <1>1, <2>1, EntryIs, IteratorAssumption
<1>5. \A e \in Entries : e.key >= call.arg /\ Visible(e) => Valid(m) /\ ~Before(e, At(m))
  BY <1>3, <1>4
<1>6. \A k \in Wanted : k >= call.arg
  BY <1>1 DEF Wanted
<1>7. \A k \in Wanted : \A e \in Newest(k) : Valid(m) /\ ~Before(e, At(m))
  BY <1>1, <1>5, <1>6, NewestIs
<1> QED
  BY <1>1, <1>2, <1>3, <1>5, <1>7, StartForwardCursor

\* What a valid iterator shows.
LEMMA ShownIs ==
  ASSUME MergeInv, valid_, pc \in {"idle", "next", "prev"}
  PROVE  \E r \in Shown :
           /\ Shown = {r} /\ r.key \in Keys /\ r.key \in Nat
           /\ direction_ = "forward" => Valid(merge) /\ r.key = At(merge).key
           /\ direction_ = "reverse" => r.key = saved_key_
<1>1. TypeOK /\ DataInv /\ InPlace(merge) /\ ControlInv
  BY DEF MergeInv
<1>2. CASE direction_ = "forward"
  <2> DEFINE r == [key |-> At(merge).key, value |-> At(merge).seq]
  <2>1. Shown = {r} /\ r.key = At(merge).key
    BY <1>2 DEF Shown
  <2>2. Valid(merge)
    BY <1>1, <1>2 DEF ControlInv
  <2>3. At(merge).key \in Keys /\ At(merge).key \in Nat
    BY <1>1, <2>2, KeyAt, EntryIs DEF TypeOK, MergeType
  <2> QED
    BY <1>2, <2>1, <2>2, <2>3
<1>3. CASE direction_ = "reverse"
  <2> DEFINE r == [key |-> saved_key_, value |-> saved_value_]
  <2>1. Shown = {r} /\ r.key = saved_key_
    BY <1>3 DEF Shown
  <2>2. saved_key_ \in Keys /\ saved_key_ \in Nat
    BY <1>1, <1>3, IteratorAssumption DEF ControlInv
  <2> QED
    BY <1>3, <2>1, <2>2
<1> QED
  BY <1>1, <1>2, <1>3 DEF TypeOK

\* Next() of a backward iterator advances iter_ into the entries of the key shown, or to
\* one newer than the snapshot that was inserted before them.
LEMMA NextTurns ==
  ASSUME MergeInv, CursorInv, pc = "next", direction_ = "reverse",
         NEW m, m = MergeForward
  PROVE  /\ Valid(m) /\ At(m).key <= saved_key_
         /\ At(m).key < saved_key_ => ~Visible(At(m))
         /\ \A e \in Entries : Visible(e) /\ ~Before(e, At(m)) => e.key >= saved_key_
         /\ \A e \in Newest(saved_key_) : ~Before(e, At(m))
<1>1. TypeOK /\ DataInv /\ InPlace(merge) /\ valid_ /\ saved_key_ \in Keys
  BY DEF MergeInv, ControlInv
<1>2. Standing
  BY <1>1 DEF CursorInv
<1>3. /\ \A e \in Entries : e \in Entry /\ e.key \in Nat
      /\ saved_key_ \in Nat
  BY <1>1, EntriesAre, EntryIs, IteratorAssumption
<1>4. PICK w \in Newest(saved_key_) : w \in Entries /\ w.key = saved_key_ /\ Visible(w)
  BY <1>1, <1>2, ViewDomain, NewestIs DEF Standing
<1>5. \A e \in Newest(saved_key_) : e = w
  BY <1>1, <1>4, NewestIs
<1>6. MergeType(m) /\ InPlace(m)
  BY MergeForwardIs
<1>7. Valid(m) /\ ~Before(w, At(m)) /\ \A e \in Entries :
        Visible(e) /\ ~Before(e, At(m)) => e.key >= saved_key_
  <2>1. CASE ~Valid(merge)
    <3>1. m = MergeFirst
      BY <2>1 DEF MergeForward
    <3>2. \A e \in Entries : Valid(m) /\ ~Before(e, At(m))
      BY <1>1, <3>1, MergeFirstIs
    <3>3. \A e \in Entries : Visible(e) => ~(e.key < saved_key_)
      BY <1>2, <2>1 DEF Standing
    <3> QED
      BY <1>3, <1>4, <3>2, <3>3
  <2>2. CASE Valid(merge)
    <3>1. m = MergeNext(merge)
      BY <2>2 DEF MergeForward
    <3>2. /\ Valid(m) => Before(At(merge), At(m))
          /\ \A e \in Entries : Visible(e) /\ Before(At(merge), e) =>
               Valid(m) /\ ~Before(e, At(m))
      BY <1>1, <2>2, <3>1, MergeNextIs
    <3>3. At(merge) \in Entries /\ At(merge).key < saved_key_
      BY <1>1, <1>2, <2>2, KeyAt DEF Standing, TypeOK, MergeType
    <3>4. Before(At(merge), w)
      BY <1>3, <1>4, <3>3, BeforeOrder
    <3>5. Valid(m) /\ ~Before(w, At(m)) /\ Before(At(merge), At(m)) /\ At(m) \in Entries
      BY <1>1, <1>4, <1>6, <3>2, <3>4, KeyAt
    <3>6. ASSUME NEW e \in Entries, Visible(e), ~Before(e, At(m)), e.key < saved_key_
          PROVE  FALSE
      <4>1. ~Before(At(merge), e)
        BY <1>2, <3>6 DEF Standing
      <4> QED
        BY <1>3, <3>3, <3>5, <3>6, <4>1, BeforeOrder
    <3> QED
      BY <1>3, <3>5, <3>6
  <2> QED
    BY <2>1, <2>2
<1>8. At(m) \in Entries /\ At(m).key \in Nat
  BY <1>1, <1>3, <1>6, <1>7, KeyAt
<1>9. At(m).key <= saved_key_
  BY <1>3, <1>4, <1>7, <1>8, BeforeOrder
<1>10. ASSUME At(m).key < saved_key_, Visible(At(m)) PROVE FALSE
  <2>1. ~Before(At(m), At(m))
    BY <1>3, <1>8, BeforeOrder
  <2> QED
    BY <1>3, <1>7, <1>8, <1>10, <2>1
<1> QED
  BY <1>5, <1>7, <1>9, <1>10

LEMMA NextCallCursor ==
  ASSUME MergeInv, CursorInv, NextCall
  PROVE  CursorInv' /\ (Cursor!Slip \/ UNCHANGED Cursor!vars)
<1>1. TypeOK /\ DataInv /\ ControlInv /\ pc = "next" /\ call.op = "next" /\ valid_ /\ from = Shown
  BY DEF MergeInv, ControlInv, NextCall, CursorInv
<1>2. PICK r \in Shown :
        /\ Shown = {r} /\ r.key \in Keys /\ r.key \in Nat
        /\ direction_ = "forward" => Valid(merge) /\ r.key = At(merge).key
        /\ direction_ = "reverse" => r.key = saved_key_
  BY <1>1, ShownIs
<1>0. PICK m : m = MergeForward
  OBVIOUS
<1>a. direction_ = "reverse" =>
        /\ Valid(m) /\ At(m).key <= r.key
        /\ At(m).key < r.key => ~Visible(At(m))
        /\ \A e \in Entries : Visible(e) /\ ~Before(e, At(m)) => e.key >= r.key
        /\ \A e \in Newest(r.key) : ~Before(e, At(m))
  BY <1>0, <1>1, <1>2, NextTurns
<1>3. Valid(m) /\ At(m).key <= r.key /\ (direction_ = "forward" => At(m).key = r.key)
  <2>1. CASE direction_ = "forward"
    BY <1>0, <1>2, <2>1 DEF MergeForward
  <2>2. CASE direction_ = "reverse"
    BY <1>a, <2>2
  <2> QED
    BY <1>1, <2>1, <2>2 DEF TypeOK
<1>4. At(m) \in Entry /\ At(m) \in Entries /\ At(m).key \in Nat
  BY <1>0, <1>1, <1>3, MergeForwardIs, KeyAt, EntryIs
<1>5. /\ merge' = m /\ direction_' = "forward" /\ saved_key_' = At(m).key
      /\ skipping' = TRUE /\ pc' = "next_entry" /\ UNCHANGED <<data, sequence_, call, from>>
      /\ At(merge)' = At(m)
  BY <1>0, <1>3 DEF NextCall, At
<1>6. /\ Entries' = Entries /\ View' = View /\ Newer' = Newer
      /\ \A k : Newest(k)' = Newest(k)
      /\ \A e : Visible(e)' <=> Visible(e)
      /\ Wanted' = Wanted
  BY <1>5, Frame
<1>7. \A k \in Wanted : k > r.key /\ k \in Nat
  BY <1>1, <1>2, WantedIs DEF Wanted
<1>8. ASSUME NEW k \in Wanted, NEW e \in Newest(k) PROVE ~Before(e, At(m))
  <2>1. e \in Entry /\ e.key = k /\ k \in Nat /\ At(m).key < e.key
    BY <1>1, <1>2, <1>3, <1>4, <1>7, NewestIs
  <2> QED
    BY <1>4, <2>1, BeforeOrder
<1>9. r \in from /\ from = {r}
  BY <1>1, <1>2
<1>10. CASE At(m).key = r.key
  <2>1. Turned(r)'
    BY <1>2, <1>5, <1>10 DEF Turned
  <2>2. Forward'
    <3>1. \A k \in Wanted : /\ \A e \in Newest(k) : ~Before(e, At(m))
                            /\ k > At(m).key
      BY <1>7, <1>8, <1>10
    <3>2. \A e \in Entries : e.key = At(m).key => e.key <= At(m).key
      BY <1>4
    <3> QED
      BY <1>1, <1>2, <1>5, <1>6, <1>9, <2>1, <3>1, <3>2 DEF Forward
  <2>3. CursorInv'
    BY <1>1, <1>5, <2>2 DEF CursorInv
  <2>4. Slipped' = FALSE /\ Slipped = FALSE
    <3>1. ~(saved_key_' < r.key)
      BY <1>2, <1>4, <1>5, <1>10
    <3>2. Slipped' = FALSE
      BY <1>5, <1>9, <3>1 DEF Slipped
    <3> QED
      BY <1>1, <3>2, NoSlip
  <2> QED
    BY <1>1, <1>5, <1>6, <2>3, <2>4, GoesOn
<1>11. CASE At(m).key < r.key
  <2>1. direction_ = "reverse"
    BY <1>1, <1>2, <1>3, <1>4, <1>11 DEF TypeOK
  <2>2. At(m) \in Newer
    <3>1. At(m).seq \in Nat /\ sequence_ \in Nat
      BY <1>1, <1>4, EntryIs DEF TypeOK
    <3> QED
      BY <1>4, <1>11, <1>a, <2>1, <3>1 DEF Newer, Visible
  <2>3. r.key \in DOMAIN View /\ r = [key |-> r.key, value |-> View[r.key]]
    <3>1. Standing
      BY <1>1 DEF CursorInv
    <3>2. Shown = {[key |-> saved_key_, value |-> saved_value_]}
      BY <1>1, <2>1 DEF Shown
    <3>3. r = [key |-> saved_key_, value |-> saved_value_]
      BY <1>2, <3>2
    <3> QED
      BY <2>1, <3>1, <3>3 DEF Standing
  <2>4. SlippedBack(r)'
    BY <1>5, <1>6, <1>11, <1>a, <2>1, <2>2, <2>3 DEF SlippedBack
  <2>5. Forward'
    <3>1. \A k \in Wanted : /\ \A e \in Newest(k) : ~Before(e, At(m))
                            /\ k > At(m).key
      BY <1>2, <1>4, <1>7, <1>8, <1>11
    <3>2. \A e \in Entries : e.key = At(m).key => e.key <= At(m).key
      BY <1>4
    <3> QED
      BY <1>1, <1>2, <1>5, <1>6, <1>9, <2>4, <3>1, <3>2 DEF Forward
  <2>6. CursorInv'
    BY <1>1, <1>5, <2>5 DEF CursorInv
  <2>7. Slipped' = TRUE
    <3>1. Slipped'
      BY <1>1, <1>5, <1>6, <1>9, <1>11, <2>2 DEF Slipped
    <3> QED
      BY <3>1 DEF Slipped
  <2>8. Cursor!Slip
    BY <1>1, <1>5, <1>6, <2>7 DEF Cursor!Slip
  <2> QED
    BY <2>6, <2>8
<1> QED
  BY <1>2, <1>3, <1>4, <1>10, <1>11

\* FindNextUserEntry() shows the first key wanted.
LEMMA FoundNextCursor ==
  ASSUME MergeInv, CursorInv, FoundNext
  PROVE  CursorInv' /\ Cursor!Return
<1> DEFINE x == At(merge)
<1>1. /\ TypeOK /\ DataInv /\ ControlInv /\ pc = "next_entry" /\ direction_ = "forward"
      /\ Valid(merge) /\ InPlace(merge) /\ call.op \in ForwardOp /\ Forward
  BY DEF MergeInv, ControlInv, FoundNext, CursorInv, ForwardOp
<1>2. /\ Visible(x) /\ x.type = "value" /\ ~Hidden(x) /\ valid_' = TRUE /\ Return
      /\ UNCHANGED <<data, sequence_, merge, direction_>>
  BY DEF FoundNext
<1>3. x \in Entries /\ x \in Entry /\ x.key \in Nat /\ x.seq \in Nat /\ x.key \in Keys
  BY <1>1, KeyAt, EntryIs DEF TypeOK, MergeType
<1>4. View' = View /\ Newer' = Newer
  BY <1>2, Frame
<1>5. /\ \A k \in Wanted : /\ \A e \in Newest(k) : ~Before(e, x)
                           /\ skipping => k > saved_key_
      /\ \A e \in Entries : Visible(e) /\ Before(e, x) /\ e.key = x.key =>
           skipping /\ e.key <= saved_key_
      /\ call.op = "seek" => x.key >= call.arg
      /\ call.op = "next" =>
           skipping /\ \E r \in from :
             from = {r} /\ r.key \in Nat /\ (Turned(r) \/ SlippedBack(r))
  BY <1>1 DEF Forward
<1>a. \A r : Turned(r) <=> saved_key_ >= r.key /\ x.key >= r.key
  BY DEF Turned
<1>b. ASSUME NEW r, SlippedBack(r)
      PROVE  /\ saved_key_ < r.key /\ \E e \in Newer : e.key = saved_key_
             /\ r.key \in DOMAIN View /\ r = [key |-> r.key, value |-> View[r.key]]
             /\ \A e \in Entries : Visible(e) /\ ~Before(e, x) => e.key >= r.key
             /\ \A e \in Newest(r.key) : ~Before(e, x)
  BY <1>b DEF SlippedBack
<1>6. Shown' = {[key |-> x.key, value |-> x.seq]}
  <2>1. At(merge)' = x
    BY <1>2 DEF At
  <2> QED
    BY <1>1, <1>2, <2>1 DEF Shown
<1> HIDE DEF x
<1>7. saved_key_ \in Nat
  BY <1>1, SavedKeyIs
<1>8. x \in Newest(x.key)
  <2> SUFFICES ASSUME NEW f \in Entries, f.key = x.key, Visible(f)
               PROVE  f.seq <= x.seq
    BY <1>2, <1>3 DEF Newest
  <2>1. f.seq \in Nat /\ f.key \in Nat
    BY <1>1, EntriesAre, EntryIs
  <2>2. ~Before(f, x)
    BY <1>2, <1>5 DEF Hidden
  <2> QED
    BY <1>3, <2>1, <2>2 DEF Before
<1>9. x.key \in DOMAIN View /\ View[x.key] = x.seq
  BY <1>1, <1>2, <1>8, ViewIs
<1>c. Running
  BY <1>1, <1>5 DEF Running, ControlInv, ForwardOp
<1>d. CASE Slipped
  <2>1. call.op = "next"
    BY <1>d DEF Slipped
  <2>2. PICK r \in from :
          /\ from = {r} /\ r.key \in Nat /\ (Turned(r) \/ SlippedBack(r))
    BY <1>5, <2>1
  <2>3. SlippedBack(r)
    BY <1>1, <1>d, <2>1, <2>2, SlippedIs
  <2>4. x.key >= r.key /\ r.key \in DOMAIN View /\ r = [key |-> r.key, value |-> View[r.key]]
    <3>1. ~Before(x, x)
      BY <1>3, BeforeOrder
    <3> QED
      BY <1>2, <1>3, <1>b, <2>3, <3>1
  <2>5. PICK n \in Newest(r.key) : n \in Entry /\ n.key = r.key /\ ~Before(n, x)
    BY <1>1, <1>b, <2>3, <2>4, ViewDomain, NewestIs
  <2>6. x.key <= n.key
    BY <1>3, <2>5, BeforeOrder
  <2>7. x.key = r.key
    BY <1>3, <2>2, <2>4, <2>5, <2>6
  <2>8. Shown' = from
    BY <1>6, <1>9, <2>2, <2>4, <2>7
  <2>9. Cursor!Return
    BY <1>2, <1>4, <1>c, <1>d, <2>8, ReturnsSlipped
  <2> QED
    BY <1>1, <1>2, <2>9, RestsForward
<1>e. SUFFICES ASSUME ~Slipped PROVE CursorInv' /\ Cursor!Return
  BY <1>d
<1>10. x.key \in Wanted
  <2>1. CASE call.op = "first"
    BY <1>9, <2>1 DEF Wanted
  <2>2. CASE call.op = "seek"
    BY <1>5, <1>9, <2>2 DEF Wanted
  <2>3. CASE call.op = "next"
    <3>0. PICK r \in from : /\ from = {r} /\ r.key \in Nat /\ skipping
                            /\ Turned(r) \/ SlippedBack(r)
      BY <1>5, <2>3
    <3>1. r \in from /\ from = {r} /\ r.key \in Nat /\ saved_key_ >= r.key /\ skipping
      BY <1>1, <1>a, <1>e, <2>3, <3>0, SlippedIs
    <3>2. ~(x.key <= saved_key_)
      BY <1>2, <3>1 DEF Hidden
    <3>3. x.key > r.key
      BY <1>3, <1>7, <3>1, <3>2
    <3> QED
      BY <1>9, <2>3, <3>1, <3>3 DEF Wanted
  <2> QED
    BY <1>1, <2>1, <2>2, <2>3 DEF ForwardOp
<1>11. ASSUME NEW j \in Wanted PROVE x.key <= j
  <2>1. PICK e \in Newest(j) : e \in Entry /\ e.key = j
    BY <1>1, WantedIs
  <2>2. ~Before(e, x)
    BY <1>5
  <2> QED
    BY <1>3, <2>1, <2>2, BeforeOrder
<1>13. Cursor!Return
  BY <1>1, <1>2, <1>4, <1>6, <1>9, <1>10, <1>11, <1>c, <1>e, ReturnsKey
<1> QED
  BY <1>1, <1>2, <1>4, <1>13, RestsForward

\* An entry passed over is not one to show, and hides those that it hides.
LEMMA PassNextCursor ==
  ASSUME MergeInv, CursorInv, PassNext
  PROVE  CursorInv' /\ (Cursor!Return \/ UNCHANGED Cursor!vars)
<1> DEFINE x == At(merge)
           m == MergeNext(merge)
           y == At(m)
           deletion == Visible(x) /\ x.type = "deletion"
<1>1. /\ TypeOK /\ DataInv /\ ControlInv /\ pc = "next_entry" /\ direction_ = "forward"
      /\ Valid(merge) /\ InPlace(merge) /\ call.op \in ForwardOp /\ Forward
  BY DEF MergeInv, ControlInv, PassNext, CursorInv, ForwardOp
<1>2. /\ UNCHANGED <<data, sequence_, direction_>> /\ merge' = m
      /\ ~(Visible(x) /\ x.type = "value" /\ ~Hidden(x))
      /\ skipping' = (skipping \/ deletion)
      /\ IF Valid(m) THEN /\ saved_key_' = IF deletion THEN x.key ELSE saved_key_
                          /\ UNCHANGED <<valid_, pc, call, from>>
         ELSE EndForward
  BY DEF PassNext, NextAfter
<1>3. x \in Entries /\ x \in Entry /\ x.key \in Nat /\ x.seq \in Nat
  BY <1>1, KeyAt, EntryIs DEF TypeOK, MergeType
<1>4. /\ Entries' = Entries /\ View' = View /\ Newer' = Newer
      /\ \A k : Newest(k)' = Newest(k)
      /\ \A e : Visible(e)' <=> Visible(e)
      /\ UNCHANGED <<call, from>> => Wanted' = Wanted
  BY <1>2, Frame
<1>5. /\ \A k \in Wanted : /\ \A e \in Newest(k) : ~Before(e, x)
                           /\ skipping => k > saved_key_
      /\ \A e \in Entries : Visible(e) /\ Before(e, x) /\ e.key = x.key =>
           skipping /\ e.key <= saved_key_
      /\ call.op = "seek" => x.key >= call.arg
      /\ call.op = "next" =>
           skipping /\ \E r \in from :
             from = {r} /\ r.key \in Nat /\ (Turned(r) \/ SlippedBack(r))
  BY <1>1 DEF Forward
<1>a. \A r : Turned(r) <=> saved_key_ >= r.key /\ x.key >= r.key
  BY DEF Turned
<1>b. ASSUME NEW r, SlippedBack(r)
      PROVE  /\ saved_key_ < r.key /\ \E e \in Newer : e.key = saved_key_
             /\ r.key \in DOMAIN View /\ r = [key |-> r.key, value |-> View[r.key]]
             /\ \A e \in Entries : Visible(e) /\ ~Before(e, x) => e.key >= r.key
             /\ \A e \in Newest(r.key) : ~Before(e, x)
  BY <1>b DEF SlippedBack
<1>6. /\ MergeType(m) /\ InPlace(m)
      /\ Valid(m) => Before(x, y)
      /\ \A e \in Entries : Visible(e) /\ Before(x, e) => Valid(m) /\ ~Before(e, y)
  BY <1>1, MergeNextIs
<1>7. At(merge)' = y /\ (Valid(m) => y \in Entries /\ y \in Entry /\ y.key \in Nat)
  <2>1. At(merge)' = y
    BY <1>2 DEF At
  <2> QED
    BY <1>1, <1>6, <2>1, KeyAt, EntryIs
<1> HIDE DEF x, m, y
<1>8. saved_key_ \in Nat
  BY <1>1, SavedKeyIs
<1>9. ASSUME NEW k \in Wanted, NEW e \in Newest(k)
      PROVE  /\ Valid(m) /\ ~Before(e, y)
             /\ deletion => k > x.key
  <2>1. PICK g \in Newest(k) : g.type = "value"
    BY <1>1, WantedIs
  <2>2. /\ e \in Entries /\ e \in Entry /\ e.key = k /\ Visible(e) /\ k \in Nat
        /\ e.type = "value" /\ e.seq \in Nat
        /\ \A f \in Entries : f.key = k /\ Visible(f) => f.seq <= e.seq
    BY <1>1, <2>1, NewestIs
  <2>3. ~Before(e, x) /\ (skipping => k > saved_key_)
    BY <1>5
  <2>4. e # x
    <3> SUFFICES ASSUME e = x PROVE FALSE
      OBVIOUS
    <3>1. Hidden(x)
      BY <1>2, <2>2
    <3> QED
      BY <1>8, <2>2, <2>3, <3>1 DEF Hidden
  <2>5. Before(x, e)
    <3>1. e.seq = x.seq => e = x
      BY <1>1, <1>3, <2>2 DEF DataInv
    <3> QED
      BY <1>3, <2>2, <2>3, <2>4, <3>1, BeforeOrder
  <2>6. deletion => k > x.key
    <3> SUFFICES ASSUME Visible(x) PROVE k > x.key
      OBVIOUS
    <3>1. ~(x.key = k /\ x.seq > e.seq)
      BY <1>3, <2>2
    <3> QED
      BY <1>3, <2>2, <2>5, <3>1 DEF Before
  <2> QED
    BY <1>6, <2>2, <2>5, <2>6
<1>c. ASSUME NEW r, SlippedBack(r), r.key \in Nat
      PROVE  ~Visible(x) /\ Valid(m) /\ \A e \in Newest(r.key) : ~Before(e, y)
  <2>1. r.key \in DOMAIN View
    BY <1>b, <1>c
  <2>2. PICK n \in Newest(r.key) : n.type = "value"
    BY <2>1, ViewDomain
  <2>3. /\ n \in Entries /\ n \in Entry /\ n.key = r.key /\ Visible(n) /\ n.seq \in Nat
        /\ \A f \in Entries : f.key = r.key /\ Visible(f) => f.seq <= n.seq
        /\ \A f \in Newest(r.key) : f = n
    BY <1>1, <2>2, NewestIs
  <2>4. ~Before(n, x) /\ saved_key_ < r.key
    BY <1>b, <1>c, <2>2
  <2>5. x.key <= r.key
    BY <1>3, <2>3, <2>4, BeforeOrder
  <2>6. ~Visible(x)
    <3> SUFFICES ASSUME Visible(x) PROVE FALSE
      OBVIOUS
    <3>1. ~Before(x, x)
      BY <1>3, BeforeOrder
    <3>2. x.key >= r.key
      BY <1>3, <1>b, <1>c, <3>1
    <3>3. x.key = r.key
      BY <1>3, <1>c, <2>5, <3>2
    <3>4. x.seq <= n.seq /\ ~(n.seq > x.seq)
      BY <1>3, <2>3, <2>4, <3>3 DEF Before
    <3>5. x = n
      BY <1>1, <1>3, <2>3, <3>4 DEF DataInv
    <3>6. Hidden(x)
      BY <1>2, <2>2, <3>5
    <3> QED
      BY <1>8, <1>c, <2>4, <3>3, <3>6 DEF Hidden
  <2>7. Before(x, n)
    <3>1. n.seq = x.seq => n = x
      BY <1>1, <1>3, <2>3 DEF DataInv
    <3> QED
      BY <1>3, <2>3, <2>4, <2>6, <3>1, BeforeOrder
  <2> QED
    BY <1>6, <2>3, <2>6, <2>7
<1>10. CASE Valid(m)
  <2>1. /\ saved_key_' = IF deletion THEN x.key ELSE saved_key_
        /\ UNCHANGED <<valid_, pc, call, from>>
    BY <1>2, <1>10
  <2>2. ASSUME NEW k \in Wanted PROVE skipping' => k > saved_key_'
    <3>1. PICK e \in Newest(k) : TRUE
      BY <1>1, WantedIs
    <3> QED
      BY <1>2, <1>5, <1>9, <2>1, <3>1
  <2>3. ASSUME NEW e \in Entries, Visible(e), Before(e, y), e.key = y.key
        PROVE  skipping' /\ e.key <= saved_key_'
    <3>1. ~Before(x, e) /\ Before(x, y) /\ e \in Entry /\ e.key \in Nat
      BY <1>1, <1>6, <1>10, <2>3, EntriesAre, EntryIs
    <3>2. x.key = e.key
      <4>1. x.key <= y.key
        BY <1>3, <1>7, <1>10, <3>1, BeforeOrder
      <4>2. e.key <= x.key
        BY <1>3, <3>1, BeforeOrder
      <4> QED
        BY <1>3, <2>3, <3>1, <4>1, <4>2
    <3>3. CASE e = x
      <4>1. CASE deletion
        <5>1. skipping' /\ saved_key_' = x.key
          BY <1>2, <2>1, <4>1
        <5>2. x.key <= x.key
          BY <1>3
        <5> QED
          BY <3>3, <5>1, <5>2
      <4>2. CASE ~deletion
        <5>1. x.type = "value"
          BY <1>3, <2>3, <3>3, <4>2, EntryIs
        <5>2. Hidden(x)
          BY <1>2, <2>3, <3>3, <5>1
        <5> QED
          BY <1>2, <2>1, <3>3, <4>2, <5>2 DEF Hidden
      <4> QED
        BY <4>1, <4>2
    <3>4. CASE e # x
      <4>1. e.seq = x.seq => e = x
        BY <1>1, <1>3 DEF DataInv
      <4>2. Before(e, x)
        BY <1>3, <3>1, <3>4, <4>1, BeforeOrder
      <4>3. skipping /\ e.key <= saved_key_
        BY <1>5, <2>3, <3>2, <4>2
      <4>4. e.key <= x.key
        BY <3>1, <3>2
      <4> QED
        BY <1>2, <2>1, <4>3, <4>4
    <3> QED
      BY <3>3, <3>4
  <2>4. x.key <= y.key
    BY <1>3, <1>6, <1>7, <1>10, BeforeOrder
  <2>5. call.op = "seek" => y.key >= call.arg
    <3>1. call.op = "seek" => call.arg \in Nat
      BY <1>1, IteratorAssumption DEF ControlInv
    <3> QED
      BY <1>3, <1>5, <1>7, <1>10, <2>4, <3>1
  <2>6. ASSUME call.op = "next"
        PROVE  /\ skipping' /\ \E r \in from :
                    from = {r} /\ r.key \in Nat /\ (Turned(r)' \/ SlippedBack(r)')
               /\ Slipped' = Slipped
    <3>1. PICK r \in from : /\ from = {r} /\ r.key \in Nat /\ skipping
                            /\ Turned(r) \/ SlippedBack(r)
      BY <1>5, <2>6
    <3>2. CASE Turned(r)
      <4>1. saved_key_ >= r.key /\ x.key >= r.key
        BY <1>a, <3>2
      <4>2. saved_key_' >= r.key
        BY <2>1, <4>1
      <4>3. y.key >= r.key
        BY <1>3, <1>7, <1>10, <2>4, <3>1, <4>1
      <4>4. Turned(r)'
        BY <1>7, <4>2, <4>3 DEF Turned
      <4>5. Slipped = FALSE
        BY <1>1, <2>6, <3>1, <3>2, SlippedIs
      <4>6. ~(saved_key_' < r.key)
        BY <1>3, <1>8, <2>1, <3>1, <4>2
      <4>7. Slipped' = FALSE
        BY <2>1, <3>1, <4>6 DEF Slipped
      <4> QED
        BY <1>2, <3>1, <4>4, <4>5, <4>7
    <3>3. CASE SlippedBack(r)
      <4>1. ~Visible(x) /\ \A e \in Newest(r.key) : ~Before(e, y)
        BY <1>c, <3>1, <3>3
      <4>2. saved_key_' = saved_key_
        BY <2>1, <4>1
      <4>3. ASSUME NEW e \in Entries, Visible(e), ~Before(e, y) PROVE e.key >= r.key
        <5>1. ~Before(e, x)
          BY <1>1, <1>3, <1>6, <1>7, <1>10, <4>3, EntriesAre, BeforeOrder
        <5> QED
          BY <1>b, <3>3, <4>3, <5>1
      <4>4. SlippedBack(r)'
        BY <1>4, <1>7, <1>b, <3>3, <4>1, <4>2, <4>3 DEF SlippedBack
      <4>5. Slipped' = Slipped
        BY <1>4, <2>1, <4>2 DEF Slipped
      <4> QED
        BY <1>2, <3>1, <4>4, <4>5
    <3> QED
      BY <3>1, <3>2, <3>3
  <2>7. Forward'
    <3>1. \A k \in Wanted : /\ \A e \in Newest(k) : ~Before(e, y)
                            /\ skipping' => k > saved_key_'
      BY <1>9, <2>2
    <3> QED
      BY <1>4, <1>7, <2>1, <2>3, <2>5, <2>6, <3>1 DEF Forward
  <2>8. CursorInv'
    BY <1>1, <1>2, <2>1, <2>7 DEF CursorInv, ForwardOp
  <2>9. Slipped' = Slipped
    BY <2>1, <2>6, NoSlip, NoSlipNext
  <2> QED
    BY <1>1, <1>4, <2>1, <2>8, <2>9, GoesOn
<1>11. CASE ~Valid(m)
  <2>1. valid_' = FALSE /\ Return
    BY <1>2, <1>11 DEF EndForward
  <2>2. Wanted = {}
    <3> SUFFICES ASSUME NEW k \in Wanted PROVE FALSE
      OBVIOUS
    <3>1. PICK e \in Newest(k) : TRUE
      BY <1>1, WantedIs
    <3> QED
      BY <1>9, <1>11, <3>1
  <2>3. Running
    BY <1>1, <1>5 DEF Running, ControlInv, ForwardOp
  <2>4. ~Slipped
    <3>1. CASE call.op = "next"
      <4>1. PICK r \in from : from = {r} /\ r.key \in Nat /\ (Turned(r) \/ SlippedBack(r))
        BY <1>5, <3>1
      <4> QED
        BY <1>1, <1>11, <1>c, <3>1, <4>1, SlippedIs
    <3>2. CASE call.op # "next"
      BY <3>2, NoSlip
    <3> QED
      BY <3>1, <3>2
  <2> QED
    BY <1>1, <1>2, <1>4, <2>1, <2>2, <2>3, <2>4, ReturnsNothing, RestsForward
<1> QED
  BY <1>10, <1>11

-----------------------------------------------------------------------------

\* FindPrevUserEntry() begins when nothing wanted is passed.
LEMMA StartReverseCursor ==
  ASSUME MergeInv, UNCHANGED <<data, sequence_, call, from>>, StartReverse, pc # "idle",
         call.op \in ReverseOp,
         call.op = "prev" => \E r \in from : from = {r} /\ r.key \in Nat,
         NEW m, merge' = m, Valid(m) => Reachable(At(m)),
         \A k \in Wanted : \A e \in Newest(k) : Valid(m) /\ ~Before(At(m), e)
  PROVE  CursorInv' /\ UNCHANGED Cursor!vars
<1>1. direction_' = "reverse" /\ value_type' = "deletion" /\ pc' = "prev_entry"
  BY DEF StartReverse
<1>2. /\ Entries' = Entries /\ View' = View /\ Newer' = Newer
      /\ \A k : Newest(k)' = Newest(k)
      /\ Wanted' = Wanted
  BY Frame
<1>3. At(merge)' = At(m) /\ (Valid(merge)' <=> Valid(m))
  BY DEF At, Valid
<1>4. Backward'
  BY <1>1, <1>2, <1>3 DEF Backward, Reachable, Passed
<1>5. CursorInv'
  BY <1>1, <1>2, <1>4 DEF CursorInv, ReverseOp
<1>6. Slipped' = Slipped
  BY <1>1, NoSlip, NoSlipNext DEF ReverseOp
<1> QED
  BY <1>1, <1>2, <1>5, <1>6, GoesOn

LEMMA SeekToLastCursor ==
  ASSUME MergeInv, CursorInv, SeekToLast
  PROVE  CursorInv' /\ UNCHANGED Cursor!vars
<1>1. TypeOK /\ DataInv /\ pc = "last" /\ call.op = "last"
  BY DEF MergeInv, SeekToLast, CursorInv
<1> DEFINE m == MergeLast
<1>2. merge' = m /\ UNCHANGED <<data, sequence_, call, from>> /\ StartReverse
  BY DEF SeekToLast
<1>3. \A e \in Entries : Valid(m) /\ ~Before(At(m), e)
  BY <1>1, MergeLastIs
<1> HIDE DEF m
<1>4. \A k \in Wanted : \A e \in Newest(k) : Valid(m) /\ ~Before(At(m), e)
  BY <1>1, <1>3, NewestIs
<1>5. Reachable(At(m))
  BY <1>1 DEF Reachable
<1> QED
  BY <1>1, <1>2, <1>4, <1>5, StartReverseCursor DEF ReverseOp

LEMMA PrevCallCursor ==
  ASSUME MergeInv, CursorInv, PrevCall
  PROVE  CursorInv' /\ UNCHANGED Cursor!vars
<1>1. /\ TypeOK /\ DataInv /\ pc = "prev" /\ call.op = "prev" /\ valid_
      /\ from = Shown /\ Standing
  BY DEF MergeInv, ControlInv, PrevCall, CursorInv
<1>2. PICK r \in Shown :
        /\ Shown = {r} /\ r.key \in Keys /\ r.key \in Nat
        /\ direction_ = "forward" => Valid(merge) /\ r.key = At(merge).key
        /\ direction_ = "reverse" => r.key = saved_key_
  BY <1>1, ShownIs
<1>3. UNCHANGED <<data, sequence_, merge, call, from>>
  BY DEF PrevCall
<1>4. CASE direction_ = "forward"
  <2>1. /\ saved_key_' = r.key /\ pc' = "back" /\ direction_' = direction_
        /\ At(merge)' = At(merge)
    BY <1>2, <1>3, <1>4 DEF PrevCall, At
  <2>2. GoingBack'
    BY <1>1, <1>2, <1>3, <1>4, <2>1 DEF GoingBack
  <2>3. View' = View
    BY <1>1, <1>3, Frame
  <2>4. CursorInv'
    BY <1>1, <1>3, <2>1, <2>2, <2>3 DEF CursorInv
  <2>5. Slipped' = Slipped
    BY <1>1, <1>3, <2>1, NoSlip, NoSlipNext
  <2> QED
    BY <1>1, <1>3, <2>1, <2>3, <2>4, <2>5, GoesOn
<1>5. CASE direction_ = "reverse"
  <2>1. StartReverse
    BY <1>5 DEF PrevCall
  <2>2. /\ Valid(merge) => At(merge).key < r.key
        /\ \A e \in Entries : Visible(e) /\ e.key < r.key =>
             Valid(merge) /\ ~Before(At(merge), e)
    BY <1>1, <1>2, <1>5 DEF Standing
  <2>3. Valid(merge) => Reachable(At(merge))
    BY <1>1, <1>2, <2>2 DEF Reachable
  <2>4. \A k \in Wanted : k < r.key
    BY <1>1, <1>2 DEF Wanted
  <2>5. \A k \in Wanted : \A e \in Newest(k) : Valid(merge) /\ ~Before(At(merge), e)
    BY <1>1, <2>2, <2>4, NewestIs
  <2> QED
    BY <1>1, <1>2, <1>3, <2>1, <2>3, <2>5, StartReverseCursor DEF ReverseOp
<1> QED
  BY <1>1, <1>4, <1>5 DEF TypeOK

LEMMA BackCursor ==
  ASSUME MergeInv, CursorInv, Back
  PROVE  CursorInv' /\ (Cursor!Return \/ UNCHANGED Cursor!vars)
<1> DEFINE x == At(merge)
           m == MergePrev(merge)
           y == At(m)
<1>1. /\ TypeOK /\ DataInv /\ pc = "back" /\ call.op = "prev"
      /\ direction_ = "forward" /\ Valid(merge) /\ InPlace(merge) /\ GoingBack
  BY DEF MergeInv, ControlInv, Back, CursorInv
<1>2. /\ x.key >= saved_key_
      /\ \E r \in from : from = {r} /\ r.key = saved_key_
  BY <1>1 DEF GoingBack
<1>3. x \in Entries /\ x \in Entry /\ x.key \in Nat
  BY <1>1, KeyAt, EntryIs DEF TypeOK, MergeType
<1>4. merge' = m /\ UNCHANGED <<data, sequence_>>
  BY DEF Back
<1>5. \A e \in Entries : Visible(e) /\ Before(e, x) => Valid(m) /\ ~Before(y, e)
  BY <1>1, MergePrevIs
<1>6. At(merge)' = y /\ (Valid(merge)' <=> Valid(m))
  BY <1>4 DEF At, Valid
<1>7. /\ Entries' = Entries /\ View' = View /\ Newer' = Newer
      /\ \A k : Newest(k)' = Newest(k)
      /\ \A e : Visible(e)' <=> Visible(e)
  BY <1>4, Frame
<1>8. \/ /\ ~Valid(m) /\ valid_' = FALSE /\ Return
         /\ direction_' = direction_
      \/ /\ Valid(m) /\ y.key < saved_key_ /\ StartReverse /\ UNCHANGED <<call, from>>
      \/ /\ Valid(m) /\ y.key >= saved_key_ /\ UNCHANGED <<saved_key_, direction_, pc, call, from>>
  BY <1>4, <1>6 DEF Back, iterVars
<1> HIDE DEF x, m, y
<1>9. saved_key_ \in Nat
  BY <1>1, SavedKeyIs
<1>10. \A k \in Wanted : k < saved_key_
  BY <1>1, <1>2 DEF Wanted
<1>11. ASSUME NEW k \in Wanted, NEW e \in Newest(k) PROVE Valid(m) /\ ~Before(y, e)
  <2>1. e \in Entries /\ e \in Entry /\ Visible(e) /\ e.key = k /\ k \in Nat
    BY <1>1, NewestIs
  <2>2. e.key < x.key
    BY <1>2, <1>3, <1>9, <1>10, <2>1
  <2>3. Before(e, x)
    BY <1>3, <2>1, <2>2, BeforeOrder
  <2> QED
    BY <1>5, <2>1, <2>3
<1>12. CASE ~Valid(m) /\ valid_' = FALSE /\ Return /\ direction_' = direction_
  <2>1. Wanted = {}
    <3> SUFFICES ASSUME NEW k \in Wanted PROVE FALSE
      OBVIOUS
    <3>1. PICK e \in Newest(k) : TRUE
      BY <1>1, WantedIs
    <3> QED
      BY <1>11, <1>12, <3>1
  <2>2. Running /\ ~Slipped
    BY <1>1, <1>2, NoSlip DEF Running, ReverseOp
  <2> QED
    BY <1>1, <1>7, <1>12, <2>1, <2>2, ReturnsNothing, RestsForward
<1>13. CASE Valid(m) /\ y.key < saved_key_ /\ StartReverse /\ UNCHANGED <<call, from>>
  <2>1. Reachable(y)
    BY <1>2, <1>13 DEF Reachable
  <2> QED
    BY <1>1, <1>2, <1>4, <1>9, <1>11, <1>13, <2>1, StartReverseCursor DEF ReverseOp, y
<1>14. CASE Valid(m) /\ y.key >= saved_key_ /\ UNCHANGED <<saved_key_, direction_, pc, call, from>>
  <2>1. GoingBack'
    BY <1>2, <1>6, <1>14 DEF GoingBack
  <2>2. CursorInv'
    BY <1>1, <1>7, <1>14, <2>1 DEF CursorInv
  <2>3. Slipped' = Slipped
    BY <1>1, <1>14, NoSlip, NoSlipNext
  <2> QED
    BY <1>1, <1>7, <1>14, <2>2, <2>3, GoesOn
<1> QED
  BY <1>8, <1>12, <1>13, <1>14

LEMMA TakePrevCursor ==
  ASSUME MergeInv, CursorInv, TakePrev
  PROVE  CursorInv' /\ UNCHANGED Cursor!vars
<1>0. PICK x : x = At(merge)
  OBVIOUS
<1> DEFINE m == MergePrev(merge)
           y == At(m)
<1>1. /\ TypeOK /\ DataInv /\ pc = "prev_entry" /\ direction_ = "reverse"
      /\ Valid(merge) /\ InPlace(merge) /\ call.op \in ReverseOp /\ Backward
  BY DEF MergeInv, ControlInv, TakePrev, CursorInv, ReverseOp
<1>a. CASE ~Visible(x)
  <2>1. UNCHANGED vars
    BY <1>0, <1>a DEF TakePrev, vars, iterVars
  <2> QED
    BY <2>1, StutterCursor
<1>b. SUFFICES ASSUME Visible(x) PROVE CursorInv' /\ UNCHANGED Cursor!vars
  BY <1>a
<1>2. \A e \in Entries : e \in Entry /\ e.key \in Nat /\ e.seq \in Nat
  BY <1>1, EntriesAre, EntryIs
<1>3. x \in Entries /\ x \in Entry /\ x.key \in Nat /\ x.seq \in Nat
  BY <1>0, <1>1, KeyAt, EntryIs DEF TypeOK, MergeType
<1>4. /\ merge' = m /\ ~FoundPrev
      /\ UNCHANGED <<data, sequence_, direction_, pc, call, from>>
      /\ value_type' = x.type
      /\ x.type = "value" => saved_key_' = x.key /\ saved_value_' = x.seq
  BY <1>0, <1>b DEF TakePrev
<1>5. ~(value_type = "value" /\ x.key < saved_key_)
  BY <1>0, <1>b, <1>4 DEF FoundPrev
<1>6. /\ MergeType(m) /\ InPlace(m)
      /\ Valid(m) => Before(y, x)
      /\ \A e \in Entries : Visible(e) /\ Before(e, x) => Valid(m) /\ ~Before(y, e)
  BY <1>0, <1>1, MergePrevIs
<1>7. At(merge)' = y /\ (Valid(merge)' <=> Valid(m)) /\ (Valid(m) => y \in Entries)
  BY <1>1, <1>4, <1>6, KeyAt DEF At, Valid
<1>8. /\ Entries' = Entries /\ View' = View /\ Newer' = Newer
      /\ \A k : Newest(k)' = Newest(k)
      /\ \A e : Visible(e)' <=> Visible(e)
      /\ Wanted' = Wanted
  BY <1>4, Frame
<1>9. /\ Reachable(x)
      /\ call.op = "prev" => \E r \in from : from = {r} /\ r.key \in Nat
      /\ \A k \in Wanted : \A e \in Newest(k) : Before(x, e) =>
           value_type = "value" /\ saved_key_ = k /\ saved_value_ = e.seq
  BY <1>0, <1>1 DEF Backward, Passed
<1> HIDE DEF m, y
<1>10. \A e : Reachable(e)' <=> Reachable(e)
  BY <1>4 DEF Reachable
<1>11. \A e \in Entries : Visible(e) /\ Passed(e)' => e = x \/ Before(x, e)
  <2> SUFFICES ASSUME NEW e \in Entries, Visible(e), Passed(e)', e # x PROVE Before(x, e)
    OBVIOUS
  <2>1. Valid(m) => Before(y, e)
    BY <1>7 DEF Passed
  <2>2. ~Before(e, x)
    BY <1>2, <1>6, <2>1
  <2>3. e.seq = x.seq => e = x
    BY <1>1, <1>3 DEF DataInv
  <2> QED
    BY <1>2, <1>3, <2>2, <2>3, BeforeOrder
<1>12. Passed(x)'
  BY <1>6, <1>7 DEF Passed
<1>13. (Valid(merge) => Reachable(At(merge)))'
  <2> SUFFICES ASSUME Valid(m) PROVE Reachable(y)
    BY <1>7, <1>10
  <2>1. y \in Entry /\ y.key \in Nat
    BY <1>2, <1>7
  <2>2. y.key <= x.key
    BY <1>3, <1>6, <2>1, BeforeOrder
  <2> SUFFICES ASSUME call.op = "prev", NEW r \in from PROVE y.key < r.key
    BY DEF Reachable
  <2>3. x.key < r.key
    BY <1>9 DEF Reachable
  <2>4. r.key \in Nat
    BY <1>9
  <2> QED
    BY <1>3, <2>1, <2>2, <2>3, <2>4
<1>14. ASSUME NEW k \in Wanted, NEW e \in Newest(k), Passed(e)'
       PROVE  value_type' = "value" /\ saved_key_' = k /\ saved_value_' = e.seq
  <2>1. PICK g \in Newest(k) : g.type = "value"
    BY <1>1, WantedIs
  <2>2. /\ e \in Entries /\ e.key = k /\ k \in Nat /\ e.type = "value" /\ e.seq \in Nat
        /\ Visible(e)
        /\ \A f \in Entries : f.key = k /\ Visible(f) => f.seq <= e.seq
    BY <1>1, <2>1, NewestIs
  <2>3. CASE e = x
    BY <1>4, <2>2, <2>3
  <2>4. CASE Before(x, e)
    <3>1. value_type = "value" /\ saved_key_ = k
      BY <1>9, <2>4
    <3>2. x.key = k /\ x.seq > e.seq
      BY <1>3, <1>5, <2>2, <2>4, <3>1 DEF Before
    <3>3. x.seq <= e.seq
      BY <1>b, <1>3, <2>2, <3>2
    <3> QED
      BY <1>3, <2>2, <3>2, <3>3
  <2> QED
    BY <1>11, <1>14, <2>2, <2>3, <2>4
<1>15. ASSUME x.type = "value", NEW e \in Entries, Visible(e), Passed(e)'
       PROVE  e.key > saved_key_' \/ (e.key = saved_key_' /\ e.seq <= saved_value_')
  <2>1. saved_key_' = x.key /\ saved_value_' = x.seq
    BY <1>4, <1>15
  <2>2. e = x \/ Before(x, e)
    BY <1>11, <1>15
  <2>3. e.key > x.key \/ (e.key = x.key /\ e.seq <= x.seq)
    BY <1>2, <1>3, <2>2 DEF Before
  <2> QED
    BY <2>1, <2>3
<1>16. Backward'
  <2>1. (\A k \in Wanted : \A e \in Newest(k) : Passed(e) =>
          value_type = "value" /\ saved_key_ = k /\ saved_value_ = e.seq)'
    BY <1>8, <1>14
  <2>2. ASSUME value_type' = "value"
        PROVE  /\ (\E w \in Entries : /\ w.key = saved_key_ /\ w.seq = saved_value_ /\ Visible(w)
                                      /\ w.type = "value" /\ Reachable(w) /\ Passed(w))'
               /\ (\A e \in Entries : Visible(e) /\ Reachable(e) /\ Passed(e) =>
                     e.key > saved_key_ \/ (e.key = saved_key_ /\ e.seq <= saved_value_))'
    <3>1. x.type = "value" /\ saved_key_' = x.key /\ saved_value_' = x.seq
      BY <1>4, <2>2
    <3>2. (\E w \in Entries : /\ w.key = saved_key_ /\ w.seq = saved_value_ /\ Visible(w)
                              /\ w.type = "value" /\ Reachable(w) /\ Passed(w))'
      BY <1>b, <1>3, <1>8, <1>9, <1>10, <1>12, <3>1
    <3>3. (\A e \in Entries : Visible(e) /\ Reachable(e) /\ Passed(e) =>
             e.key > saved_key_ \/ (e.key = saved_key_ /\ e.seq <= saved_value_))'
      BY <1>8, <1>15, <3>1
    <3> QED
      BY <3>2, <3>3
  <2> QED
    BY <1>4, <1>9, <1>13, <2>1, <2>2 DEF Backward
<1>17. CursorInv'
  BY <1>1, <1>4, <1>8, <1>16 DEF CursorInv, ReverseOp
<1>18. Slipped' = Slipped
  BY <1>1, <1>4, NoSlip, NoSlipNext
<1> QED
  BY <1>1, <1>4, <1>8, <1>17, <1>18, GoesOn

\* FindPrevUserEntry() shows the last key wanted.
LEMMA EndPrevCursor ==
  ASSUME MergeInv, CursorInv, EndPrev
  PROVE  CursorInv' /\ Cursor!Return
<1> DEFINE x == At(merge)
<1>1. /\ TypeOK /\ DataInv /\ InPlace(merge) /\ pc = "prev_entry"
      /\ direction_ = "reverse" /\ call.op \in ReverseOp /\ Backward
  BY DEF MergeInv, ControlInv, EndPrev, CursorInv, ReverseOp
<1>2. /\ Return /\ UNCHANGED <<data, sequence_, merge>>
      /\ Valid(merge) => value_type = "value" /\ x.key < saved_key_
      /\ value_type = "deletion" => valid_' = FALSE /\ direction_' = "forward"
      /\ value_type = "value" =>
           valid_' = TRUE /\ UNCHANGED <<saved_key_, saved_value_, direction_>>
  BY DEF EndPrev, FoundPrev
<1>3. \A e \in Entries : e \in Entry /\ e.key \in Nat /\ e.seq \in Nat
  BY <1>1, EntriesAre, EntryIs
<1>4. Valid(merge) => x \in Entries
  BY <1>1, KeyAt DEF TypeOK, MergeType
<1>5. Entries' = Entries /\ View' = View /\ \A e : Visible(e)' <=> Visible(e)
  BY <1>2, Frame
<1>6. At(merge)' = x /\ (Valid(merge)' <=> Valid(merge))
  BY <1>2 DEF At, Valid
<1>7. /\ call.op = "prev" => \E r \in from : from = {r} /\ r.key \in Nat
      /\ \A k \in Wanted : \A e \in Newest(k) : Passed(e) =>
           value_type = "value" /\ saved_key_ = k /\ saved_value_ = e.seq
      /\ value_type = "value" =>
           /\ \E w \in Entries : /\ w.key = saved_key_ /\ w.seq = saved_value_ /\ Visible(w)
                                 /\ w.type = "value" /\ Reachable(w) /\ Passed(w)
           /\ \A e \in Entries : Visible(e) /\ Reachable(e) /\ Passed(e) =>
                e.key > saved_key_ \/ (e.key = saved_key_ /\ e.seq <= saved_value_)
  BY <1>1 DEF Backward
<1>8. \A e : Passed(e) <=> (Valid(merge) => Before(x, e))
  BY DEF Passed
<1> HIDE DEF x
<1>9. Running /\ ~Slipped
  BY <1>1, <1>7, NoSlip DEF Running, ReverseOp
<1>10. saved_key_ \in Nat
  BY <1>1, SavedKeyIs
<1>11. CASE value_type = "deletion"
  <2>1. ~Valid(merge) /\ valid_' = FALSE /\ direction_' = "forward"
    BY <1>2, <1>11
  <2>2. Wanted = {}
    <3> SUFFICES ASSUME NEW k \in Wanted PROVE FALSE
      OBVIOUS
    <3>1. PICK e \in Newest(k) : TRUE
      BY <1>1, WantedIs
    <3>2. Passed(e)
      BY <1>8, <2>1
    <3> QED
      BY <1>7, <1>11, <3>1, <3>2
  <2> QED
    BY <1>1, <1>2, <1>5, <1>9, <2>1, <2>2, ReturnsNothing, RestsForward
<1>12. CASE value_type = "value"
  <2>1. valid_' = TRUE /\ UNCHANGED <<saved_key_, saved_value_, direction_>>
    BY <1>2, <1>12
  <2>2. PICK w \in Entries : /\ w.key = saved_key_ /\ w.seq = saved_value_ /\ Visible(w)
                             /\ w.type = "value" /\ Reachable(w) /\ Passed(w)
    BY <1>7, <1>12
  <2>3. \A e \in Entries : Visible(e) /\ Reachable(e) /\ Passed(e) =>
          e.key > saved_key_ \/ (e.key = saved_key_ /\ e.seq <= saved_value_)
    BY <1>7, <1>12
  <2>4. w \in Newest(saved_key_)
    <3> SUFFICES ASSUME NEW f \in Entries, f.key = saved_key_, Visible(f)
                 PROVE  f.seq <= w.seq
      BY <2>2 DEF Newest
    <3>1. Reachable(f)
      BY <2>2 DEF Reachable
    <3>2. Passed(f)
      <4> SUFFICES ASSUME Valid(merge) PROVE Before(x, f)
        BY <1>8
      <4>1. x \in Entry /\ f \in Entry /\ x.key < f.key
        BY <1>2, <1>3, <1>4
      <4> QED
        BY <4>1, BeforeOrder
    <3> QED
      BY <1>10, <2>2, <2>3, <3>1, <3>2
  <2>5. saved_key_ \in DOMAIN View /\ View[saved_key_] = saved_value_
    BY <1>1, <2>2, <2>4, ViewIs
  <2>6. saved_key_ \in Wanted
    BY <1>1, <2>2, <2>5 DEF Wanted, Reachable, ReverseOp
  <2>7. ASSUME NEW j \in Wanted PROVE saved_key_ >= j
    <3>1. PICK e \in Newest(j) : e \in Entries /\ e \in Entry /\ e.key = j /\ j \in Nat
      BY <1>1, WantedIs
    <3>2. CASE Passed(e)
      BY <1>7, <1>10, <3>1, <3>2
    <3>3. CASE ~Passed(e)
      <4>1. Valid(merge) /\ ~Before(x, e)
        BY <1>8, <3>3
      <4>2. x \in Entry /\ x.key \in Nat /\ x.key < saved_key_
        BY <1>2, <1>3, <1>4, <4>1
      <4>3. e.key <= x.key
        BY <3>1, <4>1, <4>2, BeforeOrder
      <4> QED
        BY <1>10, <3>1, <4>2, <4>3
    <3> QED
      BY <3>2, <3>3
  <2>8. Shown' = {[key |-> saved_key_, value |-> View[saved_key_]]}
    BY <1>1, <2>1, <2>5 DEF Shown
  <2>9. Cursor!Return
    <3>1. \A j \in Wanted : IF call.op \in ForwardOp THEN saved_key_ <= j ELSE saved_key_ >= j
      BY <1>1, <2>7 DEF ForwardOp, ReverseOp
    <3> QED
      BY <1>1, <1>2, <1>5, <1>9, <2>6, <2>8, <3>1, ReturnsKey
  <2>10. Standing'
    <3>1. saved_key_ \in DOMAIN View /\ saved_value_ = View[saved_key_]
      BY <2>5
    <3>2. Valid(merge) => x.key < saved_key_
      BY <1>2
    <3>3. ASSUME NEW e \in Entries, Visible(e), e.key < saved_key_
          PROVE  Valid(merge) /\ ~Before(x, e)
      <4> SUFFICES ASSUME Passed(e) PROVE FALSE
        BY <1>8
      <4>1. Reachable(e)
        <5> SUFFICES ASSUME call.op = "prev", NEW r \in from PROVE e.key < r.key
          BY DEF Reachable
        <5>1. w.key < r.key
          BY <2>2 DEF Reachable
        <5>2. r.key \in Nat
          BY <1>7
        <5> QED
          BY <1>3, <1>10, <2>2, <3>3, <5>1, <5>2
      <4>2. e.key > saved_key_ \/ (e.key = saved_key_ /\ e.seq <= saved_value_)
        BY <2>3, <3>3, <4>1
      <4> QED
        BY <1>3, <1>10, <3>3, <4>2
    <3> QED
      BY <1>5, <1>6, <2>1, <3>1, <3>2, <3>3 DEF Standing
  <2>11. CursorInv'
    <3>1. pc' = "idle" /\ call' = Idle /\ from' = {}
      BY <1>2 DEF Return
    <3> QED
      BY <1>1, <1>5, <2>10, <3>1 DEF CursorInv
  <2> QED
    BY <2>9, <2>11
<1> QED
  BY <1>1, <1>11, <1>12 DEF TypeOK

-----------------------------------------------------------------------------

LEMMA CursorStep ==
  ASSUME MergeInv, CursorInv, [Next]_vars
  PROVE  CursorInv' /\ [Cursor!Next]_(Cursor!vars)
<1>1. CASE Insert
  BY <1>1, InsertCursor
<1>2. CASE Begin
  BY <1>2, BeginCursor DEF Cursor!Next
<1>3. CASE Step
  <2>1. CursorInv' /\ (Cursor!Slip \/ Cursor!Return \/ UNCHANGED Cursor!vars)
    BY <1>3, SeekToFirstCursor, SeekCursor, SeekToLastCursor, NextCallCursor,
       FoundNextCursor, PassNextCursor, PrevCallCursor, BackCursor, TakePrevCursor,
       EndPrevCursor DEF Step
  <2> QED
    BY <2>1 DEF Cursor!Next
<1>4. CASE UNCHANGED vars
  BY <1>4, StutterCursor
<1> QED
  BY <1>1, <1>2, <1>3, <1>4 DEF Next

\* DBIter implements SnapshotCursor (db_iter.cpp:10-14): each call shows the entry of the
\* snapshot that it is about, across changes of direction, deletions, overwritten entries and
\* writes that go on in the memtable, but for a Next() that slipped over an entry newer than
\* the snapshot, which shows the same entry once more; for any keys, any number of children
\* and of writes.  No entry of the snapshot is left out or shown with an older value.
THEOREM IteratorImplementsCursor == Spec => IteratesSnapshot
<1>1. Init => MergeInv /\ CursorInv /\ Cursor!Init
  BY InitMerge, InitCursor, InitView
<1>2. MergeInv /\ CursorInv /\ [Next]_vars => CursorInv' /\ [Cursor!Next]_(Cursor!vars)
  BY CursorStep
<1>3. Spec => []MergeInv
  BY MergeInvariant
<1> QED
  BY <1>1, <1>2, <1>3, PTL DEF Spec, IteratesSnapshot, Cursor!Spec
=============================================================================
