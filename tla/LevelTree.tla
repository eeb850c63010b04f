----------------------------- MODULE LevelTree ------------------------------
(***************************************************************************)
(* The tree of tables (db/version_set.cpp): where a flush puts its table   *)
(* (PickLevelForMemTableOutput), which tables a compaction reads           *)
(* (PickCompaction, SetupOtherInputs), what it keeps (DoCompactionWork,    *)
(* IsBaseLevelForKey), and what Get() then finds (Version::Get), with      *)
(* snapshots.                                                              *)
(*                                                                         *)
(* Flushes, writes and snapshots go on while a compaction runs; the        *)
(* background thread does one compaction at a time.                        *)
(*                                                                         *)
(* Data: a key is a number; an entry is [key, seq, type]; a table is the   *)
(* set of its entries.  Sizes in bytes are left out: a choice the code     *)
(* makes by size is open here.  Level-0 tables have numbers in the order   *)
(* of their flushes, which is the order of their sequence numbers.         *)
(***************************************************************************)
EXTENDS Integers, FiniteSets, FiniteSetsExt

CONSTANTS
  Keys,               \* the user keys
  NumLevels,          \* config::kNumLevels
  MaxMemCompactLevel, \* config::kMaxMemCompactLevel
  MaxWrites,          \* bound: the writes
  MaxDeletions,       \* bound: the writes that are deletions
  MaxSnapshots,       \* bound: the snapshots held at a time
  MaxOutputs          \* bound: the tables a compaction writes

ASSUME TreeAssumption ==
  /\ Keys \subseteq Nat /\ IsFiniteSet(Keys)
  /\ NumLevels \in Nat \ {0, 1}
  /\ MaxMemCompactLevel \in 0..(NumLevels - 1)
  /\ MaxWrites \in Nat /\ MaxDeletions \in Nat /\ MaxSnapshots \in Nat
  /\ MaxOutputs \in Nat \ {0}

Level == 0..(NumLevels - 1)
Type == {"value", "deletion"}
Entry == [key : Keys, seq : 1..MaxWrites, type : Type]

VARIABLES
  mem_,           \* the entries of the memtables, mem_ and imm_
  files_,         \* the tables of each level of the current version
  last_sequence_,
  snapshots_,     \* the sequence numbers of the snapshots held
  compaction,     \* the Compaction, with DoCompactionWork's smallest_snapshot
  history,        \* bookkeeping: every entry written
  split           \* bookkeeping: the user keys inside which an output ended

vars == <<mem_, files_, last_sequence_, snapshots_, compaction, history, split>>

NoCompaction == [on |-> FALSE, level |-> 0, inputs0 |-> {}, inputs1 |-> {},
                 grandparents |-> {}, base |-> [l \in Level |-> {}],
                 smallest_snapshot |-> 0]

Init ==
  /\ mem_ = {} /\ files_ = [l \in Level |-> {}]
  /\ last_sequence_ = 0 /\ snapshots_ = {}
  /\ compaction = NoCompaction
  /\ history = {} /\ split = {}

-----------------------------------------------------------------------------
(* Internal keys: by user key, then newest first (dbformat.cpp:47-63).     *)

Before(e, f) == e.key < f.key \/ (e.key = f.key /\ e.seq > f.seq)
Smallest(t) == CHOOSE e \in t : \A f \in t : f = e \/ Before(e, f)
Largest(t) == CHOOSE e \in t : \A f \in t : f = e \/ Before(f, e)

\* The user keys that a set of tables spans.
RangeStart(T) == Min({e.key : e \in UNION T})
RangeLimit(T) == Max({e.key : e \in UNION T})
Overlaps(t, lo, hi) == RangeStart({t}) <= hi /\ RangeLimit({t}) >= lo

\* Version::GetOverlappingInputs (version_set.cpp:446-485): in level 0 the range
\* grows to that of every table it meets, until none is left that sticks out.
Covers(T, lo, hi, r) ==
  /\ r[1] <= lo /\ r[2] >= hi
  /\ \A t \in T : Overlaps(t, r[1], r[2]) =>
       r[1] <= RangeStart({t}) /\ RangeLimit({t}) <= r[2]
GetOverlappingInputs(v, level, lo, hi) ==
  LET covering == {r \in Keys \X Keys : Covers(v[0], lo, hi, r)}
      start == IF level = 0 THEN Max({r[1] : r \in covering}) ELSE lo
      limit == IF level = 0 THEN Min({r[2] : r \in covering}) ELSE hi
  IN  {t \in v[level] : Overlaps(t, start, limit)}

-----------------------------------------------------------------------------
(* Writes, snapshots and the flush of the memtable.                        *)

Write ==
  /\ last_sequence_ < MaxWrites
  /\ last_sequence_' = last_sequence_ + 1
  /\ \E k \in Keys, t \in Type :
       LET e == [key |-> k, seq |-> last_sequence_', type |-> t]
       IN  mem_' = mem_ \cup {e} /\ history' = history \cup {e}
  /\ Cardinality({e \in history' : e.type = "deletion"}) <= MaxDeletions
  /\ UNCHANGED <<files_, snapshots_, compaction, split>>

GetSnapshot ==
  /\ Cardinality(snapshots_) < MaxSnapshots
  /\ last_sequence_ \notin snapshots_
  /\ snapshots_' = snapshots_ \cup {last_sequence_}
  /\ UNCHANGED <<mem_, files_, last_sequence_, compaction, history, split>>

ReleaseSnapshot ==
  /\ \E s \in snapshots_ : snapshots_' = snapshots_ \ {s}
  /\ UNCHANGED <<mem_, files_, last_sequence_, compaction, history, split>>

OverlapInLevel(level, lo, hi) == \E t \in files_[level] : Overlaps(t, lo, hi)

MemTableLevels_SkipLevel0(lo, hi) ==
  {l \in 0..MaxMemCompactLevel : \A m \in 1..l : ~OverlapInLevel(m, lo, hi)}
\* Version::PickLevelForMemTableOutput (version_set.cpp:420-443): the levels it
\* may choose; it stops earlier when too many bytes overlap two levels down.
MemTableLevels(lo, hi) ==
  {l \in 0..MaxMemCompactLevel :
     l > 0 => \A m \in 0..l : ~OverlapInLevel(m, lo, hi)}

\* CompactMemTable(), also from inside a compaction: imm_, the entries written
\* up to the switch of the memtables, becomes a table.
FlushMemTable ==
  /\ \E n \in {e.seq : e \in mem_} :
       LET imm == {e \in mem_ : e.seq <= n}
       IN  /\ \E l \in MemTableLevels(RangeStart({imm}), RangeLimit({imm})) :
                files_' = [files_ EXCEPT ![l] = @ \cup {imm}]
           /\ mem_' = mem_ \ imm
  /\ UNCHANGED <<last_sequence_, snapshots_, compaction, history, split>>

-----------------------------------------------------------------------------
(* A compaction (version_set.cpp:1096-1203, db_impl.cpp:744-892).          *)

SmallestSnapshot == IF snapshots_ = {} THEN last_sequence_ ELSE Min(snapshots_)

InputsBelow_Last(level, T) ==
  GetOverlappingInputs(files_, level + 1, RangeLimit(T), RangeLimit(T))
\* The tables of the next level that overlap the range of the inputs (1152).
InputsBelow(level, T) ==
  GetOverlappingInputs(files_, level + 1, RangeStart(T), RangeLimit(T))

\* PickCompaction() starts from one table of a level, chosen by size or by seeks;
\* SetupOtherInputs() adds what overlaps, and may grow the inputs of the level
\* (grow: the sizes allow it) when that adds no table of the next one.
CompactionFrom(level, t, grow) ==
  LET picked == IF level = 0
                THEN GetOverlappingInputs(files_, 0, RangeStart({t}),
                                          RangeLimit({t}))
                ELSE {t}
      below == InputsBelow(level, picked)
      all == picked \cup below
      expanded == GetOverlappingInputs(files_, level, RangeStart(all),
                                       RangeLimit(all))
      expand == /\ grow /\ below # {}
                /\ Cardinality(expanded) > Cardinality(picked)
                /\ Cardinality(InputsBelow(level, expanded)) = Cardinality(below)
      inputs0 == IF expand THEN expanded ELSE picked
      inputs1 == InputsBelow(level, inputs0)
      inputs == inputs0 \cup inputs1
  IN  [on |-> TRUE, level |-> level, inputs0 |-> inputs0,
       inputs1 |-> inputs1,
       grandparents |-> IF level + 2 < NumLevels
                        THEN GetOverlappingInputs(files_, level + 2,
                                                  RangeStart(inputs),
                                                  RangeLimit(inputs))
                        ELSE {},
       base |-> files_, smallest_snapshot |-> SmallestSnapshot]

CompactBegin ==
  /\ ~compaction.on
  /\ \E level \in 0..(NumLevels - 2), grow \in BOOLEAN :
       \E t \in files_[level] : compaction' = CompactionFrom(level, t, grow)
  /\ UNCHANGED <<mem_, files_, last_sequence_, snapshots_, history, split>>

Input == UNION (compaction.inputs0 \cup compaction.inputs1)

IsBaseLevelForKey_Level2(k) ==
  \A l \in Level : l > compaction.level + 2 =>
    \A t \in compaction.base[l] : ~Overlaps(t, k, k)
\* No level below the output's has a table that spans the key (1264-1283).
IsBaseLevelForKey(k) ==
  \A l \in Level : l >= compaction.level + 2 =>
    \A t \in compaction.base[l] : ~Overlaps(t, k, k)

\* The merge loop drops an entry: (A) a newer one of its key is visible in every
\* snapshot, or it is a deletion with nothing left to hide.
Drop(e) ==
  \/ \E n \in Input : /\ n.key = e.key /\ n.seq > e.seq
                      /\ n.seq <= compaction.smallest_snapshot
  \/ /\ e.type = "deletion"
     /\ e.seq <= compaction.smallest_snapshot
     /\ IsBaseLevelForKey(e.key)
Kept == {e \in Input : ~Drop(e)}

\* ShouldStopBefore (1285-1304): the loop over the grandparents does not advance,
\* so it never ends for an entry that comes after the first of them.
Spins ==
  \E g \in compaction.grandparents :
    /\ \A h \in compaction.grandparents :
         h = g \/ Before(Smallest(g), Smallest(h))
    /\ \E e \in Input : Before(Largest(g), e)

\* The output tables: runs of the kept entries in the order of the merge.  An output
\* ends after any entry, where it has reached its size: also between two entries of
\* one user key (db_impl.cpp:847-853).
Outputs(cut) == {{e \in Kept : cut[e] = i} : i \in 1..MaxOutputs} \ {{}}
Runs == {cut \in [Kept -> 1..MaxOutputs] :
           \A e, f \in Kept : Before(e, f) => cut[e] <= cut[f]}
CutKeys(cut) ==
  {e.key : e \in {e \in Kept : \E f \in Kept : f.key = e.key /\ cut[f] # cut[e]}}

\* InstallCompactionResults(): the inputs give way to the outputs.
CompactInstall ==
  /\ compaction.on /\ ~Spins
  /\ \E cut \in Runs :
       /\ files_' = [files_ EXCEPT
                       ![compaction.level] = @ \ compaction.inputs0,
                       ![compaction.level + 1] =
                          (@ \ compaction.inputs1) \cup Outputs(cut)]
       /\ split' = split \cup CutKeys(cut)
  /\ compaction' = NoCompaction
  /\ UNCHANGED <<mem_, last_sequence_, snapshots_, history>>

\* An output file fails, or the database is closed, before the merge has come to
\* an entry at which it spins: the version stays.
CompactFail ==
  /\ compaction.on
  /\ compaction' = NoCompaction
  /\ UNCHANGED <<mem_, files_, last_sequence_, snapshots_, history, split>>

Next ==
  \/ Write \/ GetSnapshot \/ ReleaseSnapshot \/ FlushMemTable
  \/ CompactBegin \/ CompactInstall \/ CompactFail

Spec == Init /\ [][Next]_vars

-----------------------------------------------------------------------------
(* Get (db_impl.cpp:942-987, version_set.cpp:269-384).                     *)

\* The entries of a key that a read at sequence number s may see.
Hits(S, k, s) == {e \in S : e.key = k /\ e.seq <= s}
Newest(S) == CHOOSE e \in S : \A f \in S : f.seq <= e.seq

\* In a sorted level: the first table that does not end before the key.
\* (FindFile compares internal keys.)
TableFor(level, k, s) ==
  LET target == [key |-> k, seq |-> s, type |-> "value"]
      from == {t \in files_[level] : ~Before(Largest(t), target)}
  IN  UNION {t \in from : \A u \in from : u = t \/ Before(Smallest(t), Smallest(u))}

\* In level 0: the newest table that has an entry; its range holds the key.
InLevel0(k, s) ==
  LET hit == {t \in files_[0] : Hits(t, k, s) # {}}
  IN  UNION {t \in hit : \A u \in hit : Max({e.seq : e \in u}) <=
                                        Max({e.seq : e \in t})}

InLevel(level, k, s) ==
  Hits(IF level = 0 THEN InLevel0(k, s) ELSE TableFor(level, k, s), k, s)

\* The entry that Get() finds: in mem_, else in the first level that has one.
Found(k, s) ==
  LET hit == {l \in Level : InLevel(l, k, s) # {}}
  IN  CASE Hits(mem_, k, s) # {} -> {Newest(Hits(mem_, k, s))}
        [] Hits(mem_, k, s) = {} /\ hit # {} -> {Newest(InLevel(Min(hit), k, s))}
        [] OTHER -> {}

\* A deletion is NotFound, like no entry.
Get(k, s) == {e \in Found(k, s) : e.type = "value"}

-----------------------------------------------------------------------------
(* Properties.                                                             *)

\* The types of the tree: no table is empty, and the inputs of a running compaction
\* stay in their levels whatever flushes do meanwhile.
TypeOK ==
  /\ mem_ \subseteq Entry
  /\ DOMAIN files_ = Level
  /\ \A l \in Level : \A t \in files_[l] : t \subseteq Entry /\ t # {}
  /\ last_sequence_ \in 0..MaxWrites
  /\ snapshots_ \subseteq 0..last_sequence_
  /\ compaction.level \in 0..(NumLevels - 2)
  /\ compaction.inputs0 \subseteq files_[compaction.level]
  /\ compaction.inputs1 \subseteq files_[compaction.level + 1]
  /\ compaction.smallest_snapshot \in 0..last_sequence_
  /\ history \subseteq Entry
  /\ split \subseteq Keys

\* The newest value written to a key, up to a sequence number.
Expected(k, s) ==
  {e \in history : /\ e.key = k /\ e.seq <= s /\ e.type = "value"
                   /\ \A f \in Hits(history, k, s) : f.seq <= e.seq}

\* Get() returns the newest write of the key, now and in every snapshot held,
\* however flushes and compactions moved, merged and dropped the entries; but for a
\* key whose entries a compaction put into two tables (db_impl.cpp:848): the next one
\* may take the table with the newer entries alone (version_set.cpp:1113), and Get()
\* then finds an older one above it.  Such a key harms no other.
ReadsNewest ==
  \A k \in Keys \ split, s \in snapshots_ \cup {last_sequence_} :
    Get(k, s) = Expected(k, s)

\* The tables of a level below level 0 do not overlap (the assertions of
\* VersionSet::Builder, version_set.cpp:655-683), also when a flush placed a
\* table there during a compaction into that level; no table is empty, and the
\* inputs of a compaction stay in the version while it runs.
LevelsDisjoint ==
  /\ TypeOK
  /\ \A l \in Level \ {0} : \A t, u \in files_[l] :
       t = u \/ Before(Largest(t), Smallest(u)) \/ Before(Largest(u), Smallest(t))

\* "We can search level-by-level since entries never hop across levels.
\* Therefore we are guaranteed that if we find data in an smaller level, later
\* levels are irrelevant" (version_set.cpp:305-307): the entries of a key get
\* older from level to level, but for a key whose entries were put into two tables.
NewerAbove ==
  \A l, m \in Level : l < m =>
    \A e \in UNION files_[l], f \in UNION files_[m] :
      e.key = f.key => e.seq > f.seq \/ e.key \in split
=============================================================================
