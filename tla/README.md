# A TLA+ verification of level_db

This directory specifies and verifies the storage engine in `src/`, a retyped
LevelDB 1.7. The repository has no tests and no documents of its own; the
reference for every definition is the code, and the promises are taken from its
comments, assertions and the comments of the public headers
(`src/leveldb/*.h`). File and line references in the modules are to `src/`.

## 1. The system

| Component | State | Operations | Talks to |
|---|---|---|---|
| Write path (`db/db_impl.cpp`, `db/write_batch.cpp`) | `writers_`, `tmp_batch_`, `mem_`, `imm_`, `log_`, `mutex_`, `bg_cv_`, the local `Writer` of each call | `Write`, `MakeRoomForWrite`, `BuildBatchGroup`, `Get` | log file, memtable, background thread (`bg_cv_`) |
| Background work (`db/db_impl.cpp`) | `bg_compaction_scheduled_`, `bg_error_`, `shutting_down_`, `pending_outputs_`, `CompactionState` | `MaybeScheduleCompaction`, `BackgroundCall`, `CompactMemTable`, `DoCompactionWork`, `~DBImpl` | Env queue, VersionSet, writers (`bg_cv_`) |
| Recovery (`DB::Open`, `NewDB`, `Recover`, `RecoverLogFile`) | the directory | replay of the MANIFEST and of the log files | VersionSet, log reader, `BuildTable` |
| Descriptor (`db/version_set.cpp`, `db/version_edit.cpp`) | MANIFEST, CURRENT, file numbers, last sequence number, list of versions | `LogAndApply`, `Recover`, `AddLiveFiles`, `DeleteObsoleteFiles` | log writer, Env |
| Log format (`db/log_*.cpp`, `PosixMmapFile`) | block offset, mapped region; buffer, scratch, fragment state | `AddRecord`, `ReadRecord`, `Append`, `Close` | file system |
| Level tree (`db/version_set.cpp`, `db/db_impl.cpp`) | tables per level, snapshots, the running compaction | `PickLevelForMemTableOutput`, `PickCompaction`, `SetupOtherInputs`, merge, `Version::Get` | memtable, tables |
| MemTable, SkipList, Arena | a lock-free readable list | `Insert`, `Seek`, iteration | readers without a lock |
| Iterators (`db/db_iter.cpp`, `table/merger.cpp`, `table/two_level_iterator.cpp`) | direction, current child, saved key and value | `Seek`, `Next`, `Prev` | memtable, tables |
| Table builder (`table/table_builder.cpp`, `block_builder.cpp`, `filter_block.cpp`, `format.cpp`) | the block being built, index, filter keys, pending index entry, file offset | `Add`, `Flush`, `ChangeOptions`, `Finish`, `Abandon` | file, comparator, filter policy |
| Table reader (`table/block.cpp`, `table.cpp`) | index block, block iterators | `Open`, `Seek`, `Next`, `Prev`, `InternalGet` | Env, block cache |
| Caches (`util/cache.cpp`, `db/table_cache.cpp`) | hash table, LRU list, reference counts | `Insert`, `Lookup`, `Release`, `Erase` | tables, blocks |
| Env (`util/env_posix.cpp`) | background queue, lock table | files, `Schedule`, `LockFile` | operating system |
| Utilities (`util/*`) | none | coding, checksum, hash, bloom filter, comparators | |

What is hard in it:

* **Interleaving.** A leader logs and inserts for a whole group with `mutex_`
  released; a compaction releases `mutex_`, and stops in its middle to flush
  `imm_`, which installs a version and deletes files under the compaction's feet.
* **Waiting.** Writers wait for their turn, for `imm_`, for level 0, for a delay;
  the destructor waits for the background thread. Every one of these waits ends
  only if somebody schedules work and signals.
* **Crashes.** Four kinds of file have to stay consistent although they are
  written and deleted one by one, and `DB::Open` runs the same risky steps as a
  running DB does.
* **Partial failure.** A record may be in the file although the write failed; a
  MANIFEST may name a table although memory does not.
* **Reading beside writing.** Readers walk the skip list without a lock while a
  node is linked level by level; an iterator keeps a snapshot while entries are
  inserted around its position, and it changes direction; readers share cached
  tables that others evict and replace.
* **Byte formats at their edges.** Prefix compression, restart points, varints,
  shortened index keys and filter ranges each have their boundary cases, and
  options may change in the middle of a block.
* **Order of data.** `Get` stops at the first level that has an entry; flushes
  below level 0, compactions with cut outputs and snapshots all have to keep the
  levels in order.

The list of hazards, each at its line and with the properties aimed at it, is
`hazards` in `PROJECT.json`.

## 2. The modules

| Module | Models | Extended or instantiated by |
|---|---|---|
| `AtomicWrites` | what `DB::Write` promises to concurrent callers | `DBWrite` (refinement) |
| `DBWrite` | queue, group commit, `MakeRoomForWrite`, background thread, destructor | `MCDBWrite`, `DBWriteProofs` |
| `DBWriteProofs` | the theorems about `DBWrite`, the refinement included | |
| `DBRecovery` | the directory, everything that writes and deletes files, `DB::Open`, crashes | `MCDBRecovery`, `DBRecoveryProofs` |
| `DBRecoveryProofs` | the theorems about `DBRecovery`: the types, and what `DB::Open` finds after a crash | |
| `LogFormat` | `log::Writer`, `PosixMmapFile`, what a crash leaves, `log::Reader` | `MCLogFormat`, `LogFormatProofs` |
| `LogFormatProofs` | the theorems about `LogFormat` | |
| `LevelTree` | placement of flushes, choice and merge of compactions, `Get`, snapshots | `MCLevelTree`, `LevelTreeProofs` |
| `LevelTreeProofs` | the theorems about `LevelTree` | |
| `SnapshotCursor` | what an `Iterator` of a DB promises | `DBIterator` (refinement) |
| `DBIterator` | `DBIter` over `MergingIterator`, with insertions into the memtable | `MCDBIterator`, `DBIteratorProofs` |
| `DBIteratorProofs` | the theorems about `DBIterator`, the refinement included | |
| `OrderedSet` | what `SkipList::Iterator` promises to a lock-free reader | `SkipList` (refinement) |
| `SkipList` | one inserting thread and readers, one shared access a step | `MCSkipList`, `SkipListProofs` |
| `SkipListProofs` | the theorems about `SkipList`, the refinement included | |
| `Coding` | varints, fixed integers, slice order, the comparators | `BlockFormat`, `FilterBlock` |
| `BlockFormat` | `BlockBuilder`, and taking a block's entries apart | `TableBuilder` |
| `FilterBlock` | `FilterBlockBuilder`, `FilterBlockReader`, `BloomFilterPolicy` | `TableBuilder` |
| `TableBuilder` | `TableBuilder` and the footer, with failing file operations | `MCTableBuilder`, `TableBuilderProofs` |
| `TableBuilderProofs` | the theorems about `TableBuilder` | |
| `LRUCache` | `HandleTable`, `LRUCache`, and the clients `TableCache` and `Table::BlockReader` | `MCLRUCache`, `LRUCacheProofs` |
| `LRUCacheProofs` | the theorems about `LRUCache` | |

`DBRecovery` uses what the others establish: `DBWrite` reduces concurrent writers
to one logging writer at a time, so `DBRecovery` has one client; `LogFormat`
reduces a log file to the sequence of its whole records (`ReadBack`), so
`DBRecovery` has sets of entries; `LevelTree` deals with what a version means for
reads, so a version is a set of table numbers in `DBRecovery`. `DBIterator` starts
from the order of children that `LevelTree` checks (`NewerAbove`) and takes the
memtable for a sorted set, which is `AnswersExactly` of `SkipList`; that `SkipList`
has one inserting thread is `OneLogger` of `DBWrite`. `LRUCache` evicts only files
that no reader's version has, which is `HeldFilesExist` of `DBRecovery`.

### DBWrite

State: the fields of `DBImpl` under their names, and for each `Write()` call the
`Writer` struct (`batch`, `sync`, `done`, `status`), the locals that survive an
unlock (`updates`, `last_writer`, `seq`, `force`, `allow_delay`) and a program
counter `pc`. A step is a stretch of code between two points at which another
thread can run. `mutex_` names its holder where a stretch that holds it is cut
into several steps.

| Code | Actions |
|---|---|
| `DBImpl::Write` up to its turn | `Enqueue`, `WaitTurn`, `Wake`, `SpuriousWake`, `ReturnDone`, `Lead` |
| `MakeRoomForWrite` | `BackgroundError`, `Delay`, `DelayOver`, `Room`, `WaitBackground`, `SwitchMemTable`, `SwitchFails` |
| `BuildBatchGroup`, log, memtable | `BuildBatchGroup`, `AddRecord`, `SyncLog`, `Insert`, `InsertDone`, `Publish`, `Pop` |
| `Get` (its effect on the write path) | `GetBegin`, `GetEnd`: a seek may be charged and schedule a compaction |
| background thread | `BgFlush`, `BgCompact`, `BgNothing`, `BgFails`, `BgResumeMerge`, `BgTableBuilt`, `BgApplied`, `BgMerged`, `BgSpin`, `BgInstalled`, `CompactionFails`, `BgFinish` |
| `~DBImpl` | `CloseBegin`, `CloseWoken` |

Abstractions: a batch is its number of operations, bytes are counted in
operations, level 0 is a counter, and `large` says that a deeper level of the
current version is over its size. A failing operation spends one of `MaxEvents`,
and so does a spurious wakeup, a `Get` or a new version with a level that is too
large.

The refinement `WritesAreAtomic` maps `Phase` (from `pc` and `status`), `batch`
and `Visible` (what a `Get` that starts now sees) to the variables of
`AtomicWrites`.

### DBRecovery

State: the directory (`logs`, `tables`, `manifests`, `current`), the numbers and
memtables of `DBImpl` and `VersionSet`, and the local state of each long
operation (`flush`, `compact`, `apply`, `doomed`, `replay`, `write`). Each file
operation is a step and a crash may come between any two.

| Code | Actions |
|---|---|
| `Write` | `WriteBegin`, `SwitchMemTable`, `WriteLog`, `WriteSync`, `WriteEnd` |
| iterators holding a version | `IterBegin`, `IterEnd` |
| `CompactMemTable`, `WriteLevel0Table`, `BuildTable` | `FlushBegin`, `FlushBuild` |
| `DoCompactionWork` | `CompactBegin`, `CompactOpen`, `CompactFinish`, `CompactError`, `CompactInstall` |
| `LogAndApply` | `ApplyCreate`, `ApplyAppend`, `ApplySync`, `ApplyCurrent`, `ApplyInstall` |
| `DeleteObsoleteFiles` | `DeleteFile`, one file at a time |
| `DB::Open` | `NewDB`, `NewDBCurrent`, `RecoverManifest`, `ReplayLog`, `ReplayTable`, `ReplayEnd`, `OpenLog` |
| end of an incarnation | `Close`, `ProcessCrash`, `TornCrash`, `MachineCrash` |

The file system is external. It is taken to create, rename and delete files
atomically and in order; a killed process loses nothing it has written; a machine
crash may cut a file back to what was synced. `SwitchMemTable` is the case of
`MakeRoomForWrite` in which the new log file can be created. `paranoid_checks` is
false (the default), so a log file that cannot be opened is passed over, and the
error of a log that cannot be replayed is overwritten by the next one
(`db_impl.cpp:312`). `lost` collects the entries that a `DB::Open` which succeeded
went past in these two ways, or because it did not find their records.

What a failed append leaves is part of the model, because the code goes on after it.
`skewed` says that the `block_offset_` of the log's or of the MANIFEST's writer no
longer agrees with its file (`log_writer.cpp:96`; `PosixMmapFile::Append` may leave half
a record); from then on the reader may or may not find a record that was appended well.
`hidden` has the entries of the log records it does not find, `Unread` those of them
that no table has yet. `astray` has the edits about which the MANIFEST in use and
`VersionSet` may disagree: their `AddRecord` or `Sync` failed, the process was killed
inside the `AddRecord`, or they were appended to a skewed MANIFEST. `Contested` are the
tables these edits add or delete. The properties name these sets where the code gives
up what it promises:

| Property | Leaves out |
|---|---|
| `AckedRecoverable` | `Unread`, `lost`; everything once `astray` is not empty |
| `AckedVisible` | `lost`; everything once `astray` is not empty |
| `VisibleRecoverable` | `Unread`; everything once `astray` is not empty |
| `SyncLossInTables` | `Unread`, `lost`, damaged tables; everything once `astray` is not empty |
| `LiveTablesExist`, `HeldFilesExist` | the tables `Contested` |
| `CanReopen` | a MANIFEST in use whose `AddRecord` failed or was cut short (`astray`) |
| `SequenceFresh` | nothing |

A log file whose `Read` fails half-way, which `LogFormat` has, is not distinguished in
`DBRecovery` from one that cannot be opened.

### LogFormat

One behaviour writes up to `MaxRecords` records, ends by a close, a kill between
or inside records, or a power loss, and reads the file back. A file is a sequence
of cells: a byte of a header, a byte of the payload of record `r`, or zero. A
header carries the fragment its checksum was computed from, and the checksum is
taken to detect every difference. `PosixMmapFile` matters because it preallocates
regions (a killed process leaves zeros at the end) and because mapping a region
may fail in the middle of an append. A block that cannot be read ends the reading
(`ReadFails`). `faults` counts failed appends and reads.

### LevelTree

A table is the set of its entries `[key, seq, type]`. Every choice that the code
makes by byte size or by seeks is open: the level of a flush among those
`PickLevelForMemTableOutput` may return, the table a compaction starts from,
whether its inputs grow, where its outputs are cut. `mem_` stands for `mem_` and
`imm_` together: a flush takes the entries up to some sequence number.
Outputs are cut after any entry, also between two entries of one user key, as in
`db_impl.cpp:847-853`; `split` remembers the user keys of such cuts. `NewerAbove` and
`ReadsNewest` speak of the other keys (section 5), `LevelsDisjoint` of all.

### DBIterator

State: the entries of each child, the fields of `MergingIterator` (`merge`: where
each child stands, `current_`, `direction_`) and of `DBIter`, and the call that is
running. The operations of `MergingIterator` are operators that give its state
after a call; a step of `DBIter` is one round of one of its loops, which makes one
such call.

| Code | Actions |
|---|---|
| `SeekToFirst`, `Seek`, `SeekToLast` | the same names |
| `Next`, `FindNextUserEntry` | `NextCall`, `FoundNext`, `PassNext` |
| `Prev`, `FindPrevUserEntry` | `PrevCall`, `Back`, `TakePrev`, `EndPrev` |
| `MemTable::Add` by a writer | `Insert` |
| the client | `Begin` |

A child is the sorted set of its entries. For the memtable that is what `SkipList`
shows (an insertion falls between two calls of the merging iterator). For tables
it is what their format should give; `Block::Iter` and `TwoLevelIterator` are not
modelled, and several places in them are wrong (section 5). `IteratesSnapshot` maps the
map of the snapshot, the running call and what `key()` and `value()` show to the
variables of `SnapshotCursor`; the map must not change, which includes that insertions
do not reach it.

The client may make every call in every state, also a backward move while there are
entries newer than its snapshot, and a writer may insert at any moment. Two things go
wrong then (section 5), and the properties say which and no more: `Slipped` is a
`Next` that turned round and took the key to skip from an entry inserted since
(`db_iter.cpp:128`), for which `SnapshotCursor` has the step `Slip`: the call shows the
same entry again. `Caught` is a backward move that stands at an entry newer than the
snapshot and does not get past it (`db_iter.cpp:215`); `CallsReturn` leaves it out.

### SkipList

State: `next_` and `max_height_`, and for each thread the locals of its search
(`x`, `level`, `key`); for the writer also `prev`, `height` and the level it is
linking, for a reader the position `node_` of its iterator. A node is its key: a
key is inserted once and no node is freed. The links of a node nobody has written
hold `Junk`, as `NewNode` leaves them.

| Code | Actions |
|---|---|
| `FindGreaterOrEqual`, `FindLessThan`, `FindLast` | `Right`, `Down`, and `SearchEnds` for a reader |
| `Iterator` | `Seek`, `SeekToFirst`, `SeekToLast`, `NextCall`, `Prev`; `Load` for the calls that load one link |
| `Insert` | `Insert`, the steps of its search, `Grow` (`RandomHeight`, `max_height_`), `Link`, `Publish` |

A step loads or stores one shared word. `AtomicPointer` is taken to do what it is
for: the writer's stores become visible in their order. `max_height_` is read
without a barrier and a reader may see any value it has had. `Asking` and
`Linked(0)` map the state to `OrderedSet`: a key is in the set from the moment it
is linked at level 0, and a call is answered at its last load.

### TableBuilder

`rep` has the fields of `TableBuilder::Rep` and the file, a sequence of bytes. A
call of the client is one step, since one thread has the builder; inside, the
operators `FileAppend` and `FileFlush` count file operations, of which `fail_at`
fails, and the code after it is skipped or not as it is in the source. `current`
and `written` are ghosts that remember what was added to which block.

| Code | Definitions |
|---|---|
| `TableBuilder::Add`, `Flush`, `ChangeOptions`, `Finish`, `Abandon` | the actions of these names, over `AddEntry`, `FlushBlock`, `WriteRawBlock`, `FinishFile` |
| `BlockBuilder` | `BlockAdd`, `BlockFinish`, `CurrentSizeEstimate`, `EmptyBlock` |
| `FilterBlockBuilder`, `BloomFilterPolicy` | `StartBlock`, `AddKey`, `GenerateFilter`, `FilterFinish`, `CreateFilter` |
| `DecodeEntry`, `ParseNextKey`, `FilterBlockReader::KeyMayMatch`, `BlockHandle`, `Footer` | `Entries`, `KeyMayMatch`, `DecodeHandle`, `Footer`; the properties read the file with them |

`BloomHash` is a parameter: no property depends on which function it is. A
checksum is represented by the length of what it covers. `RestartArray` says where
`BlockBuilder::Finish` puts the restart points; the constructor of `Block` looks
three bytes further (section 5), which is a matter of the reader and not of the
file.

### LRUCache

State: `cache` holds the allocated handles with their reference counts, the list,
`usage_` and the chains of the hash table; each reader has the key it looks for
and the handle it got. Every call of the cache runs under its mutex and is one
step, built from operators with the names of the code's functions. A reader that
misses opens the file between `Find` and `Fill`, when others run. Handles are
reused as soon as they are freed. One shard is modelled: a key has one shard, and
shards share nothing. `MinLength` is 4 in the code; a smaller one makes `Resize`
happen with few keys. A chain of the hash table is the set of its handles: it has one
entry of a key, so its order decides nothing. The loops of `Resize`, of `Insert` and
of the destructor are recursive functions (`Doubled`, `Evictions`, `Unreffed`).

## 3. Runs

Each passing run is exhaustive for its bounds.

| Run | Bounds | What it shows |
|---|---|---|
| `write_safety` | 3 writers, batches 1, 2, NULL, sync and not, 2 events, level-0 triggers 1/1/2, paranoid checks | exclusive logging (`OneLogger`), sync writes are fsynced also in a group (`SyncedWhenAcknowledged`), sequence numbers of the log (`LogOrdered`), write-ahead (`MemTableLogged`), `tmp_batch_` (`TmpBatchOwned`), a quiet destructor (`NoWorkAfterClose`), and the refinement of `AtomicWrites` |
| `write_liveness` | 3 writers, batches 0 and 1, 2 events, triggers 1/1/1 | every `Write()` and the destructor return (`WritersReturn`, `CloseReturns`), unless a merge spins or, for writers, a flush was never scheduled |
| `recovery_safety` | 3 writes, memtable of one entry, 2 restarts after a kill between two steps or inside an `AddRecord` of a MANIFEST, 1 failing operation of any kind but an fsync of the log, those of the MANIFEST and of `DB::Open` included | at every moment the directory can be opened (`CanReopen`) and holds every acknowledged write (`AckedRecoverable`) and everything served (`VisibleRecoverable`); every such write is served (`AckedVisible`); no needed file is deleted (`LiveTablesExist`, `HeldFilesExist`); sequence numbers are fresh after replay (`SequenceFresh`); each up to the exceptions in section 2 |
| `recovery_machine` | 2 writes, sync or not, 2 machine crashes or torn MANIFESTs, a failing append or fsync of the log, compactions also after a crash | a sync write is lost only with a table that was not fsynced, and unread only behind a failed append (`SyncLossInTables`) |
| `log_format` | blocks of 5, headers of 2, regions of 10, sizes 0, 1, 3, 5, 3 records, 1 failed append or read | `ReadBack`, `NoPhantom`, `CleanIsSilent`, `ReadingEnds` |
| `tree_reads` | 2 keys, 3 levels, 4 writes, one of which may be a deletion, 1 snapshot, 2 output tables cut anywhere | `LevelsDisjoint`, `NewerAbove`, `ReadsNewest` |
| `iter_scan` | 2 keys, 2 children, 3 entries before and 1 during the life of the iterator, every snapshot, every call in every state | the children stand where the merging iterator says (`NothingSkipped`), the refinement of `SnapshotCursor` (`IteratesSnapshot`), every call returns (`CallsReturn`), with the exceptions `Slipped` and `Caught` |
| `cache_sharing` | 3 readers, 3 keys of charges 2, 1, 1, capacity 2, hash table from length 1 | `RefsExact`, `TableMatchesList`, `UsageBounded`, `NoStaleTable` |
| `skiplist_readers` | keys 1 to 3, 1 reader, height 3 | every level is a sorted list inside the one below at every step (`ListsNested`), no unwritten link is loaded (`ReadsInitialised`), the refinement of `OrderedSet` (`AnswersExactly`), every search ends (`SearchesReturn`) |
| `table_build` | 4 internal keys, values of 0 and 130 bytes, blocks of 30 and 60 bytes, restart intervals 1 and 2, with and without filter, filter ranges of 64 bytes, 1 change of options, any one of the first 14 file operations failing | blocks give back their entries (`EntriesKept`), a table that `Finish` calls good is complete and every block of it is indexed (`FinishedWhole`), the filter lets every key through (`FilterCovers`) |
| `write_flush_trigger`, `table_index` | as small as the counterexample allows | section 5 |

Why the bounds are enough for the cases of interest:

* Three writers give a leader, a member of its group and a writer that comes
  later, which is the smallest queue in which a hand-over, a refused member and a
  waiting successor meet. Two events allow an error during the answer to an
  error, or an error and a spurious wakeup.
* A memtable of one entry makes every second write switch, so three writes reach
  a full `mem_` with `imm_` present. Two restarts allow a crash during the
  recovery from a crash.
* Three records over blocks of 5 cells with headers of 2 reach every leftover
  (0, 1, exactly a header), records that end with a block, empty records, and
  records of first, middle and last fragments; a region of two blocks is
  preallocated and remapped.
* Two keys and three levels are the least with a flush below level 0, a
  compaction into a level with a gap, and a base level for deletions; four writes
  give two versions of each key, with a deletion above, between or below values. A
  snapshot may be taken and released at any time.
* Three entries before the iterator exists give a key with an old, a deleted and a
  new entry in different children, or two keys of which one is overwritten; one
  more arrives while the iterator stands anywhere. With two children the one that
  is not current is repositioned at each change of direction.
* Three keys of up to three levels give an insertion before, between and behind
  others, at heights below, at and above the list's; the reader may be anywhere in
  each of the levels meanwhile. Readers do not influence each other or the writer,
  so one is enough (the proofs have any number of everything).
* The four internal keys are one user key twice, whose index key can be shortened,
  one that has no successor (`0xff`) and an extension of it. A value of 130 bytes needs
  a two-byte length and, being larger than two filter ranges, makes blocks begin
  several filters on; blocks hold one or several entries. With `MaxOps` 14 every file
  operation of a table of two blocks may fail, or of three without a filter.
* Three readers are two that miss the same file at once and one whose insertion
  evicts their entries; a charge of 2 at capacity 2 evicts everything else, and
  with everything in use also itself. Length 1 makes `Resize` run twice.

Deadlock is checked except in the runs of `DBWrite`, `LevelTree`, `LRUCache` and
`TableBuilder`. There the system really stops: in `DBWrite` a memtable whose flush was never
scheduled stops all writers (section 5), in `LevelTree` the client has made its
last call, or a compaction spins, in `LRUCache` the cache is deleted, and a
`TableBuilder` is done with after `Finish` or `Abandon`.

Every property of a passing run has a mutant in `PROJECT.json`: a small change of
a definition (its name is the definition's with a suffix) of the kind an
error in that code would be, under which TLC finds the property violated.

## 4. Fairness

* `DBWrite`: weak fairness of each started `Write()`, of the background thread,
  of a `Get` that has begun and of the destructor. The code's threads are
  operating-system threads, and `mutex_` is contended a bounded number of times
  in an instance, so a thread that waits for it gets it. Nobody is obliged to
  call `Write`, `Get` or the destructor, no wakeup comes by itself. Fairness of the
  background thread does not make every merge end: at any point of a merge it may take
  `BgSpin`, the loop of `version_set.cpp:1288`, out of which no step leads. The liveness
  properties therefore say `\/ MergeSpins`.
* `LogFormat`: weak fairness of the reader. `RecoverLogFile` and
  `VersionSet::Recover` call `ReadRecord` until it returns false.
* `SkipList`: weak fairness of the inserting thread and of each reader inside a
  call. Nothing blocks, so every step of a running thread is possible until it is
  taken; nobody is obliged to begin a call.
* `DBIterator`: weak fairness of the steps of a call that has begun: the client's
  thread runs. Nobody is obliged to begin a call or to insert. A call that is `Caught`
  goes on for ever without moving.

## 5. Where the code departs from what it says

Two runs end in a violation; `findings` in `PROJECT.json` quotes the comment each
one contradicts.

* `write_flush_trigger`: `MakeRoomForWrite` does not schedule the flush of the
  memtable it has switched (`db_impl.cpp:1185` has a TODO in its place). Unless
  level 0, a large level or a seek schedules work, the next full memtable stops
  all writers. `WritersReturn` is therefore stated up to `FlushForgotten`.
* `table_index`: `TableBuilder::Add` does not reset `pending_index_entry`
  (`table_builder.cpp:94`). Each further `Add` writes another index entry for the
  block before, so a search for an entry of a later block is led to that one,
  except for the last key of each block. In a build with assertions the process
  ends instead. `FinishedWhole` says what holds nevertheless.

The passing runs contain more behaviour in which the code does not do what is expected
of it. There a property is stated with its exception, which the run shows to be the only
one; without the exception TLC finds the behaviour described.

* `lost`: the status of one `RecoverLogFile` is overwritten by that of the next
  (`db_impl.cpp:312`), so `DB::Open` succeeds although `WriteLevel0Table` failed
  for a log, and deletes the log. `db_impl.cpp:416` says that such errors make
  `DB::Open` fail.
* `hidden`, `Unread`: after a failed append `block_offset_` has advanced although the
  file has not (`log_writer.cpp:96`), and later acknowledged records of that log may be
  unreadable. They are lost if the DB is opened before their memtable was saved.
  `ReadBack` is for this reason about files without a failed append, `NoPhantom` about
  all.
* `astray`, `Contested`: a MANIFEST record whose `Sync` failed stays in the file, the
  table it names is deleted, and later records follow it; a record whose `AddRecord`
  failed may be there as well, or hide those that follow (`version_set.cpp:776-800`).
  `VersionSet::Recover` refuses a MANIFEST whose last record is incomplete, which is what
  a kill inside `AddRecord` leaves.
* `split`: with a snapshot, an output may be cut between two entries of one user key
  (`db_impl.cpp:848`), and a compaction that takes only one of the two tables leaves an
  older entry above a newer one (`version_set.cpp:1113`), which `Get` then returns.
* `MergeSpins`: a compaction with an input beyond the first grandparent table never
  ends: the loop of `ShouldStopBefore` does not advance `grandparent_index_`
  (`version_set.cpp:1288`) and looks neither at `shutting_down_` nor at `imm_`. `Spins`
  of `LevelTree` says for which data; such a compaction installs nothing.
* `Slipped`: after a backward move, an insertion between `iter_` and `key()` makes
  `Next` skip the inserted key instead of `key()` and show the same entry again
  (`db_iter.cpp:128`).
* `Caught`: `FindPrevUserEntry` calls `iter_->Prev()` only for visible entries
  (`db_iter.cpp:215`), so that it never leaves an entry newer than the snapshot.
* Damaged tables in `SyncLossInTables`: `BuildTable` does not fsync the table of a flush
  or of a replayed log (`builder.cpp:54`), yet the fsynced log that held the entries is
  dropped, so a machine crash may take back a sync write.

Seen while reading the table reader, which has no module: the constructor of
`Block` computes `size_ - (1 + NumRestarts() * 4)` (`block.cpp:21`) for what should
be four bytes for each of `1 + NumRestarts()` words, so the first three bytes of the
restart array are parsed as one more entry, with an empty key, and every restart
point is read from three bytes too far; `Block::Iter::Seek` does not go to the
restart point it has found (`block.cpp:161`); `ReadBlock`, `Table::BlockReader` and
`TwoLevelIterator::status` end without returning their value (`format.cpp:110`,
`table.cpp:193`, `two_level_iterator.cpp:44`); nothing calls `Table::ReadMeta`, so
filters are written and never read.

Elsewhere: background errors are recorded only under `paranoid_checks` and a failed
`CompactMemTable` is not recorded at all (`db_impl.cpp:487-499`); the trivial move is
taken only for manual compactions (`db_impl.cpp:578`), of which there are none;
`NewDB` does not sync MANIFEST-1; `FilterBlockReader::KeyMayMatch` has a branch for
an empty filter that is reached only for offsets out of order
(`filter_block.cpp:103`). `LRUCache` and `DBIterator` take `BlockReader` and the
table iterators to return what they have built.

## 6. Proofs

Eight of the models have proofs. Each theorem is about every value of the constants:
any number of writers, keys, readers, levels, children, writes, restarts and faults.
The bounds of section 3 do not enter, except as constants of which the proofs know only
that they are natural numbers. Every inductive invariant was model-checked, on
instances such as those of section 3, before it was proved.

| Model | Proved for all constants | Under the hypothesis |
|---|---|---|
| `DBWrite` | all its safety properties and the refinement of `AtomicWrites` | |
| `DBRecovery` | the types | |
| | `SyncLossInTables`, `VisibleRecoverable` | |
| | `LiveTablesExist`, `HeldFilesExist`, `SequenceFresh` | as long as `astray = {}` |
| | `AckedRecoverable`, `AckedVisible`, `CanReopen` | `ProcessOnly` |
| `LogFormat` | all its safety properties | |
| `LevelTree` | all its properties | |
| `DBIterator` | `NothingSkipped` and the refinement of `SnapshotCursor` | |
| `SkipList` | all its safety properties and the refinement of `OrderedSet` | |
| `LRUCache` | all its properties | |
| `TableBuilder` | `EntriesKept` | `SizesFit` |
| | `FinishedWhole`, `FilterCovers`, for files below 4 GB | `SizesFit` (and a bound on `FilterName`) |

`ProcessOnly` says that the machine does not crash, which is what `options.h` supposes
when it promises that no write is lost; a machine crash takes back writes that were not
synced and may take back all of MANIFEST-1. No theorem about `DBRecovery` supposes that a
file operation does not fail: what a failure costs is in the properties (section 2).

### The write path

`DBWriteProofs` proves, for every set of writers, every set of batch sizes up to
`MaxBatch` and every value of the limits (`WriterAssumption`,
`SizesAssumption`; nothing else is assumed):

| Theorem | Statement | Argument |
|---|---|---|
| `TypeCorrect` | `Spec => []TypeOK` | one case per action. A group's entries are typed because the operations of a group are finitely many (`OpsFinite`, `SequencedType`); level 0 stays a natural number because a compaction's inputs are among the files that were there when it began |
| `QueueDiscipline` | `Spec => []QueueInv` | the inductive invariant of the queue: a writer is queued exactly once and exactly while its call runs and is not done; `mutex_` belongs to the writer whose stretch holds it; whoever is past its turn is the front and not done. `OneLogger` alone is not inductive: a woken writer becomes the front only because those popped before it are done |
| `ExclusiveLogger` | `Spec => []OneLogger` | from `QueueInv` |
| `WriteAhead` | `Spec => []MemTableLogged` | by `LogInv`, which adds that a group about to be inserted is in the current log file; a switch of the log file cannot come in between because the switching writer would be a second leader (`OneLogger`) |
| `TmpBatch` | `Spec => []TmpBatchOwned` | from the queue invariant |
| `QuietClose` | `Spec => []NoWorkAfterClose` | by `CloseInv`: the flag says whether the background thread has a call |
| `LogCovers` | `Spec => []LogInv` | the invariant of `WriteAhead`, which the second part uses |

The second part of the module goes on from there:

| Theorem | Statement | Argument |
|---|---|---|
| `WriteInvariant` | `Spec => []AtomicInv` | see below |
| `OrderedLog` | `Spec => []LogOrdered` | a group is numbered above `LastSequence()` and everything else in the log is below (`NumberInv`) |
| `DurableAcknowledgement` | `Spec => []SyncedWhenAcknowledged` | `BuildBatchGroup` takes no sync write into a group whose leader does not sync, and the leader has its group's entries in `synced` from `SyncLog` on |
| `AtomicGroupCommit` | `Spec => WritesAreAtomic` | `Visible` changes at `Publish` only, by exactly the batches of the group; a flush or a compaction moves entries and shows the same |

`AtomicInv` has four parts. `LeaderInv`: the group of a leader is the queue up to
`last_writer`, and what it has built is the operations of these calls, each of which is
in one group at most because it leaves the queue with the group that served it.
`ProgressInv`: how much of the group is on disk and in the memtable at each point of
the leader's way, and what that leaves for a call that is over. `KeptInv`: what is
stored or logged comes from calls that are over and from the one leader, and each
operation is kept as one entry. `NumberInv`: nothing has a number above
`LastSequence()` but the group of the leader. That `SetSequence` numbers a group
without gaps and without repetition is a counting argument about `Ops`
(`OpsShape` and the lemmas after it).

### Recovery

`DBRecoveryProofs` proves the types (`RecoveryTypeInvariant`, `RecoveryTypes`) without
any hypothesis about crashes and faults, so also for torn and lost files. `TypeInv`
adds to the types that no stored sequence number is above the number of writes made
(`SeqBound`) and in which phase which operation can be under way (`Control`).

It then proves `Spec => [](astray = {} => DurableInv /\ SyncInv)` (`DurableInvariant`): the
process or the machine may crash between any two steps, the process also inside an
`AddRecord` of a MANIFEST, and any file operation may fail. `astray` never shrinks
(`AstrayGrows`), so the induction is over the steps before the MANIFEST in use could not
be written; while it is empty the writer of the MANIFEST is not skewed (`Straight`), and
an `AddRecord` or `Sync` of a MANIFEST went well or was one of `DB::Open`, whose new
MANIFEST is deleted again (`AppendCases`, `SyncCases`). From it follow `LiveTablesExist`,
`HeldFilesExist` and `SequenceFresh` while `astray` is empty, and `VisibleRecoverable` and
`SyncLossInTables` as they are, for every kind of crash. The other three are proved for
crashes of the process, torn MANIFESTs included (`ProcessOnly`).

The parts of `DurableInv`:

* `DiskInv`, `CurrentInv`, `EditInv`: the MANIFEST that CURRENT names can be replayed
  and says what the fields of `VersionSet` say, or is ahead of them by the one edit
  that `LogAndApply` has appended and not installed (`Appended`).
* `TablesInv`, `CallsInv`, `DoomedInv`: the tables of the versions in use, those of the
  version on disk and those being written exist, and the files that
  `DeleteObsoleteFiles` has collected are none of them, whatever a flush in the middle
  of a compaction has installed since.
* `LogsInv`, `DataInv`: the memtables are in log files that recovery will replay, and
  everything older is in tables.
* `OpenInv`, `ReplayInv`, `ApplyOpenInv`: how far `DB::Open` has come with the logs, and
  that what it has replayed is in the tables of the edit it will apply.
* `AckedInv`: unless the machine crashed, an acknowledged write is in the memtables or in
  the version (while the DB runs), or on disk (otherwise), or was given up by a `DB::Open`
  that went past it. On disk means in the tables or in the logs, read or not.

No one of the properties is inductive by itself: that no needed table is deleted
needs the disk to be at most one edit ahead, that needs the phases, and that the log
number of an edit is right needs to know which memtable the flush has taken.

A machine crash makes something else of the directory: the MANIFEST is cut to any length
from the synced one on, each log file to any prefix that has its synced records, and
tables become unreadable. `SyncInv` says beforehand what each such cut leaves:

* `ViewInv`: the first `k` records of CURRENT's MANIFEST, for every `k` that a crash may
  choose, list tables that exist, with numbers and entries below the limits they record
  (which is what makes `DiskInv` hold after the crash, and `DB::Open` give out fresh
  numbers), and every acknowledged sync write is in one of these tables or is a synced
  record of a log file that these records do not declare obsolete (`GoodView`).
* `SyncedInv`: of a running DB, every acknowledged sync write is in a table of the
  version, or in a memtable and among the synced records of that memtable's log file; of a
  `DB::Open` that is writing its MANIFEST, it is in a table of the edit.

While the DB runs, `ViewInv` for the whole MANIFEST is a consequence of the rest
(`FullView`), so there is something to show for the shorter cuts only, and they exist only
between the `AddRecord` and the `Sync` of `LogAndApply`: the MANIFEST without the new
record was good, and the files it needs are deleted after the `Sync`. `CURRENT` moves
to a MANIFEST that is synced, of which there is one cut (`OneView`). The step of a machine
crash needs both invariants, `DurableInv` for the tables and `SyncInv` for the cut, so
that they are proved by one induction (`MachineCrashDurable`, `MachineCrashSync`).

### The log format

`LogFormatProofs` proves `Spec => []LogInv` and from it `NoPhantom`, for every size of
blocks, headers and regions, every sequence of record sizes, every number of failed
appends, and every way in which writing ends. After a failed append the writer's idea
of where a block begins and the reader's differ, and after a power loss there are
zeros in the middle of the file; nothing is said about where fragments are. What holds
all the same is `Chained`: when a whole fragment is followed, less than a header
behind its end, by a header of type middle or last, that header is the one of the next
fragment of the same record. A step of the writer keeps it because a fragment that is
not the first of its record is appended directly behind the one before (`WriterInv`)
and two whole fragments do not overlap (`Overlap`); a crash keeps it because it only
takes cells away (`Pruned`). The reader that is inside a record stands behind such a
fragment, by less than a header when it has dropped the rest of a block (`ReaderInv`),
and drops the record when it skips more than that.

`ReadBack` and `CleanIsSilent` are about files without a failed append or read, and follow
from `Spec => []CleanInv`, which is only about those and rests on `LogInv`. There the
writer and the reader agree on where blocks begin:

* `Linked`: every whole fragment ends inside its block, and where the writer puts the
  one behind it (`After`: there, or at the next block when less than a header is left)
  a whole fragment is the one that has to come: the next of the record, or the first of
  the next record.
* `WriterEnd`: only the last fragment written has no successor; it ends at the end of
  the file, `block_offset_` is where that is in its block, and its record and type tell
  how far `AddRecord` has come.
* `Finished`: what Close or a kill leaves of it. Behind the fragment without a
  successor no block begins with a fragment, every acknowledged record is complete with
  it, and nothing but zeros up to the end of a region follows if no record was torn.
* `Reading`: the reader has read nothing, or it stands behind a fragment and has
  returned exactly the records complete up to there, or it is beyond the last one and
  has returned every acknowledged record.

A header at which the reader stands passes its checks exactly when a whole fragment is
there (`IntactIs`, `WholeIntact`), so a step of the reader goes from a fragment to its
successor or, where there is none, beyond the last (`Expected`, `NotIntact`). The
reader reports nothing in a file without a torn record because it meets only zeros
there, and no truncated header: the file ends with a fragment or with a whole block
(`AtEnd`).

### The level tree

`LevelTreeProofs` proves `Spec => []TreeInv`, and from it `LevelsDisjoint`, `NewerAbove`
and `ReadsNewest`, without hypothesis. Since outputs may be cut inside a user key, two
tables of a level may have that key in common: `SortedInv` says that one of any two
precedes the other in internal keys (`Precede`) and that a key they share is in `split`
(`Share`). A flush may put its table below level 0 in the middle of a compaction of
the same levels; nothing in the code excludes it. It does no harm because the inputs of
a compaction leave no gap (`Connected`): `SetupOtherInputs` takes all tables of the next
level in the range of those of the first, so a table that does not overlap any input
lies on one side of all of them, sharing with them at most keys of `split`
(`CompactionInv`, `Follow`). `ReadsNewest` needs `KeptInv`: of each key the newest write
that some reader can see is stored, or it is a deletion that has nothing left to hide,
up to `split`. Dropping an entry keeps that because another one of the same
key comes before it in the merge at or below `smallest_snapshot`, or because no deeper
level has the key.

### The iterator

`DBIteratorProofs` proves `Spec => []MergeInv` and from it `NothingSkipped`, without
hypothesis. `InPlace` says that in the direction of the merging iterator each child
stands at its first entry beyond `key()`, but for entries inserted since. It is kept by
`Next` and `Prev`, including the change of direction, for the same reason in each case:
the entries that are to come are the same before and after the step except the one
left, and the child that stands nearest is chosen (`GatherForward`, `GatherReverse`).

The refinement of `SnapshotCursor` adds `CursorInv`, for every client. `Wanted` are the
keys of the snapshot that the call may show. Forwards (`Forward`), none of their newest entries
has been passed or is hidden by `skip`, and an entry of the current key that was passed
hides the rest of it; so the first entry that is visible, a value and not hidden is the
newest of the least key wanted. Backwards (`Backward`), of the keys wanted only the one
saved has been passed, and the entry saved is the last one passed; so when the user key
changes it is the newest of the largest key wanted. `Standing` is what the next call
needs: a backward iterator has `iter_` before the entries of the key it shows, with none of
the snapshot in between. When `Next` turns round there, it comes to an entry of that key
(`Turned`), or to one inserted since of a key before it: that is the slip, and then the
first entry of the snapshot that comes is the one that was shown (`SlippedBack`). A
backward move that is `Caught` stays where it is, which keeps everything. Insertions
keep the map of the snapshot because their numbers are above `sequence_` (`SameView`).

### The skip list

`SkipListProofs` proves, for every set of positive keys, every set of readers and
every maximal height (`KeysAssumption`, `HeightAssumption`, `WriterAssumption`):

| Theorem | Statement | Argument |
|---|---|---|
| `TypeCorrect` | `Spec => []TypeOK` | part of the inductive invariant: that a search never loads `Junk` depends on where it is |
| `SortedLevels` | `Spec => []ListsNested` | from `ListInv` |
| `NoJunkRead` | `Spec => []ReadsInitialised` | `SearchInv` says that a search stands at a node that is linked in the level it is in; `ListInv` that such a node's link is set |
| `Linearizable` | `Spec => AnswersExactly` | every step maps to a step of `OrderedSet` or a stutter: only `Publish` at level 0 changes `Linked(0)`, and the last load of a search determines the neighbour exactly because level 0 has no gaps |

The inductive invariant is `IInv == TypeOK /\ ListInv /\ WriterInv /\ SearchInv`.
`ListsNested` is not inductive: that `Publish` keeps a level sorted needs that the
new key still belongs between `prev[i]` and its successor (`PrevRight`), for all
levels not linked yet, and that the node's link was set to that successor
(`WriterInv`); that a reader finds nothing unwritten below needs that the levels are
nested also while the node is in some of them only, and that levels from
`max_height_` on are empty, which makes `head_` the right predecessor there.

### The cache

`LRUCacheProofs` proves `Spec => []IInv` for all readers and files, every charge, hash
function, first length and capacity (`CacheAssumption`: the sets are finite and there
is a file), and from it the four properties of `cache_sharing`. The centre is
`CacheInv(c, held)`: what holds of a cache of which the readers hold the references
`held`. The list has no handle twice and one entry of a key (`OnePerKey`), `refs` is
`held` and one for the list, each chain is exactly what belongs there of the list
(`InPlace`), `usage_` is the sum of the charges (`UsageExact`). `Lookup`, `Insert`,
`Release` and `Erase` each take one such cache to another, with `held` changed at one
handle; between the steps of `Insert` it does not hold, when the new entry is linked
and not in the table, or the replaced one is in the list and not in the table.

The loops are recursive functions, and the provers have no induction over them. The
argument that replaces it is the least counterexample (`Least`): that the function
exists (`EvictionsDef` and the lemmas like it), that `CacheInv` holds after each
eviction and the list is one shorter (`EvictionsKeep`), so that the loop of `Insert`
ends with a cache that is small enough or empty (`ShrunkKeeps`); that a length tried by
`Resize` is large enough (`NewLengthEnough`); that a sum changes by what one charge
does (`SumChanged`).

`IInv` adds what the clients do: a reader that is not idle wants a file that is not
deleted, and its handle is one of that file (`ReadersSafe`), so that `Evict` meets an
entry that only the list refers to, or none. A free handle exists whenever a reader
inserts (`FreeHandle`), because the entries are those of the list, one per file, and
those in use, one per reader.

### Tables

`TableBuilderProofs` proves `BlocksReadBack`: `Spec => []EntriesKept`, for all keys,
values and sets of options (`TableAssumption`), with failing file operations and options
that change inside a block. The hypothesis `SizesFit` says that a block that is one entry
over its size fits into the 32 bits of the format's numbers.

The argument goes up the layers of the format. A varint of at most five bytes decodes to
what was put (`VarintReadBack`): `Coded` lists what is left of the number after each
byte. So does a fixed32 (`Fixed32ReadBack`). `EntryAt` says that an entry is stored
between two offsets of a buffer after some key; `DecodeEntry` then returns its header and
`ParseNextKey` the entry (`ParseEntryAt`). `BlockInv(b, es)` says that the entries `es`
are stored in `b` one behind the other, each after the key of the one before it, and that
every restart point is one of them that shares nothing. `BlockBuilder::Add` keeps it with
one entry more, whatever the interval is at that moment (`BlockAdded`), and the walk over
the finished block finds exactly `es` (`WalkFindsAll`, `BlockReadBack`).

`EntriesKept` itself is not inductive: that the file holds the contents of blocks says
nothing about what the next bytes may overwrite, and that the block being built can be
read back says nothing about it with one more entry. `TableInv` says instead that
`current` is laid out in the data block, that every block written is a piece of the file
with its trailer behind it (`Stored`), and that `offset` is where the file ends. All
operations only append (`Grown`); what index, filter and metaindex contain does not
matter here, only that they are strings.

`FinishedTableWhole` proves `Spec => [](Len(rep.file) < Max32 => FinishedWhole)` under the
same hypothesis: a file below 4 GB that `Finish` calls good ends in a footer that leads to
an index with ascending keys, in which the first entry for each block has a key not less
than the keys of the block and less than all that follow. The bound on the file is there
because the varints of a handle are modelled with at most five bytes. `TableAssumption`
says that keys are internal keys, that is, end in a tag of eight bytes.

Below the index is the order of internal keys: it is transitive and irreflexive
(`KeyTransitive`), `FindShortestSeparator` stays between its two keys (`SeparatorOrder`)
and `FindShortSuccessor` does not go below its key (`SuccessorOrder`). The index block may
hold several entries for a block, since `Add` never resets `pending_index_entry` (section
5), so an entry is not the one for the block of the same number. `IndexMap` has a sequence
beside the entries that says which block each one leads to; every block but the last has a
first entry with the order above, and the last has none exactly as long as no key was added
behind it. `IndexState` joins this with what must be known to make the next entry: all keys
so far are up to `last_key` and the index is below it, the handle pending is the last
block's, and the blocks lie in the file one behind the other (`Placed`), so that no two have
the same handle. `WholeFile` says what `Finish` makes of it: the file ends in the footer of
two handles into the file, the second to a block whose entries are the whole index. `IndexInv`
is inductive on top of `TableInv`, and `WholeRead` decodes the footer and the index from the
bytes.

`FiltersCoverKeys` proves `Spec => [](Len(rep.file) < Max32 => FilterCovers)` from the same
hypothesis and one on the length of `FilterName`; `TableAssumption` says that the hash of a
user key is a number, whatever number. A key's bits are set in the filter made of it, so
`KeyMayMatch` of the policy lets it through (`BloomMatches`). `Covered(f, idx, u)` says that
a key waits for filter `idx`, which is the next one to be made, or that filter `idx` is made
and lets the key through; `GenerateFilter` turns the one into the other and `StartBlock` does
so until the next filter is that of the block's offset (`StartCovers`). `FilterState` is the
inductive part: there are as many filters as `FiltersBefore` the end of the file, and all
keys are covered at the offset of their block, those of the block being built at the end of
the file. It rests on `Flush` calling `StartBlock` after every block and on `Add` calling
`AddKey` before the block can be written. `FilterStored` says what `Finish` writes: the
footer leads to a metaindex block of one entry, and that to the filter block. The reader's
arithmetic, from the last word to the two offsets around a filter, is `FilterRead`.

### What is only model-checked

Liveness: `WritersReturn`, `CloseReturns`, `ReadingEnds`, `CallsReturn` and
`SearchesReturn`. Fairness and `ENABLED` are out of the prover's reach. Every safety
property of a passing run is stated by a theorem; `LiveTablesExist`, `HeldFilesExist` and
`SequenceFresh` are proved up to the first failure of the MANIFEST in use, and checked by
TLC beyond it.

Induction over data is out of the prover's reach; where a proof needs it, for a recursive
function, a walk or a sum, it looks at the least number for which the claim would fail.
The least and the largest of a set of numbers are library operators defined by `CHOOSE`;
`MinNat` and `MaxNat` show that they exist, from the well-foundedness of the natural
numbers.

## 7. Not modelled

* The table reader beyond taking entries apart, and `TwoLevelIterator` over it: as
  written they cannot find the entries of any block (section 5), so there is nothing
  to state that would hold; they come once the code is repaired.
* The codec of `VersionEdit` and the list of versions with its counts: planned.
* `DestroyDB`, lock files, the info log, mmap limits: I/O around a closed or
  single DB.
* Checksums, hashing, `Status`, options: values and byte functions without a
  protocol; `LogFormat` takes a checksum to be exact. The arena only allocates.
* Manual compaction: `manual_compaction_` is never set in this repository.

## 8. Plan

1. The codec of `VersionEdit`; version reference counts.
2. Composition: `LevelTree` with reads that hold a version.
3. `Block::Iter`, `Table` and `TwoLevelIterator` over the files of `TableBuilder`.
