------------------------------ MODULE DBWrite ------------------------------
(***************************************************************************)
(* The write path of DBImpl (db/db_impl.cpp): the queue of writers, group  *)
(* commit, MakeRoomForWrite, and the background thread that flushes the    *)
(* immutable memtable and compacts level 0.                                *)
(*                                                                         *)
(* Threads: one per Write() call, one that calls Get(), the background     *)
(* thread of Env and the thread that deletes the DB.  A step is one stretch *)
(* of code between two points where another thread can run: a stretch that *)
(* holds mutex_, or one unlocked operation (AddRecord, Sync, one memtable   *)
(* insertion, BuildTable, a MANIFEST write, a sleep).  Inside Write() the   *)
(* stretch that holds mutex_ is cut again at the statements a reader knows  *)
(* (queue, room, build, pop); mutex_ then names the writer that holds it.  *)
(*                                                                         *)
(* Data: a batch is the number of its operations; an operation that was    *)
(* given a sequence number is an entry [seq, w, i], the i-th operation of  *)
(* the batch of Write() call w.  Byte sizes are counted in operations.     *)
(***************************************************************************)
EXTENDS Integers, Sequences, FiniteSets

CONSTANTS
  Writer,           \* the Write() calls; each owns one Writer struct
  Batches,          \* the batches a caller may pass: sizes, or NullBatch
  MaxBatch,         \* bound: the operations of a batch (its count is a fixed32)
  SyncOptions,      \* the values of WriteOptions::sync that callers pass
  WriteBufferSize,  \* options_.write_buffer_size, in memtable entries
  GroupGrowth,      \* 128 << 10 of BuildBatchGroup
  GroupMax,         \* 1 << 20 of BuildBatchGroup
  L0Compaction,     \* config::kL0_CompactionTrigger
  L0Slowdown,       \* config::kL0_SlowdownWritesTrigger
  L0Stop,           \* config::kL0_StopWritesTrigger
  ParanoidChecks,   \* options_.paranoid_checks
  MaxEvents         \* bound: I/O errors, spurious wakeups and Get() calls

NullBatch == -1

ASSUME WriterAssumption ==
  /\ "none" \notin Writer
  /\ "background" \notin Writer

ASSUME SizesAssumption ==
  /\ MaxBatch \in Nat
  /\ Batches \subseteq 0..MaxBatch \cup {NullBatch}
  /\ SyncOptions \subseteq BOOLEAN
  /\ WriteBufferSize \in Nat
  /\ GroupGrowth \in Nat
  /\ GroupMax \in Nat
  /\ L0Compaction \in Nat \ {0}
  /\ L0Slowdown \in Nat
  /\ L0Stop \in Nat
  /\ ParanoidChecks \in BOOLEAN
  /\ MaxEvents \in Nat

VARIABLES
  mutex_,        \* the writer that holds mutex_ between two of its steps,
                 \* "background" in BackgroundCall, or "none"
  pc,            \* where each Write() call is
  batch, sync,   \* Writer::batch, Writer::sync
  done, status,  \* Writer::done, Writer::status
  force, allow_delay,         \* locals of MakeRoomForWrite
  updates, last_writer, seq,  \* locals of Write: the group's entries, its
                              \* last writer, the local last_sequence
  writers_,      \* std::deque<Writer*>
  tmp_batch_,    \* tmp_batch_ holds operations
  last_sequence, \* versions_->LastSequence()
  log_,          \* the records of the current log file, each a set of entries
  synced,        \* the entries an fsync of a log file has covered
  mem_,          \* the entries of the memtable
  has_imm_,      \* imm_ # NULL
  imm_,          \* the entries of the immutable memtable
  tables,        \* the entries of the installed table files
  level0,        \* versions_->NumLevelFiles(0)
  seek,          \* current()->file_to_compact_ # NULL
  large,         \* a level of current() below level 0 is over its size
  bg_compaction_scheduled_,
  bg_error_,     \* ~bg_error_.ok()
  shutting_down_,
  bg,            \* where the background thread is
  merging,       \* it is inside DoCompactionWork
  inputs,        \* the level-0 files that compaction replaces
  get,           \* a Get(): "idle", or reading from the "current" version or
                 \* from an "old" one
  close,         \* ~DBImpl()
  events         \* the events of MaxEvents that remain

queueVars == <<batch, sync, done, status, writers_>>
localVars == <<force, allow_delay, updates, last_writer, seq, tmp_batch_>>
dataVars  == <<last_sequence, log_, synced, mem_, has_imm_, imm_, tables>>
bgVars    == <<level0, seek, large, bg_compaction_scheduled_, bg_error_, bg,
               merging, inputs>>
userVars  == <<get, close, shutting_down_>>
vars == <<mutex_, pc, queueVars, localVars, dataVars, bgVars, userVars, events>>

Entry == [seq : Nat, w : Writer, i : Nat]

\* Where a Write() call can be: the statements between which other threads run.
Holding == {"queue", "room", "build", "pop"}
Logging == {"log", "sync", "insert", "relock"}
Waiting == {"cv_wait", "cv_woken", "bg_wait", "bg_woken", "delay"}
Location == {"idle", "returned"} \cup Holding \cup Logging \cup Waiting

Init ==
  /\ mutex_ = "none"
  /\ pc = [w \in Writer |-> "idle"]
  /\ batch = [w \in Writer |-> NullBatch]
  /\ sync = [w \in Writer |-> FALSE]
  /\ done = [w \in Writer |-> FALSE]
  /\ status = [w \in Writer |-> "ok"]
  /\ force = [w \in Writer |-> FALSE]
  /\ allow_delay = [w \in Writer |-> FALSE]
  /\ updates = [w \in Writer |-> {}]
  /\ last_writer = [w \in Writer |-> w]
  /\ seq = [w \in Writer |-> 0]
  /\ writers_ = << >>
  /\ tmp_batch_ = FALSE
  /\ last_sequence = 0
  /\ log_ = << >>
  /\ synced = {}
  /\ mem_ = {}
  /\ has_imm_ = FALSE
  /\ imm_ = {}
  /\ tables = {}
  /\ level0 = 0
  /\ seek = FALSE
  /\ large = FALSE
  /\ bg_compaction_scheduled_ = FALSE
  /\ bg_error_ = FALSE
  /\ shutting_down_ = FALSE
  /\ bg = "idle"
  /\ merging = FALSE
  /\ inputs = 0
  /\ get = "idle"
  /\ close = "open"
  /\ events = MaxEvents

-----------------------------------------------------------------------------
(* Condition variables and the mutex (port/port.cpp).                      *)

Lock(t) == mutex_ = "none" /\ mutex_' = t
Unlock(t) == mutex_ = t /\ mutex_' = "none"
Locked(t) == mutex_ = t /\ UNCHANGED mutex_
\* A stretch that takes mutex_ and releases it again.
Critical == mutex_ = "none" /\ UNCHANGED mutex_

\* The locations after bg_cv_.SignalAll(): whoever waits on bg_cv_ may run again.
SignalAll(p) ==
  [w \in Writer |-> IF p[w] = "bg_wait" THEN "bg_woken" ELSE p[w]]
SignalClose_None == UNCHANGED close
SignalClose == close' = IF close = "wait" THEN "woken" ELSE close

\* Spending one of the injected events; an I/O call may fail while some remain.
Spend == events > 0 /\ events' = events - 1
Outcome(ok) == IF ok THEN UNCHANGED events ELSE Spend

-----------------------------------------------------------------------------
(* Scheduling background work (db_impl.cpp:501-546).                       *)

\* Finalize(): the best compaction_score_ of current() is at least 1.
SizeCompaction == level0 >= L0Compaction \/ large
NeedsCompaction == SizeCompaction \/ seek

\* MaybeScheduleCompaction() with the given values of the state it reads.
ShouldSchedule(scheduled, imm, needs) ==
  ~scheduled /\ ~shutting_down_ /\ (imm \/ needs)

\* PosixEnv::Schedule(): the background thread will call BackgroundCall().
Scheduled(go, otherwise) == IF go THEN "queued" ELSE otherwise

-----------------------------------------------------------------------------
(* DBImpl::Write (db_impl.cpp:1018-1078).                                  *)

\* Write() is called: it locks mutex_ and joins the queue.
Enqueue(w) ==
  /\ pc[w] = "idle"
  /\ close = "open"
  /\ Lock(w)
  /\ \E b \in Batches, s \in SyncOptions :
       /\ batch' = [batch EXCEPT ![w] = b]
       /\ sync' = [sync EXCEPT ![w] = s]
  /\ done' = [done EXCEPT ![w] = FALSE]
  /\ writers_' = Append(writers_, w)
  /\ pc' = [pc EXCEPT ![w] = "queue"]
  /\ UNCHANGED <<status, localVars, dataVars, bgVars, userVars, events>>

\* while (!w.done && &w != writers_.front()) w.cv.Wait();
WaitTurn(w) ==
  /\ pc[w] = "queue"
  /\ ~done[w] /\ w # Head(writers_)
  /\ Unlock(w)
  /\ pc' = [pc EXCEPT ![w] = "cv_wait"]
  /\ UNCHANGED <<queueVars, localVars, dataVars, bgVars, userVars, events>>

ResumeAt_If(w) == "room"
\* A woken writer takes mutex_ again and tests its condition again.
ResumeAt(w) == IF pc[w] = "cv_woken" THEN "queue" ELSE "room"
Wake(w) ==
  /\ pc[w] \in {"cv_woken", "bg_woken"}
  /\ Lock(w)
  /\ pc' = [pc EXCEPT ![w] = ResumeAt(w)]
  /\ UNCHANGED <<queueVars, localVars, dataVars, bgVars, userVars, events>>

\* pthread_cond_wait may return without a signal.
SpuriousWake(w) ==
  /\ pc[w] \in {"cv_wait", "bg_wait"}
  /\ pc' = [pc EXCEPT ![w] = IF pc[w] = "cv_wait" THEN "cv_woken" ELSE "bg_woken"]
  /\ Spend
  /\ UNCHANGED <<mutex_, queueVars, localVars, dataVars, bgVars, userVars>>

\* Another writer did the work: if (w.done) return w.status;
ReturnDone(w) ==
  /\ pc[w] = "queue"
  /\ done[w]
  /\ Unlock(w)
  /\ pc' = [pc EXCEPT ![w] = "returned"]
  /\ UNCHANGED <<queueVars, localVars, dataVars, bgVars, userVars, events>>

\* The writer at the front calls MakeRoomForWrite(my_batch == NULL).
Lead(w) ==
  /\ pc[w] = "queue"
  /\ ~done[w] /\ w = Head(writers_)
  /\ Locked(w)
  /\ force' = [force EXCEPT ![w] = (batch[w] = NullBatch)]
  /\ allow_delay' = [allow_delay EXCEPT ![w] = (batch[w] # NullBatch)]
  /\ last_writer' = [last_writer EXCEPT ![w] = w]
  /\ pc' = [pc EXCEPT ![w] = "room"]
  /\ UNCHANGED <<queueVars, updates, seq, tmp_batch_, dataVars, bgVars,
                 userVars, events>>

-----------------------------------------------------------------------------
(* DBImpl::MakeRoomForWrite (db_impl.cpp:1131-1189): one action per branch. *)

MustDelay(w) == allow_delay[w] /\ level0 >= L0Slowdown
HasRoom(w) == ~force[w] /\ Cardinality(mem_) <= WriteBufferSize

BackgroundError(w) ==
  /\ pc[w] = "room"
  /\ bg_error_
  /\ Locked(w)
  /\ status' = [status EXCEPT ![w] = "error"]
  /\ pc' = [pc EXCEPT ![w] = "pop"]
  /\ UNCHANGED <<batch, sync, done, writers_, localVars, dataVars, bgVars,
                 userVars, events>>

Delay(w) ==
  /\ pc[w] = "room"
  /\ ~bg_error_ /\ MustDelay(w)
  /\ Unlock(w)
  /\ allow_delay' = [allow_delay EXCEPT ![w] = FALSE]
  /\ pc' = [pc EXCEPT ![w] = "delay"]
  /\ UNCHANGED <<queueVars, force, updates, last_writer, seq, tmp_batch_,
                 dataVars, bgVars, userVars, events>>

DelayOver(w) ==
  /\ pc[w] = "delay"
  /\ Lock(w)
  /\ pc' = [pc EXCEPT ![w] = "room"]
  /\ UNCHANGED <<queueVars, localVars, dataVars, bgVars, userVars, events>>

\* There is room: go on, to the queue's end for a NULL batch.
Room(w) ==
  /\ pc[w] = "room"
  /\ ~bg_error_ /\ ~MustDelay(w) /\ HasRoom(w)
  /\ Locked(w)
  /\ status' = [status EXCEPT ![w] = "ok"]
  /\ pc' = [pc EXCEPT ![w] = IF batch[w] = NullBatch THEN "pop" ELSE "build"]
  /\ UNCHANGED <<batch, sync, done, writers_, localVars, dataVars, bgVars,
                 userVars, events>>

\* bg_cv_.Wait(): the previous memtable is still there, or level 0 is full.
WaitBackground(w) ==
  /\ pc[w] = "room"
  /\ ~bg_error_ /\ ~MustDelay(w) /\ ~HasRoom(w)
  /\ has_imm_ \/ level0 >= L0Stop
  /\ Unlock(w)
  /\ pc' = [pc EXCEPT ![w] = "bg_wait"]
  /\ UNCHANGED <<queueVars, localVars, dataVars, bgVars, userVars, events>>

MaySwitch_IgnoreImm(w) ==
  /\ ~bg_error_ /\ ~MustDelay(w) /\ ~HasRoom(w)
  /\ level0 < L0Stop
\* Switch to a new log file and memtable.  Nothing schedules the flush of imm_.
MaySwitch(w) ==
  /\ ~bg_error_ /\ ~MustDelay(w) /\ ~HasRoom(w)
  /\ ~has_imm_ /\ level0 < L0Stop

SwitchMemTable(w) ==
  /\ pc[w] = "room"
  /\ MaySwitch(w)
  /\ Locked(w)
  /\ log_' = << >>
  /\ imm_' = mem_
  /\ has_imm_' = TRUE
  /\ mem_' = {}
  /\ force' = [force EXCEPT ![w] = FALSE]
  /\ UNCHANGED <<pc, queueVars, allow_delay, updates, last_writer, seq,
                 tmp_batch_, last_sequence, synced, tables, bgVars, userVars,
                 events>>

\* The new log file could not be created.
SwitchFails(w) ==
  /\ pc[w] = "room"
  /\ MaySwitch(w)
  /\ Spend
  /\ Locked(w)
  /\ status' = [status EXCEPT ![w] = "error"]
  /\ pc' = [pc EXCEPT ![w] = "pop"]
  /\ UNCHANGED <<batch, sync, done, writers_, localVars, dataVars, bgVars,
                 userVars>>

-----------------------------------------------------------------------------
(* DBImpl::BuildBatchGroup (db_impl.cpp:1082-1127) and WriteBatch.         *)

\* The operations of the first k writers of the queue, in order.
Ops(k) == UNION {{<<j, i>> : i \in 1..batch[writers_[j]]} : j \in 1..k}
Before(o, p) == o[1] < p[1] \/ (o[1] = p[1] /\ o[2] < p[2])

ByteSize(w) == 1 + batch[w]
GroupBytes(k) ==
  Cardinality(Ops(k)) + Cardinality({j \in 1..k : batch[writers_[j]] # NullBatch})
MaxSize ==
  LET size == ByteSize(writers_[1])
  IN  IF size <= GroupGrowth THEN size + GroupGrowth ELSE GroupMax

Joins_AnySync(j) == batch[writers_[j]] # NullBatch => GroupBytes(j) <= MaxSize
\* The loop of BuildBatchGroup passes over the writer at position j.
Joins(j) ==
  /\ ~(sync[writers_[j]] /\ ~sync[writers_[1]])
  /\ batch[writers_[j]] # NullBatch => GroupBytes(j) <= MaxSize

\* *last_writer is at position k when the loop ends.
GroupEnds(k) ==
  /\ \A j \in 2..k : Joins(j)
  /\ k < Len(writers_) => ~Joins(k + 1)

\* SetSequence(updates, s + 1): the group's entries.
Sequenced(k, s) ==
  {[seq |-> s + 1 + Cardinality({p \in Ops(k) : Before(p, o)}),
    w |-> writers_[o[1]],
    i |-> o[2]] : o \in Ops(k)}

\* Is a second batch appended to the group, so that it lives in tmp_batch_?
Appended(k) == \E j \in 2..k : batch[writers_[j]] # NullBatch

BuildBatchGroup(w) ==
  /\ pc[w] = "build"
  /\ Unlock(w)
  /\ \E k \in 1..Len(writers_) :
       /\ GroupEnds(k)
       /\ last_writer' = [last_writer EXCEPT ![w] = writers_[k]]
       /\ updates' = [updates EXCEPT ![w] = Sequenced(k, last_sequence)]
       /\ seq' = [seq EXCEPT ![w] = last_sequence + Cardinality(Ops(k))]
       /\ tmp_batch_' = (tmp_batch_ \/ Appended(k))
  /\ pc' = [pc EXCEPT ![w] = "log"]
  /\ UNCHANGED <<queueVars, force, allow_delay, dataVars, bgVars, userVars,
                 events>>

-----------------------------------------------------------------------------
(* The unlocked part of Write(): log, sync, insert.                        *)

AfterLog_IgnoreError(w, ok) == IF sync[w] THEN "sync" ELSE "insert"
\* Where Write() goes on after AddRecord().
AfterLog(w, ok) ==
  CASE ~ok -> "relock"
    [] ok /\ sync[w] -> "sync"
    [] OTHER -> "insert"

\* log_->AddRecord(): after an error the record may or may not be in the file.
AddRecord(w) ==
  /\ pc[w] = "log"
  /\ \E ok \in BOOLEAN :
       /\ Outcome(ok)
       /\ log_' = Append(log_, updates[w]) \/ (~ok /\ log_' = log_)
       /\ status' = [status EXCEPT ![w] = IF ok THEN "ok" ELSE "error"]
       /\ pc' = [pc EXCEPT ![w] = AfterLog(w, ok)]
  /\ UNCHANGED <<mutex_, batch, sync, done, writers_, localVars, last_sequence,
                 synced, mem_, has_imm_, imm_, tables, bgVars, userVars>>

\* logfile_->Sync() covers every record of the file.
SyncLog(w) ==
  /\ pc[w] = "sync"
  /\ \E ok \in BOOLEAN :
       /\ Outcome(ok)
       /\ synced' = IF ok THEN synced \cup UNION {log_[r] : r \in DOMAIN log_}
                          ELSE synced
       /\ status' = [status EXCEPT ![w] = IF ok THEN "ok" ELSE "error"]
       /\ pc' = [pc EXCEPT ![w] = IF ok THEN "insert" ELSE "relock"]
  /\ UNCHANGED <<mutex_, batch, sync, done, writers_, localVars, last_sequence,
                 log_, mem_, has_imm_, imm_, tables, bgVars, userVars>>

\* WriteBatchInternal::InsertInto(updates, mem_), one operation a step.
Insert(w) ==
  /\ pc[w] = "insert"
  /\ \E e \in updates[w] \ mem_ :
       /\ \A f \in updates[w] \ mem_ : e.seq <= f.seq
       /\ mem_' = mem_ \cup {e}
  /\ UNCHANGED <<mutex_, pc, queueVars, localVars, last_sequence, log_, synced,
                 has_imm_, imm_, tables, bgVars, userVars, events>>

InsertDone(w) ==
  /\ pc[w] = "insert"
  /\ updates[w] \subseteq mem_
  /\ pc' = [pc EXCEPT ![w] = "relock"]
  /\ UNCHANGED <<mutex_, queueVars, localVars, dataVars, bgVars, userVars, events>>

TmpBatchAfter_Ok(w) == tmp_batch_ /\ status[w] # "ok"
\* if (updates == tmp_batch_) tmp_batch_->Clear(): it is empty otherwise.
TmpBatchAfter(w) == FALSE
LastSequenceAfter_Ok(w) == IF status[w] = "ok" THEN seq[w] ELSE last_sequence
\* SetLastSequence(last_sequence), whatever the status.
LastSequenceAfter(w) == seq[w]

\* mutex_.Lock() after the unlocked part: readers see the group from here on.
Publish(w) ==
  /\ pc[w] = "relock"
  /\ Lock(w)
  /\ tmp_batch_' = TmpBatchAfter(w)
  /\ last_sequence' = LastSequenceAfter(w)
  /\ pc' = [pc EXCEPT ![w] = "pop"]
  /\ UNCHANGED <<queueVars, force, allow_delay, updates, last_writer, seq, log_,
                 synced, mem_, has_imm_, imm_, tables, bgVars, userVars, events>>

\* The writers of the group that ends at position k, but w.
Members(w, k) == {writers_[j] : j \in 1..k} \ {w}
Signalled_Members(w, k) == Members(w, k)
\* Whose cv is signalled: the group's and that of the new front of the queue.
Signalled(w, k) ==
  Members(w, k) \cup (IF k < Len(writers_) THEN {writers_[k + 1]} ELSE {})

\* Pop the group, hand its members the status, wake them and the new front.
Pop(w) ==
  /\ pc[w] = "pop"
  /\ Unlock(w)
  /\ \E k \in 1..Len(writers_) :
       /\ writers_[k] = last_writer[w]
       /\ \A j \in 1..k-1 : writers_[j] # last_writer[w]
       /\ writers_' = SubSeq(writers_, k + 1, Len(writers_))
       /\ done' = [x \in Writer |-> done[x] \/ x \in Members(w, k)]
       /\ status' = [x \in Writer |->
                       IF x \in Members(w, k) THEN status[w] ELSE status[x]]
       /\ pc' = [x \in Writer |->
                   IF x = w THEN "returned"
                   ELSE IF x \in Signalled(w, k) /\ pc[x] = "cv_wait"
                   THEN "cv_woken"
                   ELSE pc[x]]
  /\ UNCHANGED <<batch, sync, localVars, dataVars, bgVars, userVars, events>>

-----------------------------------------------------------------------------
(* Get() and UpdateStats (db_impl.cpp:942-987): what it does to scheduling. *)

GetBegin ==
  /\ get = "idle"
  /\ close = "open"
  /\ Critical
  /\ Spend
  /\ get' = "current"
  /\ UNCHANGED <<pc, queueVars, localVars, dataVars, bgVars, close, shutting_down_>>

\* UpdateStats: the read used up the last allowed seek of a file of the version
\* it holds (charged), or not; file_to_compact_ is set once.
GetEnd(charged) ==
  /\ get # "idle"
  /\ charged /\ get = "current" => ~seek
  /\ Critical
  /\ get' = "idle"
  /\ seek' = (seek \/ (charged /\ get = "current"))
  /\ LET go == charged /\ ShouldSchedule(bg_compaction_scheduled_, has_imm_,
                                         SizeCompaction \/ seek')
     IN  /\ bg_compaction_scheduled_' = (bg_compaction_scheduled_ \/ go)
         /\ bg' = Scheduled(go, bg)
  /\ UNCHANGED <<pc, queueVars, localVars, dataVars, level0, large, bg_error_,
                 merging, inputs, close, shutting_down_, events>>

-----------------------------------------------------------------------------
(* The background thread (db_impl.cpp:468-628, 744-892).                   *)

\* A new Version is current: file_to_compact_ is NULL, held versions are old; a
\* deeper level may have become too large (big).
NewVersion(big) ==
  /\ seek' = FALSE
  /\ large' = big
  /\ get' = IF get = "current" THEN "old" ELSE get

\* BackgroundCall() takes mutex_; CompactMemTable() comes first.
BgFlush ==
  /\ \/ bg = "queued" /\ ~shutting_down_
     \/ bg = "merge" /\ ~shutting_down_   \* DoCompactionWork checks has_imm_
  /\ has_imm_
  /\ Critical
  /\ bg' = "build"
  /\ UNCHANGED <<pc, queueVars, localVars, dataVars, level0, seek, large,
                 bg_compaction_scheduled_, bg_error_, merging, inputs, userVars,
                 events>>

\* PickCompaction() found work; some level-0 files are among its inputs.
BgCompact ==
  /\ bg = "queued" /\ ~shutting_down_ /\ ~has_imm_
  /\ NeedsCompaction
  /\ Critical
  /\ bg' = "merge"
  /\ merging' = TRUE
  /\ inputs' \in IF level0 >= L0Compaction /\ ~large THEN 1..level0
               ELSE 0..level0
  /\ UNCHANGED <<pc, queueVars, localVars, dataVars, level0, seek, large,
                 bg_compaction_scheduled_, bg_error_, userVars, events>>

\* The DB is being deleted, or there is nothing to do.
BgNothing ==
  /\ bg = "queued"
  /\ shutting_down_ \/ (~has_imm_ /\ ~NeedsCompaction)
  /\ Lock("background")
  /\ bg' = "finish"
  /\ UNCHANGED <<pc, queueVars, localVars, dataVars, level0, seek, large,
                 bg_compaction_scheduled_, bg_error_, merging, inputs, userVars,
                 events>>

\* An error reached BackgroundCall(): signal, then sleep a second; when the DB
\* is being deleted do not wait.
BgFails ==
  /\ bg' = IF shutting_down_ THEN "finish" ELSE "sleep"
  /\ IF shutting_down_ THEN Lock("background") ELSE Critical
  /\ pc' = IF shutting_down_ THEN pc ELSE SignalAll(pc)
  /\ IF shutting_down_ THEN UNCHANGED close ELSE SignalClose

\* CompactMemTable() is over inside DoCompactionWork: bg_cv_.SignalAll() and on.
BgResumeMerge ==
  /\ bg' = "merge"
  /\ Critical
  /\ pc' = SignalAll(pc)
  /\ SignalClose

\* BuildTable() is over; on success LogAndApply() releases mutex_ again.
BgTableBuilt ==
  /\ bg = "build"
  /\ \E ok \in BOOLEAN :
       /\ Outcome(ok)
       /\ IF ok /\ ~shutting_down_
          THEN /\ Critical
               /\ bg' = "apply"
               /\ UNCHANGED <<pc, close>>
          ELSE IF merging THEN BgResumeMerge ELSE BgFails
  /\ UNCHANGED <<queueVars, localVars, dataVars, level0, seek, large,
                 bg_compaction_scheduled_, bg_error_, merging, inputs,
                 get, shutting_down_>>

\* LogAndApply() is over: imm_ is replaced by a table, in level 0 or deeper;
\* an empty memtable leaves no table.
BgApplied ==
  /\ bg = "apply"
  /\ \E ok, big \in BOOLEAN :
       /\ big => ok
       /\ Outcome(ok /\ ~big)
       /\ IF ok
          THEN /\ imm_' = {}
               /\ has_imm_' = FALSE
               /\ tables' = tables \cup imm_
               /\ level0' \in IF imm_ = {} THEN {level0} ELSE {level0, level0 + 1}
               /\ NewVersion(big)
          ELSE UNCHANGED <<imm_, has_imm_, tables, level0, seek, large, get>>
       /\ \/ merging /\ BgResumeMerge
          \/ ~merging /\ ok /\ Lock("background") /\ bg' = "finish"
             /\ UNCHANGED <<pc, close>>
          \/ ~merging /\ ~ok /\ BgFails
  /\ UNCHANGED <<queueVars, localVars, last_sequence, log_, synced, mem_,
                 bg_compaction_scheduled_, bg_error_, merging, inputs,
                 shutting_down_>>

\* BackgroundCompaction() failed: bg_error_ is kept only with paranoid_checks.
CompactionFails ==
  /\ bg_error_' = (bg_error_ \/ (ParanoidChecks /\ ~shutting_down_))
  /\ merging' = FALSE
  /\ inputs' = 0
  /\ BgFails

\* The merge loop is over; on success InstallCompactionResults() unlocks.
BgMerged ==
  /\ bg = "merge"
  /\ \E ok \in BOOLEAN :
       /\ Outcome(ok)
       /\ IF ok /\ ~shutting_down_
          THEN /\ Critical
               /\ bg' = "install"
               /\ UNCHANGED <<pc, close, bg_error_, merging, inputs>>
          ELSE CompactionFails
  /\ UNCHANGED <<queueVars, localVars, dataVars, level0, seek, large,
                 bg_compaction_scheduled_, get, shutting_down_>>

\* ShouldStopBefore() meets a key past its first grandparent: its loop does not
\* advance grandparent_index_ and never ends (version_set.cpp:1288-1296), without
\* a look at shutting_down_ or has_imm_.  Whether a key does is a matter of data.
BgSpin ==
  /\ bg = "merge"
  /\ bg' = "spin"
  /\ UNCHANGED <<mutex_, pc, queueVars, localVars, dataVars, level0, seek, large,
                 bg_compaction_scheduled_, bg_error_, merging, inputs, userVars,
                 events>>

Level0After_Trigger == level0 - L0Compaction
\* The version without the compaction's inputs.
Level0After == level0 - inputs

BgInstalled ==
  /\ bg = "install"
  /\ \E ok, big \in BOOLEAN :
       /\ big => ok
       /\ Outcome(ok /\ ~big)
       /\ IF ok
          THEN /\ level0' = Level0After
               /\ NewVersion(big)
               /\ merging' = FALSE
               /\ inputs' = 0
               /\ Lock("background")
               /\ bg' = "finish"
               /\ UNCHANGED <<pc, close, bg_error_>>
          ELSE /\ UNCHANGED <<level0, seek, large, get>>
               /\ CompactionFails
  /\ UNCHANGED <<queueVars, localVars, dataVars, bg_compaction_scheduled_,
                 shutting_down_>>

\* The end of BackgroundCall(): reschedule if needed, wake everyone.
BgFinish ==
  /\ \/ bg = "finish" /\ Unlock("background")
     \/ bg = "sleep" /\ Critical
  /\ bg_compaction_scheduled_' = ShouldSchedule(FALSE, has_imm_, NeedsCompaction)
  /\ bg' = Scheduled(bg_compaction_scheduled_', "idle")
  /\ pc' = SignalAll(pc)
  /\ SignalClose
  /\ UNCHANGED <<queueVars, localVars, dataVars, level0, seek, large, bg_error_,
                 merging, inputs, get, shutting_down_, events>>

-----------------------------------------------------------------------------
(* ~DBImpl() (db_impl.cpp:133-160); the caller's other calls are over.     *)

CloseBegin ==
  /\ close = "open"
  /\ \A w \in Writer : pc[w] \in {"idle", "returned"}
  /\ get = "idle"
  /\ Critical
  /\ shutting_down_' = TRUE
  /\ close' = IF bg_compaction_scheduled_ THEN "wait" ELSE "closed"
  /\ UNCHANGED <<pc, queueVars, localVars, dataVars, bgVars, get, events>>

CloseWoken_If ==
  /\ close = "woken"
  /\ Critical
  /\ close' = "closed"
  /\ UNCHANGED <<pc, queueVars, localVars, dataVars, bgVars, get,
                 shutting_down_, events>>

\* while (bg_compaction_scheduled_) bg_cv_.Wait();
CloseWoken ==
  /\ close = "woken"
  /\ Critical
  /\ close' = IF bg_compaction_scheduled_ THEN "wait" ELSE "closed"
  /\ UNCHANGED <<pc, queueVars, localVars, dataVars, bgVars, get,
                 shutting_down_, events>>

\* The steps of a Write() call after its first one.
WriterStep(w) ==
  \/ WaitTurn(w) \/ Wake(w) \/ ReturnDone(w) \/ Lead(w)
  \/ BackgroundError(w) \/ Delay(w) \/ DelayOver(w) \/ Room(w)
  \/ WaitBackground(w) \/ SwitchMemTable(w) \/ SwitchFails(w)
  \/ BuildBatchGroup(w) \/ AddRecord(w) \/ SyncLog(w)
  \/ Insert(w) \/ InsertDone(w) \/ Publish(w) \/ Pop(w)

BackgroundStep ==
  \/ BgFlush \/ BgCompact \/ BgNothing \/ BgTableBuilt \/ BgApplied
  \/ BgMerged \/ BgSpin \/ BgInstalled \/ BgFinish

\* All calls are over and nothing runs: the behaviour may end here.
Quiescent ==
  /\ \A w \in Writer : pc[w] \in {"idle", "returned"}
  /\ close = "closed"
  /\ UNCHANGED vars

Next ==
  \/ \E w \in Writer : Enqueue(w) \/ WriterStep(w) \/ SpuriousWake(w)
  \/ GetBegin
  \/ \E charged \in BOOLEAN : GetEnd(charged)
  \/ BackgroundStep
  \/ CloseBegin \/ CloseWoken
  \/ Quiescent

Spec == Init /\ [][Next]_vars

(***************************************************************************)
(* Fairness: every thread that can run runs, and so gets mutex_ when it is *)
(* free: the other threads take it a bounded number of times (MaxEvents,   *)
(* one call per writer).  Nobody is obliged to call Write(), Get() or      *)
(* delete the DB.                                                          *)
(***************************************************************************)
Fairness ==
  /\ \A w \in Writer : WF_vars(WriterStep(w))
  /\ WF_vars(BackgroundStep)
  /\ WF_vars(\E charged \in BOOLEAN : GetEnd(charged))
  /\ WF_vars(CloseWoken)

FairSpec == Spec /\ Fairness

-----------------------------------------------------------------------------
(* Properties.                                                             *)

\* The types of the write path; level 0 never has fewer than no files, although a
\* flush and the compaction it interrupts both count them (BgApplied, BgInstalled).
TypeOK ==
  /\ mutex_ \in Writer \cup {"none", "background"}
  /\ pc \in [Writer -> Location]
  /\ batch \in [Writer -> Batches \cup {NullBatch}]
  /\ sync \in [Writer -> BOOLEAN]
  /\ done \in [Writer -> BOOLEAN]
  /\ status \in [Writer -> {"ok", "error"}]
  /\ force \in [Writer -> BOOLEAN]
  /\ allow_delay \in [Writer -> BOOLEAN]
  /\ updates \in [Writer -> SUBSET Entry]
  /\ last_writer \in [Writer -> Writer]
  /\ seq \in [Writer -> Nat]
  /\ writers_ \in Seq(Writer)
  /\ tmp_batch_ \in BOOLEAN
  /\ last_sequence \in Nat
  /\ log_ \in Seq(SUBSET Entry)
  /\ synced \in SUBSET Entry
  /\ mem_ \in SUBSET Entry
  /\ has_imm_ \in BOOLEAN
  /\ imm_ \in SUBSET Entry
  /\ tables \in SUBSET Entry
  /\ level0 \in Nat
  /\ seek \in BOOLEAN /\ large \in BOOLEAN
  /\ bg_compaction_scheduled_ \in BOOLEAN
  /\ bg_error_ \in BOOLEAN
  /\ shutting_down_ \in BOOLEAN
  /\ bg \in {"idle", "queued", "build", "apply", "merge", "spin", "install",
             "finish", "sleep"}
  /\ merging \in BOOLEAN
  /\ inputs \in Nat
  /\ get \in {"idle", "current", "old"}
  /\ close \in {"open", "wait", "woken", "closed"}
  /\ events \in 0..MaxEvents

\* Leading(w): w is between the end of its wait in the queue and its return.
Leading(w) == pc[w] \in Logging \cup {"room", "delay", "bg_wait", "bg_woken",
                                     "build", "pop"}

\* "&w is currently responsible for logging and protects against concurrent
\* loggers and concurrent writes into mem_" (db_impl.cpp:1041-1044): while a
\* writer works with mutex_ released it stands at the front of the queue, and no
\* other writer is anywhere between its turn and its return.
OneLogger ==
  \A w \in Writer : Leading(w) =>
    /\ writers_ # << >> /\ Head(writers_) = w
    /\ \A x \in Writer : Leading(x) => x = w

InQueue(w) == \E i \in 1..Len(writers_) : writers_[i] = w

\* What makes OneLogger inductive: a Writer is in the queue, once, exactly while
\* its call runs and is not done; mutex_ belongs to the writer whose stretch of
\* code holds it; the writer past its turn is the front and is not done.
QueueInv ==
  /\ \A i, j \in 1..Len(writers_) : writers_[i] = writers_[j] => i = j
  /\ \A w \in Writer : pc[w] \in Holding <=> mutex_ = w
  /\ \A w \in Writer :
       InQueue(w) <=> pc[w] \notin {"idle", "returned"} /\ ~done[w]
  /\ \A w \in Writer :
       Leading(w) => ~done[w] /\ writers_ # << >> /\ writers_[1] = w

\* The entries of the batch of a call.
EntriesOf(entries, w) == {e \in entries : e.w = w}

\* A call with options.sync that returned OK has every operation of its batch
\* fsynced, also when the record was written by another writer's group
\* (db_impl.cpp:1049, 1104).
SyncedWhenAcknowledged ==
  \A w \in Writer :
    pc[w] = "returned" /\ status[w] = "ok" /\ sync[w] =>
      Cardinality(EntriesOf(synced, w)) = IF batch[w] > 0 THEN batch[w] ELSE 0

\* No two records of a log file use the same sequence number and later records
\* use larger ones, also after a write whose AddRecord or Sync failed
\* (SetLastSequence at db_impl.cpp:1058 runs whatever the status).
LogOrdered ==
  \A r1, r2 \in DOMAIN log_ : r1 < r2 =>
    \A e \in log_[r1], f \in log_[r2] : e.seq < f.seq

\* Write-ahead: whatever the memtable holds is in the current log file, so the
\* log files named by CompactMemTable's edit cover all that is not in a table
\* (db_impl.cpp:1047-1053, 1174-1183).
MemTableLogged == mem_ \subseteq UNION {log_[r] : r \in DOMAIN log_}

\* With OneLogger, what makes MemTableLogged inductive: a group about to be
\* inserted is in the current log file.
LogInv ==
  /\ MemTableLogged
  /\ \A w \in Writer : pc[w] \in {"sync", "insert"} =>
       updates[w] \subseteq UNION {log_[r] : r \in DOMAIN log_}

\* The shared tmp_batch_ holds operations only while the writer that filled it is
\* still logging, whatever becomes of the group, so that "assert(
\* WriteBatchInternal::Count(result) == 0)" of BuildBatchGroup holds
\* (db_impl.cpp:1056, 1119).
TmpBatchOwned == tmp_batch_ => \E w \in Writer : pc[w] \in Logging

\* Once ~DBImpl() has gone past its wait, the background thread is not inside
\* BackgroundCall() and has no call queued: it cannot touch the deleted object
\* (db_impl.cpp:135-140).
NoWorkAfterClose ==
  close = "closed" => bg = "idle" /\ ~bg_compaction_scheduled_

\* bg_compaction_scheduled_ says whether the background thread has a call to run
\* or is running it; shutting_down_ is set by ~DBImpl() and by nobody else.
CloseInv ==
  /\ bg_compaction_scheduled_ <=> bg # "idle"
  /\ shutting_down_ <=> close # "open"
  /\ NoWorkAfterClose

\* The entries that a Get() starting now can see: those of the memtables and
\* tables up to LastSequence().
Visible == {e \in mem_ \cup imm_ \cup tables : e.seq <= last_sequence}

Phase == [w \in Writer |->
           CASE pc[w] = "idle" -> "new"
             [] pc[w] = "returned" -> status[w]
             [] OTHER -> "open"]

Promise == INSTANCE AtomicWrites
             WITH Call <- Writer, phase <- Phase, size <- batch, visible <- Visible

\* Group commit, memtable switches and flushes implement AtomicWrites: a batch
\* becomes visible whole, once and between call and return, a call that failed
\* never becomes visible, and nothing visible is lost when imm_ is replaced.
WritesAreAtomic == Promise!Spec

\* imm_ waits for a flush and nobody has been told.
FlushForgotten == has_imm_ /\ ~bg_compaction_scheduled_
\* The background thread is caught in the loop of ShouldStopBefore().
MergeSpins == bg = "spin"

\* No lost wakeup: every Write() returns, from whatever wait (its turn in the
\* queue, bg_cv_ for imm_, bg_cv_ for level 0, the delay), unless a memtable has
\* been switched whose flush was never scheduled (see SwitchedMemTableFlushed) or
\* a merge spins (version_set.cpp:1288): nothing else in the write path or in a
\* flush, an error, a delay or a hand-over keeps a writer for ever.
WritersReturn ==
  \A w \in Writer :
    pc[w] = "queue" ~> pc[w] = "returned" \/ FlushForgotten \/ MergeSpins

\* ~DBImpl() returns, whatever the background call it waits for was doing
\* (a flush, a merge, an installation, a sleep after an error), unless a merge
\* spins: the loop at version_set.cpp:1288 does not look at shutting_down_, and
\* the destructor then waits for ever.
CloseReturns == close = "wait" ~> close = "closed" \/ MergeSpins

\* "Attempt to switch to a new memtable and trigger compaction of old"
\* (db_impl.cpp:1166): a switched memtable is flushed, while the DB is open and
\* no merge spins.
SwitchedMemTableFlushed ==
  has_imm_ ~> (~has_imm_ \/ close # "open" \/ MergeSpins)
=============================================================================
