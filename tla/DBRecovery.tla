----------------------------- MODULE DBRecovery -----------------------------
(***************************************************************************)
(* What a crash leaves behind: the files of a DB (log files, table files,  *)
(* MANIFESTs and CURRENT), the code that writes and deletes them           *)
(* (DBImpl::Write, CompactMemTable, DoCompactionWork, LogAndApply,         *)
(* DeleteObsoleteFiles) and the code that reads them again (DB::Open:      *)
(* NewDB, VersionSet::Recover, RecoverLogFile).                            *)
(*                                                                         *)
(* One client writes, one call at a time (DBWrite has the queue); one      *)
(* iterator may hold a version; the background thread flushes and compacts *)
(* whenever it has work.  A step is one file operation, or one stretch of  *)
(* code that holds mutex_.  A crash comes between any two steps.  The      *)
(* program may be opened again MaxOpens times.                             *)
(*                                                                         *)
(* Data: one entry [seq, id] per write, id naming the Write() call.  A     *)
(* version is the set of its table numbers.  A compaction writes what it   *)
(* reads.  paranoid_checks is false.                                       *)
(*                                                                         *)
(* The file system: creating, renaming and deleting a file is atomic and   *)
(* takes effect in order; a killed process loses nothing it wrote; a       *)
(* machine crash may cut a file back to what was synced.                   *)
(***************************************************************************)
EXTENDS Integers, Sequences, FiniteSets, FiniteSetsExt

CONSTANTS
  WriteBufferSize, \* options.write_buffer_size, in entries
  SyncOptions,     \* the values of WriteOptions::sync the client passes
  Crashes,         \* the kinds of crash: "process", "torn", "machine"
  Faults,          \* the file operations that may fail
  MaxWrites,       \* bound: the Write() calls
  MaxOpens,        \* bound: the calls of DB::Open after which the DB may crash
  MaxFaults,       \* bound: the failed file operations
  MaxFile          \* bound: no compaction starts past this file number

FaultKind == {"log", "log_sync", "table", "output", "manifest",
              "manifest_append", "manifest_sync", "current", "open_log",
              "replay_table", "new_log"}

ASSUME RecoveryAssumption ==
  /\ WriteBufferSize \in Nat
  /\ SyncOptions \subseteq BOOLEAN
  /\ Crashes \subseteq {"process", "torn", "machine"}
  /\ Faults \subseteq FaultKind
  /\ MaxWrites \in Nat /\ MaxOpens \in Nat /\ MaxFaults \in Nat /\ MaxFile \in Nat

VARIABLES
  \* The directory.  Each kind of file is a function on the numbers in use.
  logs,       \* [data, synced]: the entries of the records, those fsynced
  hidden,     \* the entries whose records the log reader does not give back
  tables,     \* [data, synced, damaged]: the entries, whether the file was
              \* fsynced, whether a crash left it unreadable
  manifests,  \* [edits, synced, torn]: the records, how many were fsynced, and
              \* whether an incomplete record follows them
  current,    \* the MANIFEST that CURRENT names; 0: there is no CURRENT
  \* DBImpl and VersionSet.
  phase,      \* where DB::Open is; "up": the DB is open
  mem_, imm_, has_imm_,
  logfile_number_, log_number_, next_file_number_, manifest_file_number_,
  last_sequence_,
  version,    \* the tables of current_
  held,       \* the tables of the version an iterator holds
  pending_outputs_,
  skewed,     \* those of log_ and descriptor_log_ whose block_offset_ an append
              \* that failed has put out of step with the file
  flush,      \* CompactMemTable(): the number of its table; 0: not running
  compact,    \* the CompactionState
  apply,      \* LogAndApply(): who called it, its next step, its edit
  doomed,     \* the files DeleteObsoleteFiles() has still to delete
  replay,     \* the locals of Recover(): the log files left, what is left of the
              \* one being read, the tables written, max_sequence and the status
  write,      \* the Write() call: its next step, entry and option
  \* Bookkeeping.
  acked, ackedSync,   \* the writes, and the sync writes, that returned OK
  calls, opens, faults, \* Write() calls, crashes or closes, faults so far
  lost,               \* the entries that DB::Open gave up: it went past an
                      \* error of their log file, or did not find their
                      \* records, and then replaced the log
  astray              \* the edits on which the MANIFEST that CURRENT names and
                      \* VersionSet may disagree

diskVars == <<logs, tables, manifests, current>>
memVars  == <<mem_, imm_, has_imm_>>
fileVars == <<logfile_number_, log_number_, next_file_number_,
              manifest_file_number_>>
bgVars   == <<flush, compact, pending_outputs_>>
errVars  == <<hidden, skewed, astray>>
ghostVars == <<acked, ackedSync, calls, opens>>
vars == <<diskVars, phase, memVars, fileVars, last_sequence_, version, held,
          bgVars, apply, doomed, replay, write, ghostVars, faults, lost,
          errVars>>

Entry == [seq : Nat, id : Nat]
NoWrite == [step |-> "idle", entry |-> [seq |-> 0, id |-> 0], sync |-> FALSE]
NoCompaction == [on |-> FALSE, base |-> {}, inputs |-> {}, outputs |-> {},
                 builder |-> 0, todo |-> {}]
NoEdit == [add |-> {}, del |-> {}, meta |-> FALSE, log |-> 0, next |-> 0,
           last |-> 0]
NoApply == [by |-> "none", step |-> "none", edit |-> NoEdit]
NoReplay == [logs |-> {}, rest |-> {}, add |-> {}, max |-> 0, ok |-> TRUE,
             passed |-> {}]

\* A function without some of its arguments.
Without(f, S) == [x \in DOMAIN f \ S |-> f[x]]
\* A function with one more argument, or another value for it.
With(f, x, v) == [y \in DOMAIN f \cup {x} |-> IF y = x THEN v ELSE f[y]]

NewTable(data, synced) == [data |-> data, synced |-> synced, damaged |-> FALSE]
Damaged(S) == {n \in S \cap DOMAIN tables : tables[n].damaged}
\* The tables of S that cannot be read, and those that are not there.
Broken(S) == Damaged(S) \cup (S \ DOMAIN tables)
DataOf(S) == UNION {tables[n].data : n \in (S \cap DOMAIN tables) \ Damaged(S)}
Seqs(S) == {e.seq : e \in S}

\* The fields of DBImpl and VersionSet when DB::Open() starts.
Fresh ==
  /\ mem_' = {} /\ imm_' = {} /\ has_imm_' = FALSE
  /\ logfile_number_' = 0 /\ log_number_' = 0
  /\ next_file_number_' = 2 /\ manifest_file_number_' = 0
  /\ last_sequence_' = 0
  /\ version' = {} /\ held' = {} /\ pending_outputs_' = {}
  /\ flush' = 0 /\ compact' = NoCompaction
  /\ apply' = NoApply /\ doomed' = {} /\ replay' = NoReplay
  /\ write' = NoWrite
  /\ skewed' = {}
  /\ UNCHANGED <<hidden, lost>>

Init ==
  /\ logs = << >> /\ tables = << >> /\ manifests = << >> /\ current = 0
  /\ phase = "down"
  /\ mem_ = {} /\ imm_ = {} /\ has_imm_ = FALSE
  /\ logfile_number_ = 0 /\ log_number_ = 0
  /\ next_file_number_ = 2 /\ manifest_file_number_ = 0
  /\ last_sequence_ = 0
  /\ version = {} /\ held = {} /\ pending_outputs_ = {}
  /\ flush = 0 /\ compact = NoCompaction
  /\ apply = NoApply /\ doomed = {} /\ replay = NoReplay
  /\ write = NoWrite
  /\ acked = {} /\ ackedSync = {}
  /\ calls = 0 /\ opens = 0 /\ faults = 0
  /\ lost = {} /\ hidden = {} /\ skewed = {} /\ astray = {}

\* A file operation ends well, or fails if its kind may.
Outcome(kind, ok) ==
  \/ ok /\ UNCHANGED faults
  \/ ~ok /\ kind \in Faults /\ faults < MaxFaults /\ faults' = faults + 1

\* mutex_ is free: nobody is inside DeleteObsoleteFiles().
Free == phase = "up" /\ doomed = {}

-----------------------------------------------------------------------------
(* What the files say (VersionSet::Recover, version_set.cpp:810-923).      *)

\* The files of the version that a sequence of edits builds: added, and not
\* deleted by a later edit.
LiveIn(edits) ==
  {n \in UNION {edits[i].add : i \in DOMAIN edits} :
     \E i \in DOMAIN edits :
       /\ n \in edits[i].add
       /\ \A j \in DOMAIN edits : j > i => n \notin edits[j].del}

MetaEdits(edits) == {i \in DOMAIN edits : edits[i].meta}
LastMeta(edits) == edits[Max(MetaEdits(edits))]

\* The MANIFEST that CURRENT names can be read: no Corruption.
Readable ==
  /\ current \in DOMAIN manifests
  /\ ~manifests[current].torn
  /\ MetaEdits(manifests[current].edits) # {}

\* What DB::Open() would find now.
DiskVersion == LiveIn(manifests[current].edits)
DiskLogs == {n \in DOMAIN logs : n >= LastMeta(manifests[current].edits).log}
Recoverable ==
  IF Readable
  THEN DataOf(DiskVersion) \cup ((UNION {logs[n].data : n \in DiskLogs}) \ hidden)
  ELSE {}
\* What is in the log files, but behind an append that failed.
Unread ==
  IF Readable THEN hidden \cap (UNION {logs[n].data : n \in DiskLogs}) ELSE {}

-----------------------------------------------------------------------------
(* DBImpl::Write (db_impl.cpp:1018-1078), one call at a time.              *)

\* MakeRoomForWrite() finds room in mem_.
WriteBegin ==
  /\ Free
  /\ write.step = "idle" /\ calls < MaxWrites
  /\ Cardinality(mem_) <= WriteBufferSize
  /\ calls' = calls + 1
  /\ \E s \in SyncOptions :
       write' = [step |-> "log", sync |-> s,
                 entry |-> [seq |-> last_sequence_ + 1, id |-> calls']]
  /\ UNCHANGED <<diskVars, phase, memVars, fileVars, last_sequence_, version,
                 held, bgVars, apply, doomed, replay, acked, ackedSync, opens,
                 faults, lost, errVars>>

\* MakeRoomForWrite() switches to a new log file and memtable.  (When the file
\* cannot be created the write fails and nothing else changes.)
SwitchMemTable ==
  /\ Free
  /\ write.step = "idle" /\ calls < MaxWrites
  /\ Cardinality(mem_) > WriteBufferSize /\ ~has_imm_
  /\ logs' = With(logs, next_file_number_, [data |-> {}, synced |-> {}])
  /\ logfile_number_' = next_file_number_
  /\ next_file_number_' = next_file_number_ + 1
  /\ imm_' = mem_ /\ has_imm_' = TRUE /\ mem_' = {}
  /\ skewed' = skewed \ {"log"}
  /\ UNCHANGED <<tables, manifests, current, phase, log_number_,
                 manifest_file_number_, last_sequence_, version, held, bgVars,
                 apply, doomed, replay, write, ghostVars, faults, lost, hidden,
                 astray>>

AfterLog_NoSync(ok) == IF ok THEN "insert" ELSE "failed"
\* Where Write() goes on after AddRecord().
AfterLog(ok) ==
  CASE ~ok -> "failed"
    [] ok /\ write.sync -> "sync"
    [] OTHER -> "insert"

\* log_->AddRecord(): read says whether the log reader finds the record.  One whose
\* append failed may be there; when it is not, block_offset_ has moved all the same
\* (log_writer.cpp:96), the file may hold a part of it (env_posix.cpp:250-271), and
\* the reader may miss the records that follow, also those appended well.
WriteLog ==
  /\ write.step = "log"
  /\ \E ok \in BOOLEAN, read \in BOOLEAN :
       /\ ok /\ "log" \notin skewed => read
       /\ Outcome("log", ok)
       /\ logs' = IF ok \/ read
                  THEN [logs EXCEPT ![logfile_number_].data = @ \cup {write.entry}]
                  ELSE logs
       /\ hidden' = IF ok /\ ~read THEN hidden \cup {write.entry} ELSE hidden
       /\ skewed' = IF ok \/ read THEN skewed ELSE skewed \cup {"log"}
       /\ write' = [write EXCEPT !.step = AfterLog(ok)]
  /\ UNCHANGED <<tables, manifests, current, phase, memVars, fileVars,
                 last_sequence_, version, held, bgVars, apply, doomed, replay,
                 ghostVars, lost, astray>>

\* logfile_->Sync().
WriteSync ==
  /\ write.step = "sync"
  /\ \E ok \in BOOLEAN :
       /\ Outcome("log_sync", ok)
       /\ logs' = IF ok
                  THEN [logs EXCEPT ![logfile_number_].synced =
                                      logs[logfile_number_].data]
                  ELSE logs
       /\ write' = [write EXCEPT !.step = IF ok THEN "insert" ELSE "failed"]
  /\ UNCHANGED <<tables, manifests, current, phase, memVars, fileVars,
                 last_sequence_, version, held, bgVars, apply, doomed, replay,
                 ghostVars, lost, errVars>>

Inserted_Always == {write.entry}
\* InsertInto(mem_) unless AddRecord() or Sync() failed.
Inserted == IF write.step = "insert" THEN {write.entry} ELSE {}

\* The memtable, SetLastSequence() in any case, and the return of Write().
WriteEnd ==
  /\ Free
  /\ write.step \in {"insert", "failed"}
  /\ mem_' = mem_ \cup Inserted
  /\ LET ok == {e \in {write.entry} : write.step = "insert"}
     IN  /\ acked' = acked \cup ok
         /\ ackedSync' = IF write.sync THEN ackedSync \cup ok ELSE ackedSync
  /\ last_sequence_' = write.entry.seq
  /\ write' = NoWrite
  /\ UNCHANGED <<diskVars, phase, imm_, has_imm_, fileVars, version, held,
                 bgVars, apply, doomed, replay, calls, opens, faults,
                 lost, errVars>>

\* An iterator takes the current version and releases it again.
IterBegin ==
  /\ Free
  /\ held = {} /\ version # {}
  /\ held' = version
  /\ UNCHANGED <<diskVars, phase, memVars, fileVars, last_sequence_, version,
                 bgVars, apply, doomed, replay, write, ghostVars, faults,
                 lost, errVars>>

IterEnd ==
  /\ Free
  /\ held # {}
  /\ held' = {}
  /\ UNCHANGED <<diskVars, phase, memVars, fileVars, last_sequence_, version,
                 bgVars, apply, doomed, replay, write, ghostVars, faults,
                 lost, errVars>>

-----------------------------------------------------------------------------
(* DBImpl::DeleteObsoleteFiles (db_impl.cpp:203-250), holding mutex_: it   *)
(* lists the directory, then deletes file by file.                         *)

LiveFiles_Held(cur, base) == held \cup base
LiveFiles_Current(cur, base) == cur
\* VersionSet::AddLiveFiles: the files of every version somebody holds.
LiveFiles(cur, base) == cur \cup held \cup base

Obsolete_AllLogs(live, log, manifest) ==
  {<<"log", n>> : n \in {m \in DOMAIN logs : m # logfile_number_}}
Obsolete_OffByOne(live, log, manifest) ==
  {<<"manifest", n>> : n \in {m \in DOMAIN manifests : m <= manifest}}
Obsolete(live, log, manifest) ==
  {<<"log", n>> : n \in {m \in DOMAIN logs : m < log}} \cup
  {<<"table", n>> : n \in DOMAIN tables \ live} \cup
  {<<"manifest", n>> : n \in {m \in DOMAIN manifests : m < manifest}}

DeleteFile ==
  /\ doomed # {}
  /\ \E d \in doomed :
       /\ doomed' = doomed \ {d}
       /\ logs' = IF d[1] = "log" THEN Without(logs, {d[2]}) ELSE logs
       /\ tables' = IF d[1] = "table" THEN Without(tables, {d[2]}) ELSE tables
       /\ manifests' = IF d[1] = "manifest" THEN Without(manifests, {d[2]})
                       ELSE manifests
  /\ UNCHANGED <<current, phase, memVars, fileVars, last_sequence_, version,
                 held, bgVars, apply, replay, write, ghostVars, faults,
                 lost, errVars>>

-----------------------------------------------------------------------------
(* VersionSet::LogAndApply (version_set.cpp:732-808).                      *)

\* The state of a call with the given edit; the MANIFEST of this incarnation is
\* created by the call that DB::Open makes.
StartApply(by, add, del, log, next, last) ==
  [by |-> by, step |-> IF by = "open" THEN "create" ELSE "append",
   edit |-> [add |-> add, del |-> del, meta |-> TRUE, log |-> log,
             next |-> next, last |-> last]]

\* The end of a compaction: CleanupCompaction(), ReleaseInputs() and
\* DeleteObsoleteFiles(), with the tables and the log number then current.
EndCompaction(cur) ==
  /\ compact' = NoCompaction
  /\ pending_outputs_' = pending_outputs_ \ compact.outputs
  /\ doomed' = Obsolete(pending_outputs_' \cup LiveFiles(cur, {}), log_number_,
                        manifest_file_number_)
  /\ UNCHANGED flush

\* DB::Open returns an error: delete impl.
OpenFails == phase' = "down" /\ Fresh

\* LogAndApply returns an error to its caller; a MANIFEST it created is deleted.
ApplyFails ==
  \/ /\ apply.by = "open"
     /\ manifests' = Without(manifests, {manifest_file_number_})
     /\ OpenFails
  \/ /\ apply.by \in {"flush", "compact"}
     /\ apply' = NoApply
     /\ \/ apply.by = "flush" /\ flush' = 0
           /\ UNCHANGED <<compact, pending_outputs_, doomed>>
        \/ apply.by = "compact" /\ EndCompaction(version)
     /\ UNCHANGED <<phase, memVars, fileVars, last_sequence_, version, held,
                    replay, write, lost, hidden>>

\* WriteSnapshot(): the tables of the current version.
SnapshotEdit == [NoEdit EXCEPT !.add = version]

\* A new MANIFEST: NewWritableFile and WriteSnapshot.
ApplyCreate ==
  /\ apply.step = "create"
  /\ \E ok \in BOOLEAN :
       /\ Outcome("manifest", ok)
       /\ IF ok
          THEN /\ manifests' =
                    With(manifests, manifest_file_number_,
                         [edits |-> <<SnapshotEdit>>,
                          synced |-> 0, torn |-> FALSE])
               /\ apply' = [apply EXCEPT !.step = "append"]
               /\ UNCHANGED <<phase, memVars, fileVars, last_sequence_, version,
                              held, bgVars, doomed, replay, write, lost, hidden,
                              skewed>>
          ELSE ApplyFails
  /\ UNCHANGED <<logs, tables, current, ghostVars, astray>>

\* The MANIFEST that CURRENT names, unless DB::Open is writing a new one, may now
\* say something else than VersionSet does.
Contest(edits) ==
  astray' = IF apply.by = "open" THEN astray ELSE astray \cup edits

\* descriptor_log_->AddRecord(): as for a log file the record may be there after an
\* error, and when it is not (torn: half of it is) the next ones may not be found.
ApplyAppend ==
  /\ apply.step = "append"
  /\ \E ok \in BOOLEAN, read \in BOOLEAN, torn \in BOOLEAN :
       /\ ok /\ "descriptor" \notin skewed => read
       /\ read => ~torn
       /\ Outcome("manifest_append", ok)
       /\ Contest(IF ok /\ read THEN {} ELSE {apply.edit})
       /\ LET m == IF read
                   THEN [manifests EXCEPT ![manifest_file_number_].edits =
                                            Append(@, apply.edit)]
                   ELSE [manifests EXCEPT ![manifest_file_number_].torn =
                                            @ \/ torn]
          IN  IF ok
              THEN /\ manifests' = m
                   /\ apply' = [apply EXCEPT !.step = "sync"]
                   /\ UNCHANGED <<phase, memVars, fileVars, last_sequence_,
                                  version, held, bgVars, doomed, replay, write,
                                  lost, hidden, skewed>>
              ELSE /\ ApplyFails
                   /\ apply.by # "open" =>
                        /\ manifests' = m
                        /\ skewed' = IF read THEN skewed
                                     ELSE skewed \cup {"descriptor"}
  /\ UNCHANGED <<logs, tables, current, ghostVars>>

AfterSync == IF apply.by = "open" THEN "current" ELSE "install"
ApplySync ==
  /\ apply.step = "sync"
  /\ \E ok \in BOOLEAN :
       /\ Outcome("manifest_sync", ok)
       /\ Contest(IF ok THEN {} ELSE {apply.edit})
       /\ IF ok
          THEN /\ manifests' = [manifests EXCEPT ![manifest_file_number_].synced =
                                  Len(manifests[manifest_file_number_].edits)]
               /\ apply' = [apply EXCEPT !.step = AfterSync]
               /\ UNCHANGED <<phase, memVars, fileVars, last_sequence_, version,
                              held, bgVars, doomed, replay, write, lost, hidden,
                              skewed>>
          ELSE /\ ApplyFails
               /\ apply.by # "open" => UNCHANGED <<manifests, skewed>>
  /\ UNCHANGED <<logs, tables, current, ghostVars>>

\* SetCurrentFile(): a synced temporary file renamed to CURRENT.
ApplyCurrent ==
  /\ apply.step = "current"
  /\ \E ok \in BOOLEAN :
       /\ Outcome("current", ok)
       /\ IF ok
          THEN /\ current' = manifest_file_number_
               /\ apply' = [apply EXCEPT !.step = "install"]
               /\ UNCHANGED <<manifests, phase, memVars, fileVars,
                              last_sequence_, version, held, bgVars, doomed,
                              replay, write, lost, hidden, skewed>>
          ELSE ApplyFails /\ UNCHANGED current
  /\ UNCHANGED <<logs, tables, ghostVars, astray>>

VersionAfter_NoAdd == version \ apply.edit.del
\* VersionSet::Builder: the version that the edit makes of current_.
VersionAfter == (version \ apply.edit.del) \cup apply.edit.add

\* AppendVersion(); then the caller goes on, holding mutex_: DB::Open is over,
\* CompactMemTable() drops imm_, or the compaction ends.  All three end with
\* DeleteObsoleteFiles().
ApplyInstall ==
  /\ apply.step = "install"
  /\ doomed = {}
  /\ version' = VersionAfter
  /\ log_number_' = apply.edit.log
  /\ apply' = NoApply
  /\ \/ /\ apply.by = "open"
        /\ phase' = "up"
        /\ doomed' = Obsolete(version', log_number_', manifest_file_number_)
        /\ replay' = NoReplay
        /\ UNCHANGED <<memVars, bgVars>>
     \/ /\ apply.by = "flush"
        /\ imm_' = {} /\ has_imm_' = FALSE
        /\ flush' = 0
        /\ doomed' = Obsolete(pending_outputs_ \cup
                                LiveFiles(version', compact.base),
                              log_number_', manifest_file_number_)
        /\ UNCHANGED <<phase, mem_, compact, pending_outputs_, replay>>
     \/ /\ apply.by = "compact"
        /\ EndCompaction(version')
        /\ UNCHANGED <<phase, memVars, replay>>
  /\ UNCHANGED <<diskVars, logfile_number_, next_file_number_,
                 manifest_file_number_, last_sequence_, held, write, ghostVars,
                 faults, lost, errVars>>

-----------------------------------------------------------------------------
(* The background thread: CompactMemTable (db_impl.cpp:468-499) and        *)
(* DoCompactionWork (647-892).                                             *)

\* WriteLevel0Table() allocates the number of the table.
FlushBegin ==
  /\ Free
  /\ has_imm_ /\ flush = 0 /\ apply.by = "none"
  /\ flush' = next_file_number_
  /\ next_file_number_' = next_file_number_ + 1
  /\ pending_outputs_' = pending_outputs_ \cup {next_file_number_}
  /\ UNCHANGED <<diskVars, phase, memVars, logfile_number_, log_number_,
                 manifest_file_number_, last_sequence_, version, held, compact,
                 apply, doomed, replay, write, ghostVars, faults, lost, errVars>>

\* BuildTable() closes the table without a Sync(); then LogAndApply() starts.
FlushBuild ==
  /\ Free
  /\ flush # 0 /\ apply.by = "none"
  /\ pending_outputs_' = pending_outputs_ \ {flush}
  /\ \E ok \in BOOLEAN :
       /\ Outcome("table", ok)
       /\ IF ok
          THEN /\ tables' = With(tables, flush, NewTable(imm_, FALSE))
               /\ apply' = StartApply("flush", {flush}, {}, logfile_number_,
                                      next_file_number_, last_sequence_)
               /\ UNCHANGED flush
          ELSE /\ flush' = 0
               /\ UNCHANGED <<tables, apply>>
  /\ UNCHANGED <<logs, manifests, current, phase, memVars, fileVars,
                 last_sequence_, version, held, compact, doomed, replay, write,
                 ghostVars, lost, errVars>>

\* PickCompaction() chose some tables of the current version, which it holds.
CompactBegin ==
  /\ Free
  /\ ~compact.on /\ flush = 0 /\ apply.by = "none" /\ ~has_imm_
  /\ next_file_number_ <= MaxFile
  /\ \E inputs \in SUBSET version \ {{}} :
       compact' = [NoCompaction EXCEPT !.on = TRUE, !.base = version,
                                       !.inputs = inputs, !.todo = DataOf(inputs)]
  /\ UNCHANGED <<diskVars, phase, memVars, fileVars, last_sequence_, version,
                 held, flush, pending_outputs_, apply, doomed, replay, write,
                 ghostVars, faults, lost, errVars>>

\* The merge loop runs: no flush has interrupted it.
Merging == Free /\ compact.on /\ flush = 0 /\ apply.by = "none"

\* OpenCompactionOutputFile().
CompactOpen ==
  /\ Merging
  /\ compact.builder = 0 /\ compact.todo # {}
  /\ next_file_number_' = next_file_number_ + 1
  /\ \E ok \in BOOLEAN :
       /\ Outcome("output", ok)
       /\ IF ok
          THEN /\ pending_outputs_' = pending_outputs_ \cup {next_file_number_}
               /\ compact' = [compact EXCEPT !.builder = next_file_number_,
                                !.outputs = @ \cup {next_file_number_}]
               /\ tables' = With(tables, next_file_number_, NewTable({}, FALSE))
               /\ UNCHANGED <<flush, doomed>>
          ELSE EndCompaction(version) /\ UNCHANGED tables
  /\ UNCHANGED <<logs, manifests, current, phase, memVars, logfile_number_,
                 log_number_, manifest_file_number_, last_sequence_, version,
                 held, apply, replay, write, ghostVars, lost, errVars>>

\* FinishCompactionOutputFile(): the output holds some of the entries; it is
\* synced and closed.
CompactFinish ==
  /\ Merging
  /\ compact.builder # 0
  /\ \E ok \in BOOLEAN, chunk \in SUBSET compact.todo \ {{}} :
       /\ Outcome("output", ok)
       /\ tables' = [tables EXCEPT ![compact.builder] = NewTable(chunk, ok)]
       /\ IF ok
          THEN /\ compact' = [compact EXCEPT !.builder = 0, !.todo = @ \ chunk]
               /\ UNCHANGED <<flush, pending_outputs_, doomed>>
          ELSE EndCompaction(version)
  /\ UNCHANGED <<logs, manifests, current, phase, memVars, fileVars,
                 last_sequence_, version, held, apply, replay, write, ghostVars,
                 lost, errVars>>

\* The input iterator met an unreadable table: status = input->status().
CompactError ==
  /\ Merging
  /\ Broken(compact.inputs) # {}
  /\ EndCompaction(version)
  /\ UNCHANGED <<diskVars, phase, memVars, fileVars, last_sequence_, version,
                 held, apply, replay, write, ghostVars, faults, lost, errVars>>

\* InstallCompactionResults(): its edit keeps the log number.
CompactInstall ==
  /\ Merging
  /\ compact.builder = 0 /\ compact.todo = {} /\ Broken(compact.inputs) = {}
  /\ apply' = StartApply("compact", compact.outputs, compact.inputs, log_number_,
                         next_file_number_, last_sequence_)
  /\ UNCHANGED <<diskVars, phase, memVars, fileVars, last_sequence_, version,
                 held, bgVars, doomed, replay, write, ghostVars, faults,
                 lost, errVars>>

-----------------------------------------------------------------------------
(* DB::Open (db_impl.cpp:1207-1239), NewDB (162-192), Recover (252-328),   *)
(* RecoverLogFile (330-423).                                               *)

FirstManifest ==
  [edits |-> <<[NoEdit EXCEPT !.meta = TRUE, !.next = 2]>>, synced |-> 0,
   torn |-> FALSE]

\* NewDB() writes MANIFEST-1 when there is no CURRENT.
NewDB ==
  /\ phase = "down" /\ current = 0
  /\ \E ok \in BOOLEAN :
       /\ Outcome("manifest", ok)
       /\ manifests' = IF ok THEN With(manifests, 1, FirstManifest)
                       ELSE Without(manifests, {1})
       /\ phase' = IF ok THEN "newdb" ELSE "down"
  /\ UNCHANGED <<logs, tables, current, memVars, fileVars, last_sequence_,
                 version, held, bgVars, apply, doomed, replay, write, ghostVars,
                 lost, errVars>>

\* SetCurrentFile(env_, dbname_, 1).
NewDBCurrent ==
  /\ phase = "newdb"
  /\ \E ok \in BOOLEAN :
       /\ Outcome("current", ok)
       /\ current' = IF ok THEN 1 ELSE current
       /\ phase' = IF ok THEN "recover" ELSE "down"
  /\ UNCHANGED <<logs, tables, manifests, memVars, fileVars, last_sequence_,
                 version, held, bgVars, apply, doomed, replay, write, ghostVars,
                 lost, errVars>>

\* VersionSet::Recover(), then the log files to replay.
RecoverManifest ==
  /\ phase = "recover" \/ (phase = "down" /\ current # 0)
  /\ IF Readable
     THEN LET m == LastMeta(manifests[current].edits)
          IN  /\ phase' = "replay"
              /\ version' = DiskVersion
              /\ manifest_file_number_' = m.next
              /\ next_file_number_' = m.next + 1
              /\ last_sequence_' = m.last
              /\ log_number_' = m.log
              /\ replay' = [NoReplay EXCEPT !.logs = DiskLogs]
              /\ UNCHANGED <<memVars, logfile_number_, held, bgVars, apply,
                             doomed, write, lost, hidden, skewed>>
     ELSE OpenFails
  /\ UNCHANGED <<diskVars, ghostVars, faults, astray>>

\* RecoverLogFile() opens the oldest log file; Recover() assigns its status.  A
\* file that cannot be opened is passed over (MaybeIgnoreError), and so are the
\* records that the reader does not find (LogReporter, status == NULL).
ReplayLog ==
  /\ phase = "replay" /\ replay.logs # {}
  /\ LET n == Min(replay.logs)
     IN  /\ \E ok \in BOOLEAN :
              /\ Outcome("open_log", ok)
              /\ replay' = [replay EXCEPT !.logs = @ \ {n}, !.ok = TRUE,
                              !.rest = IF ok THEN logs[n].data \ hidden ELSE {},
                              !.passed = @ \cup IF ok THEN logs[n].data \cap hidden
                                               ELSE logs[n].data]
         /\ logfile_number_' = n
         /\ phase' = "read"
  /\ UNCHANGED <<diskVars, memVars, log_number_, next_file_number_,
                 manifest_file_number_, last_sequence_, version, held, bgVars,
                 apply, doomed, write, ghostVars, lost, errVars>>

\* The records that fill a memtable, in the order of the file.
Chunk(S) ==
  {e \in S : Cardinality({f \in S : f.seq < e.seq}) <= WriteBufferSize}

\* The records of a memtable are read and WriteLevel0Table() saves them.
ReplayTable ==
  /\ phase = "read" /\ replay.rest # {}
  /\ LET chunk == Chunk(replay.rest)
         max == Max(Seqs(chunk) \cup {replay.max})
     IN  \E ok \in BOOLEAN :
           /\ Outcome("replay_table", ok)
           /\ IF ok
              THEN /\ tables' = With(tables, next_file_number_,
                                     NewTable(chunk, FALSE))
                   /\ replay' = [replay EXCEPT !.rest = @ \ chunk, !.max = max,
                                   !.add = @ \cup {next_file_number_}]
              ELSE /\ tables' = Without(tables, {next_file_number_})
                   /\ replay' = [replay EXCEPT !.rest = {}, !.max = max,
                                   !.ok = FALSE, !.passed = @ \cup replay.rest]
  /\ next_file_number_' = next_file_number_ + 1
  /\ UNCHANGED <<logs, manifests, current, phase, memVars, logfile_number_,
                 log_number_, manifest_file_number_, last_sequence_, version,
                 held, bgVars, apply, doomed, write, ghostVars, lost, errVars>>

MarkFileNumberUsed(n) ==
  IF next_file_number_ <= n THEN n + 1 ELSE next_file_number_

\* The log file ends.
ReplayEnd ==
  /\ phase = "read" /\ replay.rest = {}
  /\ next_file_number_' = MarkFileNumberUsed(logfile_number_)
  /\ phase' = "replay"
  /\ UNCHANGED <<diskVars, memVars, logfile_number_, log_number_,
                 manifest_file_number_, last_sequence_, version, held, bgVars,
                 apply, doomed, replay, write, ghostVars, faults, lost, errVars>>

LastSequenceAfter_Manifest == last_sequence_
LastSequenceAfter == Max({last_sequence_, replay.max})

\* Recover() is over: a new log file, then LogAndApply().
OpenLog ==
  /\ phase = "replay" /\ replay.logs = {}
  /\ \E ok \in BOOLEAN :
       /\ Outcome("new_log", ok)
       /\ IF replay.ok /\ ok
          THEN /\ logs' = With(logs, next_file_number_,
                               [data |-> {}, synced |-> {}])
               /\ logfile_number_' = next_file_number_
               /\ next_file_number_' = next_file_number_ + 1
               /\ last_sequence_' = LastSequenceAfter
               /\ apply' = StartApply("open", replay.add, {}, next_file_number_,
                                      next_file_number_ + 1, last_sequence_')
               /\ phase' = "apply"
               /\ lost' = lost \cup replay.passed
               /\ UNCHANGED <<memVars, log_number_, manifest_file_number_,
                              version, held, bgVars, doomed, replay, write,
                              hidden, skewed>>
          ELSE OpenFails /\ UNCHANGED logs
  /\ UNCHANGED <<tables, manifests, current, ghostVars, astray>>

-----------------------------------------------------------------------------
(* The end of an incarnation.                                              *)

Stop ==
  /\ opens < MaxOpens
  /\ opens' = opens + 1
  /\ phase' = "down"
  /\ Fresh
  /\ UNCHANGED <<acked, ackedSync, calls, faults>>

\* ~DBImpl(): all calls are over, and it has waited for the background thread.  (A
\* flush or a merge that shutting_down_ cuts short leaves no more in the directory
\* than a killed process does.)
Close ==
  /\ Free
  /\ write.step = "idle" /\ held = {}
  /\ flush = 0 /\ ~compact.on /\ apply.by = "none"
  /\ Stop
  /\ UNCHANGED <<diskVars, astray>>

\* The process is killed.
ProcessCrash ==
  /\ "process" \in Crashes
  /\ phase # "down"
  /\ Stop
  /\ UNCHANGED <<diskVars, astray>>

\* The process is killed inside AddRecord() of a MANIFEST.
TornCrash ==
  /\ "torn" \in Crashes
  /\ apply.step = "append"
  /\ Stop
  /\ Contest({apply.edit})
  /\ manifests' = [manifests EXCEPT ![manifest_file_number_].torn = TRUE]
  /\ UNCHANGED <<logs, tables, current>>

\* The machine stops: a file keeps what was synced and any more of what was
\* written first, half a record too or not; an unsynced table may be unreadable.
MachineCrash ==
  /\ "machine" \in Crashes
  /\ phase # "down"
  /\ Stop
  /\ \E cut \in [DOMAIN logs -> 0..MaxWrites] :
       /\ \A n \in DOMAIN logs : Seqs(logs[n].synced) \subseteq 0..cut[n]
       /\ logs' = [n \in DOMAIN logs |->
                     LET kept == {e \in logs[n].data : e.seq <= cut[n]}
                     IN  [data |-> kept, synced |-> kept]]
  /\ \E broken \in SUBSET {n \in DOMAIN tables : ~tables[n].synced} :
       tables' = [n \in DOMAIN tables |->
                    [data |-> tables[n].data, synced |-> TRUE,
                     damaged |-> tables[n].damaged \/ n \in broken]]
  /\ \E torn \in SUBSET {n \in DOMAIN manifests : manifests[n].torn},
        cut \in [DOMAIN manifests ->
                 0..Max({Len(manifests[n].edits) : n \in DOMAIN manifests})] :
       /\ \A n \in DOMAIN manifests :
            cut[n] \in manifests[n].synced..Len(manifests[n].edits)
       /\ manifests' = [n \in DOMAIN manifests |->
                          [edits |-> SubSeq(manifests[n].edits, 1, cut[n]),
                           synced |-> cut[n], torn |-> n \in torn]]
  /\ UNCHANGED <<current, astray>>

\* The client has nothing more to ask.
Rest ==
  /\ Free
  /\ write.step = "idle" /\ calls = MaxWrites /\ opens = MaxOpens
  /\ UNCHANGED vars

OpenStep ==
  \/ NewDB \/ NewDBCurrent \/ RecoverManifest \/ ReplayLog \/ ReplayTable
  \/ ReplayEnd \/ OpenLog

ApplyStep ==
  \/ ApplyCreate \/ ApplyAppend \/ ApplySync \/ ApplyCurrent \/ ApplyInstall

Next ==
  \/ WriteBegin \/ SwitchMemTable \/ WriteLog \/ WriteSync \/ WriteEnd
  \/ IterBegin \/ IterEnd
  \/ FlushBegin \/ FlushBuild
  \/ CompactBegin \/ CompactOpen \/ CompactFinish \/ CompactError
  \/ CompactInstall
  \/ ApplyStep \/ DeleteFile \/ OpenStep
  \/ Close \/ ProcessCrash \/ TornCrash \/ MachineCrash
  \/ Rest

Spec == Init /\ [][Next]_vars

-----------------------------------------------------------------------------
(* Properties.                                                             *)

LogFile == [data : SUBSET Entry, synced : SUBSET Entry]
TableFile == [data : SUBSET Entry, synced : BOOLEAN, damaged : BOOLEAN]
Edit == [add : SUBSET Nat, del : SUBSET Nat, meta : BOOLEAN, log : Nat,
         next : Nat, last : Nat]
ManifestFile == [edits : Seq(Edit), synced : Nat, torn : BOOLEAN]

\* The types of the directory and of the fields of DBImpl and VersionSet; a MANIFEST
\* has no more synced records than records, and every record is a whole edit.
TypeOK ==
  /\ DOMAIN logs \subseteq Nat /\ \A n \in DOMAIN logs : logs[n] \in LogFile
  /\ DOMAIN tables \subseteq Nat
  /\ \A n \in DOMAIN tables : tables[n] \in TableFile
  /\ DOMAIN manifests \subseteq Nat
  /\ \A n \in DOMAIN manifests :
       /\ manifests[n] \in ManifestFile
       /\ manifests[n].synced <= Len(manifests[n].edits)
  /\ current \in Nat
  /\ phase \in {"down", "newdb", "recover", "replay", "read", "apply", "up"}
  /\ mem_ \subseteq Entry /\ imm_ \subseteq Entry /\ has_imm_ \in BOOLEAN
  /\ logfile_number_ \in Nat /\ log_number_ \in Nat
  /\ next_file_number_ \in Nat /\ manifest_file_number_ \in Nat
  /\ last_sequence_ \in Nat
  /\ version \subseteq Nat /\ held \subseteq Nat /\ pending_outputs_ \subseteq Nat
  /\ flush \in Nat
  /\ compact \in [on : BOOLEAN, base : SUBSET Nat, inputs : SUBSET Nat,
                  outputs : SUBSET Nat, builder : Nat, todo : SUBSET Entry]
  /\ apply \in [by : {"none", "open", "flush", "compact"},
                step : {"none", "create", "append", "sync", "current", "install"},
                edit : Edit]
  /\ doomed \subseteq {"log", "table", "manifest"} \X Nat
  /\ replay \in [logs : SUBSET Nat, rest : SUBSET Entry, add : SUBSET Nat,
                 max : Nat, ok : BOOLEAN, passed : SUBSET Entry]
  /\ write \in [step : {"idle", "log", "sync", "insert", "failed"},
                entry : Entry, sync : BOOLEAN]
  /\ acked \subseteq Entry /\ ackedSync \subseteq acked
  /\ calls \in 0..MaxWrites /\ opens \in 0..MaxOpens /\ faults \in 0..MaxFaults
  /\ lost \subseteq Entry /\ hidden \subseteq Entry
  /\ skewed \subseteq {"log", "descriptor"} /\ astray \subseteq Edit

\* The tables about which the MANIFEST and VersionSet may disagree: a LogAndApply()
\* that failed, or that appended to a MANIFEST after one that failed, added or
\* deleted them.
Contested == UNION {e.add \cup e.del : e \in astray}

\* "If it is just the process that crashes ... no writes will be lost even if
\* sync==false" (leveldb/options.h:125-127): at every moment, between any two
\* file operations of a write, a flush, a compaction, an open or a clean-up, the
\* files that DB::Open would read hold every acknowledged write, also after file
\* operations that failed.  The exceptions are three. (1) The record stands in its
\* log file behind an append that failed (log_writer.cpp:96), and the memtable has
\* not been saved. (2) DB::Open gave the entry up: it did not find such a record;
\* or could not open the log file (db_impl.cpp:350-354); or could not write a table
\* for it and the status of the next log file replaced the error (311-318), where
\* the comment at 416 says that Open fails. (3) An append to the MANIFEST in use, or
\* its sync, failed, or the process was killed inside the append
\* (version_set.cpp:776-779).
AckedRecoverable == astray = {} => acked \subseteq Recoverable \cup Unread \cup lost

Visible == mem_ \cup imm_ \cup DataOf(version)

\* An open DB serves every acknowledged write, also the ones an earlier
\* incarnation acknowledged (Get reads mem_, imm_ and current_,
\* db_impl.cpp:942-987); but for what DB::Open gave up, and unless a MANIFEST in
\* use could not be written.
AckedVisible == phase = "up" /\ astray = {} => acked \subseteq Visible \cup lost

\* What a Get() may have returned is not taken back by a crash of the process:
\* the files hold everything an open DB serves (the log is written before mem_,
\* and no log or table is deleted or overwritten too early); but for the records
\* behind a failed append, and unless a MANIFEST in use could not be written.
VisibleRecoverable ==
  phase = "up" /\ astray = {} => Visible \subseteq Recoverable \cup Unread

\* Every table that the MANIFEST named by CURRENT lists is in the directory
\* (db_impl.cpp:203-250 deletes only what no version needs), but for the tables of
\* an edit whose AddRecord() or Sync() failed although the record is there, and of
\* one that was written behind such an edit (version_set.cpp:776-800): these
\* DeleteObsoleteFiles() may delete.  And the directory and the fields of DBImpl and
\* VersionSet have their types.
LiveTablesExist ==
  TypeOK /\ (Readable => DiskVersion \subseteq DOMAIN tables \cup Contested)

\* The tables of the current version, of a version an iterator holds and of a
\* running compaction's inputs stay in the directory, also when a flush inside a
\* compaction deletes obsolete files (AddLiveFiles, pending_outputs_); but for the
\* tables above, when the DB was opened without them.
HeldFilesExist ==
  /\ version \cup held \cup compact.base \subseteq DOMAIN tables \cup Contested
  /\ compact.outputs \subseteq DOMAIN tables
  /\ has_imm_ \/ mem_ # {} => logfile_number_ \in DOMAIN logs

\* A new write gets a sequence number larger than every entry that is in the
\* files, also after a crash that made DB::Open count them anew, and after
\* failed writes whose record stayed in the log (db_impl.cpp:1058, 320-324).
SequenceFresh ==
  phase = "up" /\ write.step = "idle" =>
    \A e \in Recoverable \cup mem_ \cup imm_ : e.seq <= last_sequence_

\* A crash of the process at any moment leaves a directory that DB::Open accepts:
\* from its first rename on, CURRENT names a whole MANIFEST, wherever NewDB,
\* LogAndApply and DeleteObsoleteFiles are (version_set.cpp:810-923), and also when
\* the process is killed inside the AddRecord() of a new MANIFEST; unless the
\* AddRecord() it is killed in, or that failed, is one of the MANIFEST in use.
CanReopen == current # 0 => Readable \/ astray # {}

\* "A DB write with sync==true has similar crash semantics to a write() system
\* call followed by fsync()" (leveldb/options.h:130-132), up to the one way in which
\* a machine crash takes back a sync write: it was moved to a table that was not
\* synced.  A record that was fsynced stays in the file until its log file is
\* replaced (db_impl.cpp:1048-1050, version_set.cpp:776-779); it can be read, unless
\* an append before it failed.
SyncLossInTables ==
  Readable /\ astray = {} =>
    ackedSync \subseteq lost \cup Recoverable \cup Unread \cup
                UNION {tables[n].data : n \in Damaged(DiskVersion)}
=============================================================================
