-------------------------- MODULE DBRecoveryProofs --------------------------
(***************************************************************************)
(* Proofs about DBRecovery, for every value of its constants: first type   *)
(* correctness, with every kind of crash and fault, then what DB::Open     *)
(* finds.  After a crash of the process: every acknowledged write.  After  *)
(* any crash, also one of the machine: every table file, a fresh sequence  *)
(* number, and every sync write that is not in a damaged table.            *)
(*                                                                         *)
(* The second part rests on an inductive invariant that relates the        *)
(* directory to the fields of DBImpl and VersionSet at every step of a     *)
(* write, a flush, a compaction, an open and a clean-up, and says what     *)
(* every cut of the MANIFEST and of the log files leaves.                  *)
(***************************************************************************)
EXTENDS DBRecovery, FiniteSetTheorems, SequenceTheorems, WellFoundedInduction, TLAPS

-----------------------------------------------------------------------------
(* The smallest and the largest of some numbers.                           *)

\* Min() of some numbers is one of them and the smallest.
LEMMA MinNat ==
  ASSUME NEW S, S \subseteq Nat, S # {}
  PROVE  Min(S) \in S /\ \A y \in S : Min(S) <= y
<1> DEFINE R == {ss \in Nat \X Nat : ss[1] < ss[2]}
<1>1. OpToRel(<, Nat) = R
  BY Zenon DEF OpToRel
<1>2. IsWellFoundedOn(R, Nat)
  BY <1>1, NatLessThanWellFounded, Zenon
<1>3. PICK x \in S : \A y \in S : ~(<<y, x>> \in R)
  BY <1>2, WFMin
<1>4. ASSUME NEW y \in S
      PROVE  x <= y
  <2>1. x \in Nat /\ y \in Nat
    OBVIOUS
  <2>2. ~(<<y, x>> \in R)
    BY <1>3
  <2>3. y < x => <<y, x>> \in R
    BY <2>1
  <2> HIDE DEF R
  <2> QED
    BY <2>1, <2>2, <2>3
<1> QED
  BY <1>4 DEF Min

\* Max() of some numbers that have a bound is one of them and the largest.
LEMMA MaxNat ==
  ASSUME NEW S, S \subseteq Nat, S # {}, NEW B \in Nat, \A y \in S : y <= B
  PROVE  Max(S) \in S /\ \A y \in S : y <= Max(S)
<1> DEFINE T == {n \in Nat : B - n \in S}
<1>1. PICK y \in S : TRUE
  OBVIOUS
<1>2. \A z \in S : B - z \in T
  OBVIOUS
<1>3. Min(T) \in T /\ \A z \in T : Min(T) <= z
  BY <1>1, <1>2, MinNat
<1>4. B - Min(T) \in S /\ \A z \in S : z <= B - Min(T)
  BY <1>2, <1>3
<1> HIDE DEF T
<1> QED
  BY <1>4 DEF Max

USE DEF diskVars, memVars, fileVars, bgVars, ghostVars, errVars

-----------------------------------------------------------------------------
(* The inductive invariant.                                                *)

\* The types of the directory.
DiskType ==
  /\ DOMAIN logs \subseteq Nat /\ \A n \in DOMAIN logs : logs[n] \in LogFile
  /\ DOMAIN tables \subseteq Nat
  /\ \A n \in DOMAIN tables : tables[n] \in TableFile
  /\ DOMAIN manifests \subseteq Nat
  /\ \A n \in DOMAIN manifests :
       /\ manifests[n] \in ManifestFile
       /\ manifests[n].synced <= Len(manifests[n].edits)
  /\ current \in Nat

\* The types of the counters and of the bookkeeping.
GhostType ==
  /\ acked \subseteq Entry /\ ackedSync \subseteq acked
  /\ calls \in 0..MaxWrites /\ opens \in 0..MaxOpens /\ faults \in 0..MaxFaults
  /\ lost \subseteq Entry /\ hidden \subseteq Entry
  /\ skewed \subseteq {"log", "descriptor"} /\ astray \subseteq Edit

\* The types of the fields of DBImpl and VersionSet.
FieldType ==
  /\ phase \in {"down", "newdb", "recover", "replay", "read", "apply", "up"}
  /\ mem_ \subseteq Entry /\ imm_ \subseteq Entry /\ has_imm_ \in BOOLEAN
  /\ logfile_number_ \in Nat /\ log_number_ \in Nat
  /\ next_file_number_ \in Nat /\ manifest_file_number_ \in Nat
  /\ last_sequence_ \in Nat
  /\ version \subseteq Nat /\ held \subseteq Nat /\ pending_outputs_ \subseteq Nat
  /\ flush \in Nat

\* The types of the calls in progress.
CallType ==
  /\ compact \in [on : BOOLEAN, base : SUBSET Nat, inputs : SUBSET Nat,
                  outputs : SUBSET Nat, builder : Nat, todo : SUBSET Entry]
  /\ apply \in [by : {"none", "open", "flush", "compact"},
                step : {"none", "create", "append", "sync", "current", "install"},
                edit : Edit]
  /\ doomed \subseteq {"log", "table", "manifest"} \X Nat
  /\ replay \in [logs : SUBSET Nat, rest : SUBSET Entry, add : SUBSET Nat,
                 max : Nat, ok : BOOLEAN, passed : SUBSET Entry]
  /\ write \in [step : {"idle", "log", "sync", "insert", "failed"},
                entry : Entry, sync : BOOLEAN]

\* No sequence number is larger than the number of Write() calls, so that
\* Recover() finds a largest one; the log files it has still to read are there.
SeqBound ==
  /\ \A n \in DOMAIN logs : \A e \in logs[n].data : e.seq <= calls
  /\ \A n \in DOMAIN manifests : \A i \in DOMAIN manifests[n].edits :
       manifests[n].edits[i].last <= calls
  /\ last_sequence_ <= calls /\ write.entry.seq <= calls
  /\ apply.edit.last <= calls /\ replay.max <= calls
  /\ \A e \in replay.rest : e.seq <= calls
  /\ replay.logs \subseteq DOMAIN logs

\* LogAndApply() runs for one caller, which is where it should be.
ApplyControl ==
  /\ apply.by = "none" <=> apply.step = "none"
  /\ apply.by = "open" <=> phase = "apply"
  /\ apply.by \in {"flush", "compact"} => phase = "up"
  /\ apply.step \in {"create", "current"} => apply.by = "open"
  /\ doomed # {} => flush = 0 /\ apply.by = "none"
  /\ apply.by = "flush" => flush # 0
  /\ apply.by = "compact" => flush = 0 /\ compact.on

\* What the fields are before the DB is open, and between two calls.
PhaseControl ==
  /\ phase # "up" =>
       /\ doomed = {} /\ flush = 0 /\ compact = NoCompaction
       /\ pending_outputs_ = {} /\ held = {} /\ mem_ = {} /\ has_imm_ = FALSE
       /\ write = NoWrite
  /\ flush # 0 => has_imm_
  /\ ~has_imm_ => imm_ = {}
  /\ ~compact.on => compact = NoCompaction
  /\ phase \in {"down", "newdb", "recover", "up"} => replay = NoReplay
  /\ phase \in {"down", "newdb", "recover"} => version = {}
  /\ phase = "replay" => replay.rest = {}
  /\ phase = "apply" => replay.logs = {} /\ replay.rest = {}

Typed == DiskType /\ GhostType /\ FieldType /\ CallType
Control == ApplyControl /\ PhaseControl
TypeInv == Typed /\ SeqBound /\ Control

\* The parts make up TypeOK.
LEMMA TypedIsTypeOK == Typed <=> TypeOK
BY DEF Typed, DiskType, GhostType, FieldType, CallType, TypeOK

-----------------------------------------------------------------------------
(* What the parts of an action keep.                                       *)

\* NoCompaction, NoEdit, NoApply, NoReplay and NoWrite have their types.
LEMMA NoTypes ==
  /\ NoEdit \in Edit /\ NoApply.edit = NoEdit /\ NoEdit.last = 0
  /\ NoApply.by = "none" /\ NoApply.step = "none"
  /\ NoApply \in [by : {"none", "open", "flush", "compact"},
                  step : {"none", "create", "append", "sync", "current",
                          "install"},
                  edit : Edit]
  /\ NoCompaction \in [on : BOOLEAN, base : SUBSET Nat, inputs : SUBSET Nat,
                       outputs : SUBSET Nat, builder : Nat, todo : SUBSET Entry]
  /\ NoCompaction.on = FALSE /\ NoCompaction.todo = {}
  /\ NoReplay \in [logs : SUBSET Nat, rest : SUBSET Entry, add : SUBSET Nat,
                   max : Nat, ok : BOOLEAN, passed : SUBSET Entry]
  /\ NoReplay.logs = {} /\ NoReplay.rest = {} /\ NoReplay.max = 0
  /\ NoWrite \in [step : {"idle", "log", "sync", "insert", "failed"},
                  entry : Entry, sync : BOOLEAN]
  /\ NoWrite.entry.seq = 0 /\ NoWrite.step = "idle"
<1>1. NoEdit \in Edit /\ NoEdit.last = 0
  BY DEF NoEdit, Edit
<1>2. [seq |-> 0, id |-> 0] \in Entry
  BY DEF Entry
<1> QED
  BY <1>1, <1>2 DEF NoApply, NoCompaction, NoReplay, NoWrite

\* Init has the invariant.
LEMMA TypeInit == Init => TypeInv
<1> SUFFICES ASSUME Init PROVE TypeInv
  OBVIOUS
<1>1. DiskType
  BY DEF Init, DiskType
<1>2. GhostType
  BY RecoveryAssumption DEF Init, GhostType
<1>3. FieldType
  BY DEF Init, FieldType
<1>4. CallType
  BY NoTypes DEF Init, CallType
<1>5. SeqBound
  BY NoTypes DEF Init, SeqBound
<1>6. Control
  BY NoTypes DEF Init, Control, ApplyControl, PhaseControl
<1> QED
  BY <1>1, <1>2, <1>3, <1>4, <1>5, <1>6 DEF TypeInv, Typed

\* The fields of a DBImpl that is deleted or gone: OpenFails and Stop.
LEMMA FreshKeeps ==
  ASSUME TypeInv, Fresh, phase' = "down"
  PROVE  /\ FieldType' /\ CallType' /\ Control'
         /\ logs' = logs /\ manifests' = manifests /\ calls' = calls => SeqBound'
<1>1. FieldType'
  BY DEF Fresh, FieldType
<1>2. CallType'
  BY NoTypes DEF Fresh, CallType
<1>3. Control'
  BY NoTypes DEF Fresh, Control, ApplyControl, PhaseControl
<1>4. logs' = logs /\ manifests' = manifests /\ calls' = calls => SeqBound'
  BY NoTypes DEF TypeInv, Typed, GhostType, Fresh, SeqBound
<1> QED
  BY <1>1, <1>2, <1>3, <1>4

\* TypeInv from its parts.
LEMMA Parts ==
  ASSUME DiskType', GhostType', FieldType', CallType', SeqBound', ApplyControl',
         PhaseControl'
  PROVE  TypeInv'
BY DEF TypeInv, Typed, Control

\* Every record of a MANIFEST is an edit.
LEMMA EditTypes ==
  ASSUME DiskType
  PROVE  \A n \in DOMAIN manifests :
           /\ manifests[n].edits \in Seq(Edit)
           /\ \A i \in DOMAIN manifests[n].edits : manifests[n].edits[i] \in Edit
BY DEF DiskType, ManifestFile

-----------------------------------------------------------------------------
(* Write().                                                                *)

LEMMA WriteBeginType == TypeInv /\ WriteBegin => TypeInv'
<1> SUFFICES ASSUME TypeInv, WriteBegin PROVE TypeInv'
  OBVIOUS
<1> USE DEF TypeInv, Typed, Control
<1>1. DiskType'
  BY DEF WriteBegin, DiskType
<1>2. GhostType'
  BY RecoveryAssumption DEF WriteBegin, GhostType
<1>3. FieldType'
  BY DEF WriteBegin, FieldType
<1>4. CallType' /\ write'.entry.seq = last_sequence_ + 1
  <2>1. PICK s \in SyncOptions :
          write' = [step |-> "log", sync |-> s,
                    entry |-> [seq |-> last_sequence_ + 1, id |-> calls']]
    BY DEF WriteBegin
  <2>2. [seq |-> last_sequence_ + 1, id |-> calls'] \in Entry
    BY <1>2 DEF FieldType, GhostType, Entry
  <2> QED
    BY <2>1, <2>2, RecoveryAssumption DEF WriteBegin, CallType
<1>5. SeqBound'
  <2>1. calls \in Nat /\ calls' = calls + 1 /\ last_sequence_ \in Nat
    BY DEF WriteBegin, GhostType, FieldType
  <2>2. \A n \in DOMAIN logs : \A e \in logs[n].data : e.seq \in Nat
    BY DEF DiskType, LogFile, Entry
  <2>3. \A n \in DOMAIN manifests : \A i \in DOMAIN manifests[n].edits :
          manifests[n].edits[i].last \in Nat
    BY EditTypes DEF Edit
  <2>4. \A e \in replay.rest : e.seq \in Nat
    BY DEF CallType, Entry
  <2>5. apply.edit.last \in Nat /\ replay.max \in Nat
    BY DEF CallType, Edit
  <2> QED
    BY <1>4, <2>1, <2>2, <2>3, <2>4, <2>5 DEF WriteBegin, SeqBound
<1>6. ApplyControl'
  BY DEF WriteBegin, ApplyControl
<1>7. PhaseControl'
  BY DEF WriteBegin, Free, PhaseControl
<1> QED
  BY <1>1, <1>2, <1>3, <1>4, <1>5, <1>6, <1>7, Parts

LEMMA SwitchMemTableType == TypeInv /\ SwitchMemTable => TypeInv'
<1> SUFFICES ASSUME TypeInv, SwitchMemTable PROVE TypeInv'
  OBVIOUS
<1> USE DEF TypeInv, Typed, Control
<1>0. next_file_number_ \in Nat
  BY DEF FieldType
<1>1. DiskType'
  BY <1>0 DEF SwitchMemTable, DiskType, With, LogFile
<1>2. GhostType'
  BY DEF SwitchMemTable, GhostType
<1>3. FieldType'
  BY DEF SwitchMemTable, FieldType
<1>4. CallType'
  BY DEF SwitchMemTable, CallType
<1>5. SeqBound'
  BY DEF SwitchMemTable, With, SeqBound
<1>6. ApplyControl'
  BY DEF SwitchMemTable, ApplyControl
<1>7. PhaseControl'
  BY DEF SwitchMemTable, Free, PhaseControl
<1> QED
  BY <1>1, <1>2, <1>3, <1>4, <1>5, <1>6, <1>7, Parts

\* A record with the entry of the call is added, or not.
LEMMA WriteLogType == TypeInv /\ WriteLog => TypeInv'
<1> SUFFICES ASSUME TypeInv, WriteLog PROVE TypeInv'
  OBVIOUS
<1> USE DEF TypeInv, Typed, Control
<1>0. PICK ok \in BOOLEAN, read \in BOOLEAN :
        /\ Outcome("log", ok)
        /\ logs' = IF ok \/ read
                   THEN [logs EXCEPT ![logfile_number_].data = @ \cup {write.entry}]
                   ELSE logs
        /\ hidden' = IF ok /\ ~read THEN hidden \cup {write.entry} ELSE hidden
        /\ skewed' = IF ok \/ read THEN skewed ELSE skewed \cup {"log"}
        /\ write' = [write EXCEPT !.step = AfterLog(ok)]
  BY DEF WriteLog
<1>a. write.entry \in Entry /\ write.entry.seq <= calls
  BY DEF CallType, SeqBound
<1>b. AfterLog(ok) \in {"failed", "sync", "insert"}
  BY DEF AfterLog
<1>1. DiskType'
  BY <1>0, <1>a DEF WriteLog, DiskType, LogFile
<1>2. GhostType'
  BY <1>0, <1>a, RecoveryAssumption DEF WriteLog, GhostType, Outcome
<1>3. FieldType'
  BY DEF WriteLog, FieldType
<1>4. CallType'
  BY <1>0, <1>b DEF WriteLog, CallType
<1>5. SeqBound'
  BY <1>0, <1>a DEF WriteLog, SeqBound, DiskType, LogFile, CallType
<1>6. ApplyControl'
  BY DEF WriteLog, ApplyControl
<1>7. PhaseControl'
  BY NoTypes DEF WriteLog, PhaseControl
<1> QED
  BY <1>1, <1>2, <1>3, <1>4, <1>5, <1>6, <1>7, Parts

LEMMA WriteSyncType == TypeInv /\ WriteSync => TypeInv'
<1> SUFFICES ASSUME TypeInv, WriteSync PROVE TypeInv'
  OBVIOUS
<1> USE DEF TypeInv, Typed, Control
<1>0. PICK ok \in BOOLEAN :
        /\ Outcome("log_sync", ok)
        /\ logs' = IF ok
                   THEN [logs EXCEPT ![logfile_number_].synced =
                                       logs[logfile_number_].data]
                   ELSE logs
        /\ write' = [write EXCEPT !.step = IF ok THEN "insert" ELSE "failed"]
  BY DEF WriteSync
<1>1. DiskType'
  BY <1>0 DEF WriteSync, DiskType, LogFile
<1>2. GhostType'
  BY <1>0, RecoveryAssumption DEF WriteSync, GhostType, Outcome
<1>3. FieldType'
  BY DEF WriteSync, FieldType
<1>4. CallType'
  BY <1>0 DEF WriteSync, CallType
<1>5. SeqBound'
  BY <1>0 DEF WriteSync, SeqBound, DiskType, LogFile, CallType
<1>6. ApplyControl'
  BY DEF WriteSync, ApplyControl
<1>7. PhaseControl'
  BY NoTypes DEF WriteSync, PhaseControl
<1> QED
  BY <1>1, <1>2, <1>3, <1>4, <1>5, <1>6, <1>7, Parts

LEMMA WriteEndType == TypeInv /\ WriteEnd => TypeInv'
<1> SUFFICES ASSUME TypeInv, WriteEnd PROVE TypeInv'
  OBVIOUS
<1> USE DEF TypeInv, Typed, Control
<1>0. write.entry \in Entry /\ write.entry.seq \in Nat /\ write.entry.seq <= calls
  BY DEF CallType, Entry, SeqBound
<1>1. DiskType'
  BY DEF WriteEnd, DiskType
<1>2. GhostType'
  BY <1>0 DEF WriteEnd, GhostType
<1>3. FieldType'
  BY <1>0 DEF WriteEnd, FieldType, Inserted
<1>4. CallType'
  BY NoTypes DEF WriteEnd, CallType
<1>5. SeqBound'
  BY <1>0, NoTypes DEF WriteEnd, SeqBound, GhostType
<1>6. ApplyControl'
  BY DEF WriteEnd, ApplyControl
<1>7. PhaseControl'
  BY DEF WriteEnd, Free, PhaseControl
<1> QED
  BY <1>1, <1>2, <1>3, <1>4, <1>5, <1>6, <1>7, Parts

LEMMA IterType == TypeInv /\ (IterBegin \/ IterEnd) => TypeInv'
<1> SUFFICES ASSUME TypeInv, IterBegin \/ IterEnd PROVE TypeInv'
  OBVIOUS
<1> USE DEF TypeInv, Typed, Control
<1>1. DiskType'
  BY DEF IterBegin, IterEnd, DiskType
<1>2. GhostType'
  BY DEF IterBegin, IterEnd, GhostType
<1>3. FieldType'
  BY DEF IterBegin, IterEnd, FieldType
<1>4. CallType'
  BY DEF IterBegin, IterEnd, CallType
<1>5. SeqBound'
  BY DEF IterBegin, IterEnd, SeqBound
<1>6. ApplyControl'
  BY DEF IterBegin, IterEnd, ApplyControl
<1>7. PhaseControl'
  BY DEF IterBegin, IterEnd, Free, PhaseControl
<1> QED
  BY <1>1, <1>2, <1>3, <1>4, <1>5, <1>6, <1>7, Parts

-----------------------------------------------------------------------------
(* DeleteObsoleteFiles(), the end of a compaction and LogAndApply().       *)

\* DeleteObsoleteFiles() dooms files.
LEMMA ObsoleteType ==
  ASSUME DiskType, NEW live, NEW log, NEW manifest
  PROVE  Obsolete(live, log, manifest) \subseteq {"log", "table", "manifest"} \X Nat
BY DEF DiskType, Obsolete

LEMMA DeleteFileType == TypeInv /\ DeleteFile => TypeInv'
<1> SUFFICES ASSUME TypeInv, DeleteFile PROVE TypeInv'
  OBVIOUS
<1> USE DEF TypeInv, Typed, Control
<1>0. PICK d \in doomed :
        /\ doomed' = doomed \ {d}
        /\ logs' = IF d[1] = "log" THEN Without(logs, {d[2]}) ELSE logs
        /\ tables' = IF d[1] = "table" THEN Without(tables, {d[2]}) ELSE tables
        /\ manifests' = IF d[1] = "manifest" THEN Without(manifests, {d[2]})
                        ELSE manifests
  BY DEF DeleteFile
<1>1. DiskType'
  BY <1>0 DEF DeleteFile, DiskType, Without
<1>2. GhostType'
  BY DEF DeleteFile, GhostType
<1>3. FieldType'
  BY DEF DeleteFile, FieldType
<1>4. CallType'
  BY <1>0 DEF DeleteFile, CallType
<1>5. SeqBound'
  <2>1. replay.logs = {}
    BY NoTypes DEF DeleteFile, PhaseControl, FieldType
  <2> QED
    BY <1>0, <2>1 DEF DeleteFile, SeqBound, Without
<1>6. ApplyControl'
  BY <1>0 DEF DeleteFile, ApplyControl
<1>7. PhaseControl'
  BY <1>0 DEF DeleteFile, PhaseControl
<1> QED
  BY <1>1, <1>2, <1>3, <1>4, <1>5, <1>6, <1>7, Parts

\* What the end of a compaction leaves.
LEMMA EndCompactionType ==
  ASSUME TypeInv, NEW cur, EndCompaction(cur)
  PROVE  /\ compact' = NoCompaction /\ flush' = flush
         /\ pending_outputs_' \subseteq pending_outputs_
         /\ doomed' \subseteq {"log", "table", "manifest"} \X Nat
BY ObsoleteType DEF TypeInv, Typed, EndCompaction

\* LogAndApply() returns an error: DB::Open ends, or the flush or compaction does.
LEMMA ApplyFailsType ==
  ASSUME TypeInv, ApplyFails, GhostType'
  PROVE  FieldType' /\ CallType' /\ ApplyControl' /\ PhaseControl'
<1> USE DEF TypeInv, Typed, Control
<1>1. CASE apply.by = "open"
  BY <1>1, FreshKeeps DEF ApplyFails, OpenFails
<1>2. CASE apply.by = "flush"
  <2>1. /\ apply' = NoApply /\ flush' = 0
        /\ UNCHANGED <<compact, pending_outputs_, doomed, phase, memVars, fileVars,
                       last_sequence_, version, held, replay, write>>
    BY <1>2 DEF ApplyFails
  <2>2. FieldType'
    BY <2>1 DEF FieldType
  <2>3. CallType'
    BY <2>1, NoTypes DEF CallType
  <2>4. ApplyControl'
    BY <1>2, <2>1, NoTypes DEF ApplyControl
  <2>5. PhaseControl'
    BY <1>2, <2>1 DEF PhaseControl
  <2> QED
    BY <2>2, <2>3, <2>4, <2>5
<1>3. CASE apply.by = "compact"
  <2>1. /\ apply' = NoApply /\ EndCompaction(version)
        /\ UNCHANGED <<phase, memVars, fileVars, last_sequence_, version, held,
                       replay, write>>
    BY <1>3 DEF ApplyFails
  <2>2. /\ compact' = NoCompaction /\ flush' = flush
        /\ pending_outputs_' \subseteq pending_outputs_
        /\ doomed' \subseteq {"log", "table", "manifest"} \X Nat
    BY <2>1, EndCompactionType
  <2>3. FieldType'
    BY <2>1, <2>2 DEF FieldType
  <2>4. CallType'
    BY <2>1, <2>2, NoTypes DEF CallType
  <2>5. ApplyControl'
    BY <1>3, <2>1, <2>2, NoTypes DEF ApplyControl
  <2>6. PhaseControl'
    BY <1>3, <2>1, <2>2, NoTypes DEF PhaseControl, ApplyControl
  <2> QED
    BY <2>3, <2>4, <2>5, <2>6
<1> QED
  BY <1>1, <1>2, <1>3 DEF ApplyFails

\* An error of LogAndApply() leaves no sequence number that is too large.
LEMMA ApplyFailsSeq ==
  ASSUME TypeInv, ApplyFails, logs' = logs, calls' = calls,
         \A n \in DOMAIN manifests' : \A i \in DOMAIN manifests'[n].edits :
           manifests'[n].edits[i].last <= calls
  PROVE  SeqBound'
<1> USE DEF TypeInv, Typed, Control
<1>1. CASE apply.by = "open"
  <2>1. /\ apply' = NoApply /\ last_sequence_' = 0
        /\ replay' = NoReplay /\ write' = NoWrite
    BY <1>1 DEF ApplyFails, OpenFails, Fresh
  <2>2. calls \in Nat
    BY DEF GhostType
  <2> QED
    BY <2>1, <2>2, NoTypes DEF SeqBound
<1>2. CASE apply.by # "open"
  <2>1. /\ apply' = NoApply
        /\ UNCHANGED <<last_sequence_, replay, write>>
    BY <1>2 DEF ApplyFails
  <2>2. calls \in Nat
    BY DEF GhostType
  <2> QED
    BY <2>1, <2>2, NoTypes DEF SeqBound
<1> QED
  BY <1>1, <1>2

LEMMA SnapshotEditType ==
  ASSUME FieldType
  PROVE  SnapshotEdit \in Edit /\ SnapshotEdit.last = 0
BY DEF FieldType, SnapshotEdit, NoEdit, Edit

\* A MANIFEST with one more record, or all records synced.
LEMMA ManifestAppend ==
  ASSUME DiskType, NEW edit \in Edit, NEW k
  PROVE  LET m == [manifests EXCEPT ![k].edits = Append(@, edit)]
         IN  /\ DOMAIN m = DOMAIN manifests
             /\ \A n \in DOMAIN m :
                  /\ m[n] \in ManifestFile
                  /\ m[n].synced = manifests[n].synced
                  /\ m[n].torn = manifests[n].torn
                  /\ m[n].edits = IF n = k THEN Append(manifests[n].edits, edit)
                                  ELSE manifests[n].edits
                  /\ m[n].synced <= Len(m[n].edits)
<1> DEFINE m == [manifests EXCEPT ![k].edits = Append(@, edit)]
<1>1. DOMAIN m = DOMAIN manifests
  OBVIOUS
<1>2. ASSUME NEW n \in DOMAIN m
      PROVE  /\ m[n] \in ManifestFile
             /\ m[n].synced = manifests[n].synced
             /\ m[n].torn = manifests[n].torn
             /\ m[n].edits = IF n = k THEN Append(manifests[n].edits, edit)
                             ELSE manifests[n].edits
             /\ m[n].synced <= Len(m[n].edits)
  <2>1. /\ manifests[n] \in ManifestFile
        /\ manifests[n].synced <= Len(manifests[n].edits)
    BY DEF DiskType
  <2>2. CASE n # k
    <3>1. m[n] = manifests[n]
      BY <2>2
    <3> QED
      BY <2>1, <2>2, <3>1
  <2>3. CASE n = k
    <3>1. m[n] = [manifests[n] EXCEPT !.edits = Append(@, edit)]
      BY <2>3
    <3>2. /\ manifests[n].edits \in Seq(Edit) /\ manifests[n].synced \in Nat
          /\ manifests[n].torn \in BOOLEAN
      BY <2>1 DEF ManifestFile
    <3>3. /\ Append(manifests[n].edits, edit) \in Seq(Edit)
          /\ Len(Append(manifests[n].edits, edit)) = Len(manifests[n].edits) + 1
          /\ Len(manifests[n].edits) \in Nat
      BY <3>2
    <3>4. /\ m[n].edits = Append(manifests[n].edits, edit)
          /\ m[n].synced = manifests[n].synced
          /\ m[n].torn = manifests[n].torn
      BY <2>1, <3>1 DEF ManifestFile
    <3>5. m[n] \in ManifestFile
      BY <2>1, <3>1, <3>3 DEF ManifestFile
    <3> QED
      BY <2>1, <2>3, <3>2, <3>3, <3>4, <3>5
  <2> QED
    BY <2>2, <2>3
<1> QED
  BY <1>1, <1>2

LEMMA ApplyCreateType == TypeInv /\ ApplyCreate => TypeInv'
<1> SUFFICES ASSUME TypeInv, ApplyCreate PROVE TypeInv'
  OBVIOUS
<1> USE DEF TypeInv, Typed, Control
<1> DEFINE New == [edits |-> <<SnapshotEdit>>, synced |-> 0, torn |-> FALSE]
<1>0. PICK ok \in BOOLEAN :
        /\ Outcome("manifest", ok)
        /\ IF ok
           THEN /\ manifests' = With(manifests, manifest_file_number_, New)
                /\ apply' = [apply EXCEPT !.step = "append"]
                /\ UNCHANGED <<phase, memVars, fileVars, last_sequence_, version,
                               held, bgVars, doomed, replay, write, lost, hidden,
                               skewed>>
           ELSE ApplyFails
  BY DEF ApplyCreate
<1>a. apply.by = "open" /\ manifest_file_number_ \in Nat
  BY DEF ApplyCreate, ApplyControl, FieldType
<1>b. /\ New \in ManifestFile /\ New.synced <= Len(New.edits)
      /\ DOMAIN New.edits = {1} /\ New.edits[1].last = 0
  <2>1. <<SnapshotEdit>> \in Seq(Edit) /\ SnapshotEdit.last = 0
    BY SnapshotEditType
  <2> QED
    BY <2>1 DEF ManifestFile
<1> HIDE DEF New
<1>2. GhostType'
  BY <1>0, <1>a, RecoveryAssumption
     DEF ApplyCreate, GhostType, Outcome, ApplyFails, OpenFails, Fresh
<1>3. CASE ok
  <2>1. DiskType'
    BY <1>0, <1>3, <1>a, <1>b DEF ApplyCreate, DiskType, With
  <2>2. FieldType'
    BY <1>0, <1>3 DEF FieldType
  <2>3. CallType'
    BY <1>0, <1>3 DEF CallType
  <2>4. SeqBound'
    <3>1. manifests' = With(manifests, manifest_file_number_, New)
      BY <1>0, <1>3
    <3>2. calls \in Nat
      BY DEF GhostType
    <3>3. \A n \in DOMAIN manifests' : \A i \in DOMAIN manifests'[n].edits :
            manifests'[n].edits[i].last <= calls
      BY <1>b, <3>1, <3>2 DEF With, SeqBound
    <3> QED
      BY <1>0, <1>3, <3>3 DEF ApplyCreate, SeqBound, CallType
  <2>5. ApplyControl'
    BY <1>0, <1>3, <1>a DEF ApplyControl, CallType
  <2>6. PhaseControl'
    BY <1>0, <1>3 DEF PhaseControl
  <2> QED
    BY <1>2, <2>1, <2>2, <2>3, <2>4, <2>5, <2>6, Parts
<1>4. CASE ~ok
  <2>1. ApplyFails /\ manifests' = Without(manifests, {manifest_file_number_})
    BY <1>0, <1>4, <1>a DEF ApplyFails
  <2>2. DiskType'
    BY <2>1 DEF ApplyCreate, DiskType, Without
  <2>3. SeqBound'
    <3>1. \A n \in DOMAIN manifests' : \A i \in DOMAIN manifests'[n].edits :
            manifests'[n].edits[i].last <= calls
      BY <2>1 DEF Without, SeqBound
    <3> QED
      BY <2>1, <3>1, ApplyFailsSeq DEF ApplyCreate
  <2> QED
    BY <1>2, <2>1, <2>2, <2>3, ApplyFailsType, Parts
<1> QED
  BY <1>3, <1>4

\* The record is in the MANIFEST, also after most errors.
LEMMA ApplyAppendType == TypeInv /\ ApplyAppend => TypeInv'
<1> SUFFICES ASSUME TypeInv, ApplyAppend PROVE TypeInv'
  OBVIOUS
<1> USE DEF TypeInv, Typed, Control
<1> DEFINE App == [manifests EXCEPT ![manifest_file_number_].edits =
                                      Append(@, apply.edit)]
           Half(torn) == [manifests EXCEPT ![manifest_file_number_].torn = @ \/ torn]
<1>0. PICK ok \in BOOLEAN, read \in BOOLEAN, torn \in BOOLEAN :
        /\ Outcome("manifest_append", ok)
        /\ Contest(IF ok /\ read THEN {} ELSE {apply.edit})
        /\ LET m == IF read THEN App ELSE Half(torn)
           IN  IF ok
               THEN /\ manifests' = m
                    /\ apply' = [apply EXCEPT !.step = "sync"]
                    /\ UNCHANGED <<phase, memVars, fileVars, last_sequence_,
                                   version, held, bgVars, doomed, replay, write,
                                   lost, hidden, skewed>>
               ELSE /\ ApplyFails
                    /\ apply.by # "open" =>
                         /\ manifests' = m
                         /\ skewed' = IF read THEN skewed
                                      ELSE skewed \cup {"descriptor"}
  BY DEF ApplyAppend
<1>a. apply.edit \in Edit /\ apply.edit.last <= calls
  BY DEF CallType, SeqBound
<1>b. /\ DOMAIN App = DOMAIN manifests
      /\ \A n \in DOMAIN App :
           /\ App[n] \in ManifestFile
           /\ App[n].synced <= Len(App[n].edits)
           /\ \A i \in DOMAIN App[n].edits : App[n].edits[i].last <= calls
  <2>1. /\ DOMAIN App = DOMAIN manifests
        /\ \A n \in DOMAIN App :
             /\ App[n] \in ManifestFile
             /\ App[n].synced <= Len(App[n].edits)
             /\ App[n].edits = IF n = manifest_file_number_
                               THEN Append(manifests[n].edits, apply.edit)
                               ELSE manifests[n].edits
    BY <1>a, ManifestAppend
  <2>2. ASSUME NEW n \in DOMAIN manifests,
               NEW i \in DOMAIN Append(manifests[n].edits, apply.edit)
        PROVE  Append(manifests[n].edits, apply.edit)[i].last <= calls
    <3>1. manifests[n].edits \in Seq(Edit)
      BY EditTypes
    <3>2. i \in DOMAIN manifests[n].edits \/ i = Len(manifests[n].edits) + 1
      BY <3>1
    <3> QED
      BY <1>a, <3>1, <3>2 DEF SeqBound
  <2> QED
    BY <2>1, <2>2 DEF SeqBound
<1>c. /\ DOMAIN Half(torn) = DOMAIN manifests
      /\ \A n \in DOMAIN manifests :
           /\ Half(torn)[n] \in ManifestFile
           /\ Half(torn)[n].edits = manifests[n].edits
           /\ Half(torn)[n].synced = manifests[n].synced
  <2> DEFINE t == manifests[manifest_file_number_].torn \/ torn
  <2>1. Half(torn) = [manifests EXCEPT ![manifest_file_number_].torn = t]
    OBVIOUS
  <2>2. t \in BOOLEAN
    OBVIOUS
  <2> HIDE DEF t, Half
  <2> QED
    BY <2>1, <2>2 DEF DiskType, ManifestFile
<1>d. manifests' \in {App, Half(torn), Without(manifests, {manifest_file_number_})}
  BY <1>0 DEF ApplyFails
<1> HIDE DEF App, Half
<1>e. /\ DOMAIN manifests' \subseteq DOMAIN manifests
      /\ \A n \in DOMAIN manifests' :
           /\ manifests'[n] \in ManifestFile
           /\ manifests'[n].synced <= Len(manifests'[n].edits)
           /\ \A i \in DOMAIN manifests'[n].edits : manifests'[n].edits[i].last <= calls
  <2>1. CASE manifests' = App
    BY <1>b, <2>1
  <2>2. CASE manifests' = Half(torn)
    BY <1>c, <2>2 DEF DiskType, SeqBound
  <2>3. CASE manifests' = Without(manifests, {manifest_file_number_})
    BY <2>3 DEF DiskType, SeqBound, Without
  <2> QED
    BY <1>d, <2>1, <2>2, <2>3
<1>1. DiskType'
  BY <1>e DEF ApplyAppend, DiskType
<1>2. GhostType'
  <2>1. astray' \subseteq Edit
    BY <1>0, <1>a DEF Contest, GhostType
  <2>2. hidden' = hidden /\ lost' = lost /\ skewed' \subseteq {"log", "descriptor"}
    BY <1>0 DEF GhostType, ApplyFails, OpenFails, Fresh
  <2> QED
    BY <1>0, <2>1, <2>2, RecoveryAssumption DEF ApplyAppend, GhostType, Outcome
<1>3. CASE ok
  <2>1. /\ apply' = [apply EXCEPT !.step = "sync"]
        /\ UNCHANGED <<phase, memVars, fileVars, last_sequence_, version, held,
                       bgVars, doomed, replay, write, lost>>
    BY <1>0, <1>3
  <2>2. FieldType'
    BY <2>1 DEF FieldType
  <2>3. CallType'
    BY <2>1 DEF CallType
  <2>4. SeqBound'
    BY <1>e, <2>1 DEF ApplyAppend, SeqBound, CallType
  <2>5. ApplyControl'
    BY <2>1 DEF ApplyAppend, ApplyControl, CallType
  <2>6. PhaseControl'
    BY <2>1 DEF PhaseControl
  <2> QED
    BY <1>1, <1>2, <2>2, <2>3, <2>4, <2>5, <2>6, Parts
<1>4. CASE ~ok
  <2>1. ApplyFails
    BY <1>0, <1>4
  <2>2. SeqBound'
    BY <1>e, <2>1, ApplyFailsSeq DEF ApplyAppend
  <2> QED
    BY <1>1, <1>2, <2>1, <2>2, ApplyFailsType, Parts
<1> QED
  BY <1>3, <1>4

LEMMA ApplySyncType == TypeInv /\ ApplySync => TypeInv'
<1> SUFFICES ASSUME TypeInv, ApplySync PROVE TypeInv'
  OBVIOUS
<1> USE DEF TypeInv, Typed, Control
<1> DEFINE Synced == [manifests EXCEPT ![manifest_file_number_].synced =
                                         Len(manifests[manifest_file_number_].edits)]
<1>0. PICK ok \in BOOLEAN :
        /\ Outcome("manifest_sync", ok)
        /\ Contest(IF ok THEN {} ELSE {apply.edit})
        /\ IF ok
           THEN /\ manifests' = Synced
                /\ apply' = [apply EXCEPT !.step = AfterSync]
                /\ UNCHANGED <<phase, memVars, fileVars, last_sequence_, version,
                               held, bgVars, doomed, replay, write, lost, hidden,
                               skewed>>
           ELSE /\ ApplyFails
                /\ apply.by # "open" => UNCHANGED <<manifests, skewed>>
  BY DEF ApplySync
<1>a. /\ DOMAIN Synced = DOMAIN manifests
      /\ \A n \in DOMAIN manifests :
           /\ Synced[n] \in ManifestFile
           /\ Synced[n].synced <= Len(Synced[n].edits)
           /\ Synced[n].edits = manifests[n].edits
  BY DEF DiskType, ManifestFile
<1>b. manifests' \in {Synced, manifests, Without(manifests, {manifest_file_number_})}
  BY <1>0 DEF ApplyFails
<1> HIDE DEF Synced
<1>e. /\ DOMAIN manifests' \subseteq DOMAIN manifests
      /\ \A n \in DOMAIN manifests' :
           /\ manifests'[n] \in ManifestFile
           /\ manifests'[n].synced <= Len(manifests'[n].edits)
           /\ \A i \in DOMAIN manifests'[n].edits : manifests'[n].edits[i].last <= calls
  <2>1. CASE manifests' = Synced
    BY <1>a, <2>1 DEF SeqBound
  <2>2. CASE manifests' = manifests
    BY <2>2 DEF DiskType, SeqBound
  <2>3. CASE manifests' = Without(manifests, {manifest_file_number_})
    BY <2>3 DEF DiskType, SeqBound, Without
  <2> QED
    BY <1>b, <2>1, <2>2, <2>3
<1>1. DiskType'
  BY <1>e DEF ApplySync, DiskType
<1>2. GhostType'
  <2>1. astray' \subseteq Edit
    BY <1>0 DEF Contest, GhostType, CallType
  <2>2. hidden' = hidden /\ lost' = lost /\ skewed' \subseteq {"log", "descriptor"}
    BY <1>0 DEF GhostType, ApplyFails, OpenFails, Fresh
  <2> QED
    BY <1>0, <2>1, <2>2, RecoveryAssumption DEF ApplySync, GhostType, Outcome
<1>3. CASE ok
  <2>1. /\ apply' = [apply EXCEPT !.step = AfterSync]
        /\ AfterSync \in {"current", "install"}
        /\ AfterSync = "current" => apply.by = "open"
        /\ UNCHANGED <<phase, memVars, fileVars, last_sequence_, version, held,
                       bgVars, doomed, replay, write, lost>>
    BY <1>0, <1>3 DEF AfterSync
  <2>2. FieldType'
    BY <2>1 DEF FieldType
  <2>3. CallType'
    BY <2>1 DEF CallType
  <2>4. SeqBound'
    BY <1>e, <2>1 DEF ApplySync, SeqBound, CallType
  <2>5. ApplyControl'
    BY <2>1 DEF ApplySync, ApplyControl, CallType
  <2>6. PhaseControl'
    BY <2>1 DEF PhaseControl
  <2> QED
    BY <1>1, <1>2, <2>2, <2>3, <2>4, <2>5, <2>6, Parts
<1>4. CASE ~ok
  <2>1. ApplyFails
    BY <1>0, <1>4
  <2>2. SeqBound'
    BY <1>e, <2>1, ApplyFailsSeq DEF ApplySync
  <2> QED
    BY <1>1, <1>2, <2>1, <2>2, ApplyFailsType, Parts
<1> QED
  BY <1>3, <1>4

LEMMA ApplyCurrentType == TypeInv /\ ApplyCurrent => TypeInv'
<1> SUFFICES ASSUME TypeInv, ApplyCurrent PROVE TypeInv'
  OBVIOUS
<1> USE DEF TypeInv, Typed, Control
<1>0. PICK ok \in BOOLEAN :
        /\ Outcome("current", ok)
        /\ IF ok
           THEN /\ current' = manifest_file_number_
                /\ apply' = [apply EXCEPT !.step = "install"]
                /\ UNCHANGED <<manifests, phase, memVars, fileVars, last_sequence_,
                               version, held, bgVars, doomed, replay, write, lost,
                               hidden, skewed>>
           ELSE ApplyFails /\ UNCHANGED current
  BY DEF ApplyCurrent
<1>a. apply.by = "open" /\ manifest_file_number_ \in Nat
  BY DEF ApplyCurrent, ApplyControl, FieldType
<1>2. GhostType'
  BY <1>0, <1>a, RecoveryAssumption
     DEF ApplyCurrent, GhostType, Outcome, ApplyFails, OpenFails, Fresh
<1>3. CASE ok
  <2>1. DiskType'
    BY <1>0, <1>3, <1>a DEF ApplyCurrent, DiskType
  <2>2. FieldType'
    BY <1>0, <1>3 DEF FieldType
  <2>3. CallType'
    BY <1>0, <1>3 DEF CallType
  <2>4. SeqBound'
    BY <1>0, <1>3 DEF ApplyCurrent, SeqBound, CallType
  <2>5. ApplyControl'
    BY <1>0, <1>3, <1>a DEF ApplyControl, CallType
  <2>6. PhaseControl'
    BY <1>0, <1>3 DEF PhaseControl
  <2> QED
    BY <1>2, <2>1, <2>2, <2>3, <2>4, <2>5, <2>6, Parts
<1>4. CASE ~ok
  <2>1. /\ ApplyFails /\ current' = current
        /\ manifests' = Without(manifests, {manifest_file_number_})
    BY <1>0, <1>4, <1>a DEF ApplyFails
  <2>2. DiskType'
    BY <2>1 DEF ApplyCurrent, DiskType, Without
  <2>3. SeqBound'
    <3>1. \A n \in DOMAIN manifests' : \A i \in DOMAIN manifests'[n].edits :
            manifests'[n].edits[i].last <= calls
      BY <2>1 DEF Without, SeqBound
    <3> QED
      BY <2>1, <3>1, ApplyFailsSeq DEF ApplyCurrent
  <2> QED
    BY <1>2, <2>1, <2>2, <2>3, ApplyFailsType, Parts
<1> QED
  BY <1>3, <1>4

LEMMA ApplyInstallType == TypeInv /\ ApplyInstall => TypeInv'
<1> SUFFICES ASSUME TypeInv, ApplyInstall PROVE TypeInv'
  OBVIOUS
<1> USE DEF TypeInv, Typed, Control
<1>0. /\ version' = VersionAfter /\ log_number_' = apply.edit.log
      /\ apply' = NoApply /\ doomed = {}
      /\ UNCHANGED <<diskVars, logfile_number_, next_file_number_,
                     manifest_file_number_, last_sequence_, held, write, ghostVars,
                     faults, lost, errVars>>
  BY DEF ApplyInstall
<1>a. VersionAfter \subseteq Nat /\ apply.edit.log \in Nat
  BY DEF VersionAfter, FieldType, CallType, Edit
<1>1. DiskType'
  BY <1>0 DEF DiskType
<1>2. GhostType'
  BY <1>0 DEF GhostType
<1>3. CASE apply.by = "open"
  <2>1. /\ phase' = "up" /\ replay' = NoReplay
        /\ doomed' = Obsolete(version', log_number_', manifest_file_number_)
        /\ UNCHANGED <<memVars, bgVars>>
    BY <1>3 DEF ApplyInstall
  <2>2. doomed' \subseteq {"log", "table", "manifest"} \X Nat
    BY <2>1, ObsoleteType
  <2>3. FieldType'
    BY <1>0, <1>a, <2>1 DEF FieldType
  <2>4. CallType'
    BY <1>0, <2>1, <2>2, NoTypes DEF CallType
  <2>5. SeqBound'
    BY <1>0, <2>1, NoTypes DEF SeqBound, GhostType
  <2>6. ApplyControl'
    BY <1>0, <1>3, <2>1, NoTypes DEF ApplyControl, PhaseControl
  <2>7. PhaseControl'
    BY <1>0, <1>3, <2>1, NoTypes DEF ApplyControl, PhaseControl
  <2> QED
    BY <1>1, <1>2, <2>3, <2>4, <2>5, <2>6, <2>7, Parts
<1>4. CASE apply.by = "flush"
  <2>1. /\ imm_' = {} /\ has_imm_' = FALSE /\ flush' = 0
        /\ doomed' = Obsolete(pending_outputs_ \cup LiveFiles(version', compact.base),
                              log_number_', manifest_file_number_)
        /\ UNCHANGED <<phase, mem_, compact, pending_outputs_, replay>>
    BY <1>4 DEF ApplyInstall
  <2>2. doomed' \subseteq {"log", "table", "manifest"} \X Nat
    BY <2>1, ObsoleteType
  <2>3. FieldType'
    BY <1>0, <1>a, <2>1 DEF FieldType
  <2>4. CallType'
    BY <1>0, <2>1, <2>2, NoTypes DEF CallType
  <2>5. SeqBound'
    BY <1>0, <2>1, NoTypes DEF SeqBound, GhostType
  <2>6. ApplyControl'
    BY <1>0, <1>4, <2>1, NoTypes DEF ApplyControl, PhaseControl
  <2>7. PhaseControl'
    BY <1>0, <1>4, <2>1, NoTypes DEF ApplyControl, PhaseControl
  <2> QED
    BY <1>1, <1>2, <2>3, <2>4, <2>5, <2>6, <2>7, Parts
<1>5. CASE apply.by = "compact"
  <2>1. EndCompaction(version') /\ UNCHANGED <<phase, memVars, replay>>
    BY <1>5 DEF ApplyInstall
  <2>2. /\ compact' = NoCompaction /\ flush' = flush
        /\ pending_outputs_' \subseteq pending_outputs_
        /\ doomed' \subseteq {"log", "table", "manifest"} \X Nat
    BY <2>1, EndCompactionType
  <2>3. FieldType'
    BY <1>0, <1>a, <2>1, <2>2 DEF FieldType
  <2>4. CallType'
    BY <1>0, <2>1, <2>2, NoTypes DEF CallType
  <2>5. SeqBound'
    BY <1>0, <2>1, NoTypes DEF SeqBound, GhostType
  <2>6. ApplyControl'
    BY <1>0, <1>5, <2>1, <2>2, NoTypes DEF ApplyControl
  <2>7. PhaseControl'
    BY <1>0, <1>5, <2>1, <2>2, NoTypes DEF ApplyControl, PhaseControl
  <2> QED
    BY <1>1, <1>2, <2>3, <2>4, <2>5, <2>6, <2>7, Parts
<1> QED
  BY <1>3, <1>4, <1>5 DEF ApplyInstall

-----------------------------------------------------------------------------
(* The background thread.                                                  *)

LEMMA FlushBeginType == TypeInv /\ FlushBegin => TypeInv'
<1> SUFFICES ASSUME TypeInv, FlushBegin PROVE TypeInv'
  OBVIOUS
<1> USE DEF TypeInv, Typed, Control
<1>1. DiskType'
  BY DEF FlushBegin, DiskType
<1>2. GhostType'
  BY DEF FlushBegin, GhostType
<1>3. FieldType'
  BY DEF FlushBegin, FieldType
<1>4. CallType'
  BY DEF FlushBegin, CallType
<1>5. SeqBound'
  BY DEF FlushBegin, SeqBound
<1>6. ApplyControl'
  BY DEF FlushBegin, Free, ApplyControl
<1>7. PhaseControl'
  BY DEF FlushBegin, Free, PhaseControl
<1> QED
  BY <1>1, <1>2, <1>3, <1>4, <1>5, <1>6, <1>7, Parts

\* A table is built and LogAndApply() starts, or the flush is given up.
LEMMA FlushBuildType == TypeInv /\ FlushBuild => TypeInv'
<1> SUFFICES ASSUME TypeInv, FlushBuild PROVE TypeInv'
  OBVIOUS
<1> USE DEF TypeInv, Typed, Control
<1>0. PICK ok \in BOOLEAN :
        /\ Outcome("table", ok)
        /\ IF ok
           THEN /\ tables' = With(tables, flush, NewTable(imm_, FALSE))
                /\ apply' = StartApply("flush", {flush}, {}, logfile_number_,
                                       next_file_number_, last_sequence_)
                /\ UNCHANGED flush
           ELSE /\ flush' = 0
                /\ UNCHANGED <<tables, apply>>
  BY DEF FlushBuild
<1>a. /\ flush \in Nat /\ imm_ \subseteq Entry /\ last_sequence_ \in Nat
      /\ logfile_number_ \in Nat /\ next_file_number_ \in Nat
  BY DEF FieldType
<1>b. NewTable(imm_, FALSE) \in TableFile
  BY <1>a DEF NewTable, TableFile
<1>2. GhostType'
  BY <1>0, RecoveryAssumption DEF FlushBuild, GhostType, Outcome
<1>3. FieldType'
  <2>1. flush' \in {flush, 0} /\ pending_outputs_' = pending_outputs_ \ {flush}
    BY <1>0 DEF FlushBuild
  <2> QED
    BY <2>1 DEF FlushBuild, FieldType
<1>4. PhaseControl'
  BY <1>0 DEF FlushBuild, Free, PhaseControl
<1>5. CASE ok
  <2> DEFINE a == StartApply("flush", {flush}, {}, logfile_number_,
                             next_file_number_, last_sequence_)
  <2>0. /\ a \in [by : {"none", "open", "flush", "compact"},
                  step : {"none", "create", "append", "sync", "current", "install"},
                  edit : Edit]
        /\ a.by = "flush" /\ a.step = "append"
        /\ a.edit.last = last_sequence_
    BY <1>a DEF StartApply, Edit
  <2>1. /\ apply' \in [by : {"none", "open", "flush", "compact"},
                       step : {"none", "create", "append", "sync", "current",
                               "install"},
                       edit : Edit]
        /\ apply'.by = "flush" /\ apply'.step = "append"
        /\ apply'.edit.last = last_sequence_
    BY <1>0, <1>5, <2>0
  <2>2. DiskType'
    BY <1>0, <1>5, <1>a, <1>b DEF FlushBuild, DiskType, With
  <2>3. CallType'
    BY <2>1 DEF FlushBuild, CallType
  <2>4. SeqBound'
    BY <2>1 DEF FlushBuild, SeqBound
  <2>5. ApplyControl'
    BY <1>0, <1>5, <2>1 DEF FlushBuild, Free, ApplyControl
  <2> QED
    BY <1>2, <1>3, <1>4, <2>2, <2>3, <2>4, <2>5, Parts
<1>6. CASE ~ok
  <2>1. flush' = 0 /\ UNCHANGED <<tables, apply>>
    BY <1>0, <1>6
  <2>2. DiskType'
    BY <2>1 DEF FlushBuild, DiskType
  <2>3. CallType'
    BY <2>1 DEF FlushBuild, CallType
  <2>4. SeqBound'
    BY <2>1 DEF FlushBuild, SeqBound
  <2>5. ApplyControl'
    BY <2>1 DEF FlushBuild, Free, ApplyControl
  <2> QED
    BY <1>2, <1>3, <1>4, <2>2, <2>3, <2>4, <2>5, Parts
<1> QED
  BY <1>5, <1>6

\* What tables hold are entries.
LEMMA DataOfType ==
  ASSUME DiskType, NEW S
  PROVE  DataOf(S) \subseteq Entry
BY DEF DiskType, DataOf, TableFile

LEMMA CompactBeginType == TypeInv /\ CompactBegin => TypeInv'
<1> SUFFICES ASSUME TypeInv, CompactBegin PROVE TypeInv'
  OBVIOUS
<1> USE DEF TypeInv, Typed, Control
<1>0. PICK inputs \in SUBSET version \ {{}} :
        compact' = [NoCompaction EXCEPT !.on = TRUE, !.base = version,
                                        !.inputs = inputs, !.todo = DataOf(inputs)]
  BY DEF CompactBegin
<1>a. compact' = [on |-> TRUE, base |-> version, inputs |-> inputs, outputs |-> {},
                  builder |-> 0, todo |-> DataOf(inputs)]
  BY <1>0 DEF NoCompaction
<1>b. version \subseteq Nat
  BY DEF FieldType
<1>1. DiskType'
  BY DEF CompactBegin, DiskType
<1>2. GhostType'
  BY DEF CompactBegin, GhostType
<1>3. FieldType'
  BY DEF CompactBegin, FieldType
<1>4. CallType'
  BY <1>a, <1>b, DataOfType DEF CompactBegin, CallType
<1>5. SeqBound'
  BY DEF CompactBegin, SeqBound
<1>6. ApplyControl'
  BY <1>a DEF CompactBegin, ApplyControl
<1>7. PhaseControl'
  BY <1>a DEF CompactBegin, Free, PhaseControl
<1> QED
  BY <1>1, <1>2, <1>3, <1>4, <1>5, <1>6, <1>7, Parts

\* A step of the merge that ends the compaction keeps the invariant.
LEMMA EndCompactionKeeps ==
  ASSUME TypeInv, Merging, EndCompaction(version), DiskType', GhostType',
         next_file_number_' \in Nat, logs' = logs, manifests' = manifests,
         calls' = calls,
         UNCHANGED <<phase, memVars, logfile_number_, log_number_,
                     manifest_file_number_, last_sequence_, version, held, apply,
                     replay, write>>
  PROVE  TypeInv'
<1> USE DEF TypeInv, Typed, Control
<1>1. /\ compact' = NoCompaction /\ flush' = flush
      /\ pending_outputs_' \subseteq pending_outputs_
      /\ doomed' \subseteq {"log", "table", "manifest"} \X Nat
  BY EndCompactionType
<1>2. FieldType'
  BY <1>1 DEF FieldType
<1>3. CallType'
  BY <1>1, NoTypes DEF CallType
<1>4. SeqBound'
  BY DEF SeqBound
<1>5. ApplyControl'
  BY <1>1, NoTypes DEF Merging, Free, ApplyControl
<1>6. PhaseControl'
  BY <1>1, NoTypes DEF Merging, Free, PhaseControl
<1> QED
  BY <1>2, <1>3, <1>4, <1>5, <1>6, Parts

LEMMA CompactOpenType == TypeInv /\ CompactOpen => TypeInv'
<1> SUFFICES ASSUME TypeInv, CompactOpen PROVE TypeInv'
  OBVIOUS
<1> USE DEF TypeInv, Typed, Control
<1>0. PICK ok \in BOOLEAN :
        /\ Outcome("output", ok)
        /\ IF ok
           THEN /\ pending_outputs_' = pending_outputs_ \cup {next_file_number_}
                /\ compact' = [compact EXCEPT !.builder = next_file_number_,
                                 !.outputs = @ \cup {next_file_number_}]
                /\ tables' = With(tables, next_file_number_, NewTable({}, FALSE))
                /\ UNCHANGED <<flush, doomed>>
           ELSE EndCompaction(version) /\ UNCHANGED tables
  BY DEF CompactOpen
<1>a. next_file_number_ \in Nat /\ next_file_number_' = next_file_number_ + 1
  BY DEF CompactOpen, FieldType
<1>b. NewTable({}, FALSE) \in TableFile
  BY DEF NewTable, TableFile
<1>1. DiskType'
  BY <1>0, <1>a, <1>b DEF CompactOpen, DiskType, With
<1>2. GhostType'
  BY <1>0, RecoveryAssumption DEF CompactOpen, GhostType, Outcome
<1>3. CASE ok
  <2>1. FieldType'
    BY <1>0, <1>3, <1>a DEF CompactOpen, FieldType
  <2>2. CallType'
    <3>1. compact' \in [on : BOOLEAN, base : SUBSET Nat, inputs : SUBSET Nat,
                        outputs : SUBSET Nat, builder : Nat, todo : SUBSET Entry]
      <4>1. /\ compact \in [on : BOOLEAN, base : SUBSET Nat, inputs : SUBSET Nat,
                            outputs : SUBSET Nat, builder : Nat, todo : SUBSET Entry]
            /\ compact.outputs \cup {next_file_number_} \in SUBSET Nat
        BY <1>a DEF CallType
      <4>2. compact' = [compact EXCEPT !.builder = next_file_number_,
                          !.outputs = compact.outputs \cup {next_file_number_}]
        BY <1>0, <1>3
      <4> QED
        BY <1>a, <4>1, <4>2
    <3> QED
      BY <1>0, <1>3, <3>1 DEF CompactOpen, CallType
  <2>3. SeqBound'
    BY DEF CompactOpen, SeqBound
  <2>4. ApplyControl'
    BY <1>0, <1>3 DEF CompactOpen, ApplyControl, Merging, CallType
  <2>5. PhaseControl'
    BY <1>0, <1>3 DEF CompactOpen, PhaseControl, Merging, Free, CallType
  <2> QED
    BY <1>1, <1>2, <2>1, <2>2, <2>3, <2>4, <2>5, Parts
<1>4. CASE ~ok
  BY <1>0, <1>1, <1>2, <1>4, <1>a, EndCompactionKeeps DEF CompactOpen
<1> QED
  BY <1>3, <1>4

LEMMA CompactFinishType == TypeInv /\ CompactFinish => TypeInv'
<1> SUFFICES ASSUME TypeInv, CompactFinish PROVE TypeInv'
  OBVIOUS
<1> USE DEF TypeInv, Typed, Control
<1>0. PICK ok \in BOOLEAN, chunk \in SUBSET compact.todo \ {{}} :
        /\ Outcome("output", ok)
        /\ tables' = [tables EXCEPT ![compact.builder] = NewTable(chunk, ok)]
        /\ IF ok
           THEN /\ compact' = [compact EXCEPT !.builder = 0, !.todo = @ \ chunk]
                /\ UNCHANGED <<flush, pending_outputs_, doomed>>
           ELSE EndCompaction(version)
  BY DEF CompactFinish
<1>a. NewTable(chunk, ok) \in TableFile
  BY DEF NewTable, TableFile, CallType
<1>1. DiskType'
  BY <1>0, <1>a DEF CompactFinish, DiskType
<1>2. GhostType'
  BY <1>0, RecoveryAssumption DEF CompactFinish, GhostType, Outcome
<1>3. CASE ok
  <2>1. FieldType'
    BY <1>0, <1>3 DEF CompactFinish, FieldType
  <2>2. CallType'
    <3>1. compact' \in [on : BOOLEAN, base : SUBSET Nat, inputs : SUBSET Nat,
                        outputs : SUBSET Nat, builder : Nat, todo : SUBSET Entry]
      <4>1. /\ compact \in [on : BOOLEAN, base : SUBSET Nat, inputs : SUBSET Nat,
                            outputs : SUBSET Nat, builder : Nat, todo : SUBSET Entry]
            /\ compact.todo \ chunk \in SUBSET Entry
        BY DEF CallType
      <4>2. compact' = [compact EXCEPT !.builder = 0, !.todo = compact.todo \ chunk]
        BY <1>0, <1>3
      <4> QED
        BY <4>1, <4>2
    <3> QED
      BY <1>0, <1>3, <3>1 DEF CompactFinish, CallType
  <2>3. SeqBound'
    BY DEF CompactFinish, SeqBound
  <2>4. ApplyControl'
    BY <1>0, <1>3 DEF CompactFinish, ApplyControl, Merging, CallType
  <2>5. PhaseControl'
    <3>1. phase = "up" /\ compact.on /\ flush = 0
      BY DEF CompactFinish, Merging, Free
    <3>2. compact'.on
      BY <1>0, <1>3, <3>1 DEF CallType
    <3>3. UNCHANGED <<phase, memVars, flush, replay, version>>
      BY <1>0, <1>3 DEF CompactFinish
    <3> QED
      BY <3>1, <3>2, <3>3 DEF PhaseControl
  <2> QED
    BY <1>1, <1>2, <2>1, <2>2, <2>3, <2>4, <2>5, Parts
<1>4. CASE ~ok
  BY <1>0, <1>1, <1>2, <1>4, EndCompactionKeeps DEF CompactFinish, FieldType
<1> QED
  BY <1>3, <1>4

LEMMA CompactErrorType == TypeInv /\ CompactError => TypeInv'
<1> SUFFICES ASSUME TypeInv, CompactError PROVE TypeInv'
  OBVIOUS
<1>1. DiskType'
  BY DEF TypeInv, Typed, CompactError, DiskType
<1>2. GhostType'
  BY DEF TypeInv, Typed, CompactError, GhostType
<1>3. next_file_number_' \in Nat
  BY DEF TypeInv, Typed, CompactError, FieldType
<1> QED
  BY <1>1, <1>2, <1>3, EndCompactionKeeps DEF CompactError

LEMMA CompactInstallType == TypeInv /\ CompactInstall => TypeInv'
<1> SUFFICES ASSUME TypeInv, CompactInstall PROVE TypeInv'
  OBVIOUS
<1> USE DEF TypeInv, Typed, Control
<1>0. /\ last_sequence_ \in Nat /\ log_number_ \in Nat /\ next_file_number_ \in Nat
      /\ compact.outputs \in SUBSET Nat /\ compact.inputs \in SUBSET Nat
  BY DEF FieldType, CallType
<1> DEFINE a == StartApply("compact", compact.outputs, compact.inputs, log_number_,
                           next_file_number_, last_sequence_)
<1>b. /\ a \in [by : {"none", "open", "flush", "compact"},
                step : {"none", "create", "append", "sync", "current", "install"},
                edit : Edit]
      /\ a.by = "compact" /\ a.step = "append"
      /\ a.edit.last = last_sequence_
  BY <1>0 DEF StartApply, Edit
<1>a. /\ apply' \in [by : {"none", "open", "flush", "compact"},
                     step : {"none", "create", "append", "sync", "current",
                             "install"},
                     edit : Edit]
      /\ apply'.by = "compact" /\ apply'.step = "append"
      /\ apply'.edit.last = last_sequence_
  BY <1>b DEF CompactInstall
<1>1. DiskType'
  BY DEF CompactInstall, DiskType
<1>2. GhostType'
  BY DEF CompactInstall, GhostType
<1>3. FieldType'
  BY DEF CompactInstall, FieldType
<1>4. CallType'
  BY <1>a DEF CompactInstall, CallType
<1>5. SeqBound'
  BY <1>a DEF CompactInstall, SeqBound
<1>6. ApplyControl'
  BY <1>a DEF CompactInstall, Merging, Free, ApplyControl
<1>7. PhaseControl'
  BY DEF CompactInstall, PhaseControl
<1> QED
  BY <1>1, <1>2, <1>3, <1>4, <1>5, <1>6, <1>7, Parts

-----------------------------------------------------------------------------
(* DB::Open.                                                               *)

LEMMA NewDBType == TypeInv /\ NewDB => TypeInv'
<1> SUFFICES ASSUME TypeInv, NewDB PROVE TypeInv'
  OBVIOUS
<1> USE DEF TypeInv, Typed, Control
<1>0. PICK ok \in BOOLEAN :
        /\ Outcome("manifest", ok)
        /\ manifests' = IF ok THEN With(manifests, 1, FirstManifest)
                        ELSE Without(manifests, {1})
        /\ phase' = IF ok THEN "newdb" ELSE "down"
  BY DEF NewDB
<1>a. /\ FirstManifest \in ManifestFile
      /\ FirstManifest.synced <= Len(FirstManifest.edits)
      /\ DOMAIN FirstManifest.edits = {1} /\ FirstManifest.edits[1].last = 0
  <2> DEFINE first == [NoEdit EXCEPT !.meta = TRUE, !.next = 2]
  <2>1. first \in Edit /\ first.last = 0
    BY DEF NoEdit, Edit
  <2>2. <<first>> \in Seq(Edit) /\ Len(<<first>>) = 1
    BY <2>1
  <2>3. FirstManifest = [edits |-> <<first>>, synced |-> 0, torn |-> FALSE]
    BY DEF FirstManifest
  <2> HIDE DEF first
  <2> QED
    BY <2>1, <2>2, <2>3 DEF ManifestFile
<1>1. DiskType'
  BY <1>0, <1>a DEF NewDB, DiskType, With, Without
<1>2. GhostType'
  BY <1>0, RecoveryAssumption DEF NewDB, GhostType, Outcome
<1>3. FieldType'
  BY <1>0 DEF NewDB, FieldType
<1>4. CallType'
  BY DEF NewDB, CallType
<1>5. SeqBound'
  <2>1. calls \in Nat
    BY DEF GhostType
  <2>2. \A n \in DOMAIN manifests' : \A i \in DOMAIN manifests'[n].edits :
          manifests'[n].edits[i].last <= calls
    BY <1>0, <1>a, <2>1 DEF With, Without, SeqBound
  <2> QED
    BY <2>2 DEF NewDB, SeqBound
<1>6. ApplyControl'
  BY <1>0 DEF NewDB, ApplyControl
<1>7. PhaseControl'
  BY <1>0 DEF NewDB, PhaseControl
<1> QED
  BY <1>1, <1>2, <1>3, <1>4, <1>5, <1>6, <1>7, Parts

LEMMA NewDBCurrentType == TypeInv /\ NewDBCurrent => TypeInv'
<1> SUFFICES ASSUME TypeInv, NewDBCurrent PROVE TypeInv'
  OBVIOUS
<1> USE DEF TypeInv, Typed, Control
<1>0. PICK ok \in BOOLEAN :
        /\ Outcome("current", ok)
        /\ current' = IF ok THEN 1 ELSE current
        /\ phase' = IF ok THEN "recover" ELSE "down"
  BY DEF NewDBCurrent
<1>1. DiskType'
  BY <1>0 DEF NewDBCurrent, DiskType
<1>2. GhostType'
  BY <1>0, RecoveryAssumption DEF NewDBCurrent, GhostType, Outcome
<1>3. FieldType'
  BY <1>0 DEF NewDBCurrent, FieldType
<1>4. CallType'
  BY DEF NewDBCurrent, CallType
<1>5. SeqBound'
  BY DEF NewDBCurrent, SeqBound
<1>6. ApplyControl'
  BY <1>0 DEF NewDBCurrent, ApplyControl
<1>7. PhaseControl'
  BY <1>0 DEF NewDBCurrent, PhaseControl
<1> QED
  BY <1>1, <1>2, <1>3, <1>4, <1>5, <1>6, <1>7, Parts

\* The last record of a MANIFEST that has the fields of the VersionSet.
LEMMA LastMetaIs ==
  ASSUME NEW edits \in Seq(Edit), MetaEdits(edits) # {}
  PROVE  /\ Max(MetaEdits(edits)) \in MetaEdits(edits)
         /\ Max(MetaEdits(edits)) \in DOMAIN edits
         /\ \A i \in MetaEdits(edits) : i <= Max(MetaEdits(edits))
         /\ LastMeta(edits) \in Edit
         /\ LastMeta(edits) = edits[Max(MetaEdits(edits))]
<1>1. /\ MetaEdits(edits) \subseteq Nat /\ Len(edits) \in Nat
      /\ MetaEdits(edits) \subseteq DOMAIN edits
      /\ \A i \in MetaEdits(edits) : i <= Len(edits)
  BY DEF MetaEdits
<1>2. /\ Max(MetaEdits(edits)) \in MetaEdits(edits)
      /\ \A i \in MetaEdits(edits) : i <= Max(MetaEdits(edits))
  BY <1>1, MaxNat
<1> QED
  BY <1>1, <1>2 DEF LastMeta

LEMMA RecoverManifestType == TypeInv /\ RecoverManifest => TypeInv'
<1> SUFFICES ASSUME TypeInv, RecoverManifest PROVE TypeInv'
  OBVIOUS
<1> USE DEF TypeInv, Typed, Control
<1>1. DiskType'
  BY DEF RecoverManifest, DiskType
<1>2. GhostType'
  BY DEF RecoverManifest, GhostType, OpenFails, Fresh
<1>3. CASE Readable
  <2> DEFINE m == LastMeta(manifests[current].edits)
  <2>1. /\ phase' = "replay" /\ version' = DiskVersion
        /\ manifest_file_number_' = m.next /\ next_file_number_' = m.next + 1
        /\ last_sequence_' = m.last /\ log_number_' = m.log
        /\ replay' = [NoReplay EXCEPT !.logs = DiskLogs]
        /\ UNCHANGED <<memVars, logfile_number_, held, bgVars, apply, doomed, write>>
    BY <1>3 DEF RecoverManifest
  <2>2. phase \in {"down", "recover"}
    BY DEF RecoverManifest
  <2>3. /\ current \in DOMAIN manifests
        /\ manifests[current].edits \in Seq(Edit)
        /\ MetaEdits(manifests[current].edits) # {}
    BY <1>3, EditTypes DEF Readable
  <2>4. m \in Edit /\ m.last <= calls
    BY <2>3, LastMetaIs DEF SeqBound
  <2>5. m.next \in Nat /\ m.last \in Nat /\ m.log \in Nat
    BY <2>4 DEF Edit
  <2>6. DiskVersion \subseteq Nat
    <3>1. ASSUME NEW i \in DOMAIN manifests[current].edits
          PROVE  manifests[current].edits[i].add \subseteq Nat
      <4>1. manifests[current].edits[i] \in Edit
        BY <2>3
      <4> QED
        BY <4>1 DEF Edit
    <3> QED
      BY <3>1 DEF DiskVersion, LiveIn
  <2>7. DiskLogs \subseteq DOMAIN logs /\ DiskLogs \subseteq Nat
    BY DEF DiskLogs, DiskType
  <2> HIDE DEF m
  <2>8. replay' = [logs |-> DiskLogs, rest |-> {}, add |-> {}, max |-> 0,
                   ok |-> TRUE, passed |-> {}]
    BY <2>1 DEF NoReplay
  <2>9. FieldType'
    BY <2>1, <2>5, <2>6 DEF FieldType
  <2>10. CallType'
    <3>1. replay' \in [logs : SUBSET Nat, rest : SUBSET Entry, add : SUBSET Nat,
                       max : Nat, ok : BOOLEAN, passed : SUBSET Entry]
      BY <2>7, <2>8
    <3> QED
      BY <2>1, <3>1 DEF CallType
  <2>11. SeqBound'
    <3>1. calls \in Nat /\ UNCHANGED <<logs, manifests, calls>>
      BY DEF RecoverManifest, GhostType
    <3> QED
      BY <2>1, <2>4, <2>7, <2>8, <3>1 DEF SeqBound
  <2>12. ApplyControl'
    BY <2>1, <2>2 DEF ApplyControl
  <2>13. PhaseControl'
    BY <2>1, <2>2, <2>8 DEF PhaseControl
  <2> QED
    BY <1>1, <1>2, <2>9, <2>10, <2>11, <2>12, <2>13, Parts
<1>4. CASE ~Readable
  <2>1. OpenFails /\ UNCHANGED <<logs, manifests, calls>>
    BY <1>4 DEF RecoverManifest
  <2> QED
    BY <1>1, <1>2, <2>1, FreshKeeps, Parts DEF OpenFails
<1> QED
  BY <1>3, <1>4

LEMMA ReplayLogType == TypeInv /\ ReplayLog => TypeInv'
<1> SUFFICES ASSUME TypeInv, ReplayLog PROVE TypeInv'
  OBVIOUS
<1> USE DEF TypeInv, Typed, Control
<1> DEFINE n == Min(replay.logs)
<1>0. PICK ok \in BOOLEAN :
        /\ Outcome("open_log", ok)
        /\ replay' = [replay EXCEPT !.logs = @ \ {n}, !.ok = TRUE,
                        !.rest = IF ok THEN logs[n].data \ hidden ELSE {},
                        !.passed = @ \cup IF ok THEN logs[n].data \cap hidden
                                         ELSE logs[n].data]
  BY DEF ReplayLog
<1>a. n \in replay.logs /\ n \in DOMAIN logs /\ n \in Nat
  BY MinNat DEF ReplayLog, SeqBound, DiskType
<1>b. /\ logs[n].data \subseteq Entry
      /\ \A e \in logs[n].data : e.seq <= calls
  BY <1>a DEF DiskType, LogFile, SeqBound
<1>c. logfile_number_' = n /\ phase' = "read" /\ phase = "replay"
  BY DEF ReplayLog
<1> HIDE DEF n
<1>d. /\ replay'.logs = replay.logs \ {n}
      /\ replay'.rest \subseteq logs[n].data
      /\ replay'.max = replay.max
      /\ replay'.passed \subseteq replay.passed \cup logs[n].data
      /\ replay' \in [logs : SUBSET Nat, rest : SUBSET Entry, add : SUBSET Nat,
                      max : Nat, ok : BOOLEAN, passed : SUBSET Entry]
  <2>1. /\ replay \in [logs : SUBSET Nat, rest : SUBSET Entry, add : SUBSET Nat,
                       max : Nat, ok : BOOLEAN, passed : SUBSET Entry]
        /\ replay.logs \ {n} \in SUBSET Nat
    BY DEF CallType
  <2> DEFINE rest == IF ok THEN logs[n].data \ hidden ELSE {}
             gone == IF ok THEN logs[n].data \cap hidden ELSE logs[n].data
             passed == replay.passed \cup gone
  <2>2. rest \subseteq logs[n].data /\ gone \subseteq logs[n].data
    OBVIOUS
  <2>3. rest \in SUBSET Entry /\ passed \in SUBSET Entry
    BY <1>b, <2>1, <2>2
  <2>4. replay' = [replay EXCEPT !.logs = replay.logs \ {n}, !.ok = TRUE,
                                 !.rest = rest, !.passed = passed]
    BY <1>0
  <2>5. passed \subseteq replay.passed \cup logs[n].data
    BY <2>2
  <2> HIDE DEF rest, gone, passed
  <2> QED
    BY <2>1, <2>2, <2>3, <2>4, <2>5
<1>1. DiskType'
  BY DEF ReplayLog, DiskType
<1>2. GhostType'
  BY <1>0, RecoveryAssumption DEF ReplayLog, GhostType, Outcome
<1>3. FieldType'
  BY <1>a, <1>c DEF ReplayLog, FieldType
<1>4. CallType'
  BY <1>d DEF ReplayLog, CallType
<1>5. SeqBound'
  BY <1>b, <1>d DEF ReplayLog, SeqBound
<1>6. ApplyControl'
  BY <1>c DEF ReplayLog, ApplyControl
<1>7. PhaseControl'
  BY <1>c DEF ReplayLog, PhaseControl
<1> QED
  BY <1>1, <1>2, <1>3, <1>4, <1>5, <1>6, <1>7, Parts

\* The largest sequence number that a replay has met.
LEMMA ReplayMax ==
  ASSUME TypeInv, NEW chunk \in SUBSET replay.rest
  PROVE  LET max == Max(Seqs(chunk) \cup {replay.max})
         IN  /\ max \in Nat /\ max <= calls /\ replay.max <= max
             /\ \A e \in chunk : e.seq <= max
<1> DEFINE S == Seqs(chunk) \cup {replay.max}
<1>1. S \subseteq Nat /\ calls \in Nat /\ \A y \in S : y <= calls
  BY DEF TypeInv, Typed, GhostType, CallType, SeqBound, Seqs, Entry
<1>2. Max(S) \in S /\ \A y \in S : y <= Max(S)
  BY <1>1, MaxNat
<1>3. replay.max \in S /\ \A e \in chunk : e.seq \in S
  BY DEF Seqs
<1> QED
  BY <1>1, <1>2, <1>3

LEMMA ReplayTableType == TypeInv /\ ReplayTable => TypeInv'
<1> SUFFICES ASSUME TypeInv, ReplayTable PROVE TypeInv'
  OBVIOUS
<1> USE DEF TypeInv, Typed, Control
<1> DEFINE chunk == Chunk(replay.rest)
           max == Max(Seqs(chunk) \cup {replay.max})
<1>0. PICK ok \in BOOLEAN :
        /\ Outcome("replay_table", ok)
        /\ IF ok
           THEN /\ tables' = With(tables, next_file_number_, NewTable(chunk, FALSE))
                /\ replay' = [replay EXCEPT !.rest = @ \ chunk, !.max = max,
                                !.add = @ \cup {next_file_number_}]
           ELSE /\ tables' = Without(tables, {next_file_number_})
                /\ replay' = [replay EXCEPT !.rest = {}, !.max = max,
                                !.ok = FALSE, !.passed = @ \cup replay.rest]
  BY DEF ReplayTable
<1>a. chunk \subseteq replay.rest
  BY DEF Chunk
<1> HIDE DEF chunk
<1>b. max \in Nat /\ max <= calls
  BY <1>a, ReplayMax
<1> HIDE DEF max
<1>c. next_file_number_ \in Nat /\ NewTable(chunk, FALSE) \in TableFile
  BY <1>a DEF FieldType, CallType, NewTable, TableFile
<1>d. /\ replay'.logs = replay.logs /\ replay'.rest \subseteq replay.rest
      /\ replay'.max = max
      /\ replay' \in [logs : SUBSET Nat, rest : SUBSET Entry, add : SUBSET Nat,
                      max : Nat, ok : BOOLEAN, passed : SUBSET Entry]
  <2>1. /\ replay \in [logs : SUBSET Nat, rest : SUBSET Entry, add : SUBSET Nat,
                       max : Nat, ok : BOOLEAN, passed : SUBSET Entry]
        /\ replay.rest \ chunk \in SUBSET Entry
        /\ replay.add \cup {next_file_number_} \in SUBSET Nat
        /\ replay.passed \cup replay.rest \in SUBSET Entry
    BY <1>c DEF CallType
  <2>2. CASE ok
    BY <1>0, <1>b, <2>1, <2>2
  <2>3. CASE ~ok
    BY <1>0, <1>b, <2>1, <2>3
  <2> QED
    BY <2>2, <2>3
<1>1. DiskType'
  <2>1. CASE ok
    <3>1. tables' = With(tables, next_file_number_, NewTable(chunk, FALSE))
      BY <1>0, <2>1
    <3>2. /\ DOMAIN tables' \subseteq Nat
          /\ \A n \in DOMAIN tables' : tables'[n] \in TableFile
      BY <1>c, <3>1 DEF DiskType, With
    <3> QED
      BY <3>2 DEF ReplayTable, DiskType
  <2>2. CASE ~ok
    BY <1>0, <2>2 DEF ReplayTable, DiskType, Without
  <2> QED
    BY <2>1, <2>2
<1>2. GhostType'
  BY <1>0, RecoveryAssumption DEF ReplayTable, GhostType, Outcome
<1>3. FieldType'
  BY DEF ReplayTable, FieldType
<1>4. CallType'
  BY <1>d DEF ReplayTable, CallType
<1>5. SeqBound'
  BY <1>b, <1>d DEF ReplayTable, SeqBound
<1>6. ApplyControl'
  BY DEF ReplayTable, ApplyControl
<1>7. PhaseControl'
  BY DEF ReplayTable, PhaseControl
<1> QED
  BY <1>1, <1>2, <1>3, <1>4, <1>5, <1>6, <1>7, Parts

LEMMA ReplayEndType == TypeInv /\ ReplayEnd => TypeInv'
<1> SUFFICES ASSUME TypeInv, ReplayEnd PROVE TypeInv'
  OBVIOUS
<1> USE DEF TypeInv, Typed, Control
<1>1. DiskType'
  BY DEF ReplayEnd, DiskType
<1>2. GhostType'
  BY DEF ReplayEnd, GhostType
<1>3. FieldType'
  BY DEF ReplayEnd, FieldType, MarkFileNumberUsed
<1>4. CallType'
  BY DEF ReplayEnd, CallType
<1>5. SeqBound'
  BY DEF ReplayEnd, SeqBound
<1>6. ApplyControl'
  BY DEF ReplayEnd, ApplyControl
<1>7. PhaseControl'
  BY DEF ReplayEnd, PhaseControl
<1> QED
  BY <1>1, <1>2, <1>3, <1>4, <1>5, <1>6, <1>7, Parts

\* The last sequence number that Recover() sets.
LEMMA LastSequenceAfterIs ==
  ASSUME TypeInv
  PROVE  /\ LastSequenceAfter \in Nat /\ LastSequenceAfter <= calls
         /\ last_sequence_ <= LastSequenceAfter /\ replay.max <= LastSequenceAfter
<1> DEFINE S == {last_sequence_, replay.max}
<1>1. S \subseteq Nat /\ calls \in Nat /\ \A y \in S : y <= calls
  BY DEF TypeInv, Typed, GhostType, FieldType, CallType, SeqBound
<1>2. Max(S) \in S /\ \A y \in S : y <= Max(S)
  BY <1>1, MaxNat
<1> QED
  BY <1>1, <1>2 DEF LastSequenceAfter

LEMMA OpenLogType == TypeInv /\ OpenLog => TypeInv'
<1> SUFFICES ASSUME TypeInv, OpenLog PROVE TypeInv'
  OBVIOUS
<1> USE DEF TypeInv, Typed, Control
<1>0. PICK ok \in BOOLEAN :
        /\ Outcome("new_log", ok)
        /\ IF replay.ok /\ ok
           THEN /\ logs' = With(logs, next_file_number_,
                                [data |-> {}, synced |-> {}])
                /\ logfile_number_' = next_file_number_
                /\ next_file_number_' = next_file_number_ + 1
                /\ last_sequence_' = LastSequenceAfter
                /\ apply' = StartApply("open", replay.add, {}, next_file_number_,
                                       next_file_number_ + 1, last_sequence_')
                /\ phase' = "apply"
                /\ lost' = lost \cup replay.passed
                /\ UNCHANGED <<memVars, log_number_, manifest_file_number_,
                               version, held, bgVars, doomed, replay, write,
                               hidden, skewed>>
           ELSE OpenFails /\ UNCHANGED logs
  BY DEF OpenLog
<1>a. next_file_number_ \in Nat /\ next_file_number_ + 1 \in Nat
  BY DEF FieldType
<1>b. replay.add \subseteq Nat /\ replay.passed \subseteq Entry
  BY DEF CallType
<1>1. DiskType'
  BY <1>0, <1>a DEF OpenLog, DiskType, With, LogFile
<1>2. GhostType'
  <2>1. hidden' = hidden /\ skewed' \subseteq {"log", "descriptor"}
    BY <1>0 DEF GhostType, OpenFails, Fresh
  <2>2. lost' \subseteq Entry
    BY <1>0, <1>b DEF GhostType, OpenFails, Fresh
  <2>3. faults' \in 0..MaxFaults
    BY <1>0, RecoveryAssumption DEF GhostType, Outcome
  <2> QED
    BY <2>1, <2>2, <2>3 DEF OpenLog, GhostType
<1>3. CASE replay.ok /\ ok
  <2>0. /\ LastSequenceAfter \in Nat /\ LastSequenceAfter <= calls
        /\ last_sequence_' = LastSequenceAfter
    BY <1>0, <1>3, LastSequenceAfterIs
  <2> DEFINE a == StartApply("open", replay.add, {}, next_file_number_,
                             next_file_number_ + 1, LastSequenceAfter)
  <2>1. /\ a \in [by : {"none", "open", "flush", "compact"},
                  step : {"none", "create", "append", "sync", "current", "install"},
                  edit : Edit]
        /\ a.by = "open" /\ a.step = "create"
        /\ a.edit.last = LastSequenceAfter
    BY <1>a, <1>b, <2>0 DEF StartApply, Edit
  <2>2. apply' = a
    BY <1>0, <1>3, <2>0
  <2> HIDE DEF a
  <2>3. FieldType'
    BY <1>0, <1>3, <1>a, <2>0 DEF FieldType
  <2>4. CallType'
    BY <1>0, <1>3, <2>1, <2>2 DEF CallType
  <2>5. SeqBound'
    <3>1. \A n \in DOMAIN logs' : \A e \in logs'[n].data : e.seq <= calls
      BY <1>0, <1>3 DEF With, SeqBound
    <3>2. replay.logs = {}
      BY DEF OpenLog
    <3> QED
      BY <1>0, <1>3, <2>0, <2>1, <2>2, <3>1, <3>2 DEF OpenLog, SeqBound
  <2>6. ApplyControl'
    BY <1>0, <1>3, <2>1, <2>2 DEF OpenLog, ApplyControl, PhaseControl
  <2>7. PhaseControl'
    BY <1>0, <1>3 DEF OpenLog, PhaseControl
  <2> QED
    BY <1>1, <1>2, <2>3, <2>4, <2>5, <2>6, <2>7, Parts
<1>4. CASE ~(replay.ok /\ ok)
  <2>1. OpenFails /\ UNCHANGED <<logs, manifests, calls>>
    BY <1>0, <1>4 DEF OpenLog
  <2> QED
    BY <1>1, <1>2, <2>1, FreshKeeps, Parts DEF OpenFails
<1> QED
  BY <1>3, <1>4

-----------------------------------------------------------------------------
(* The end of an incarnation.                                              *)

LEMMA StopKeeps ==
  ASSUME TypeInv, Stop, astray' \subseteq Edit
  PROVE  /\ GhostType' /\ FieldType' /\ CallType' /\ Control' /\ calls' = calls
         /\ logs' = logs /\ manifests' = manifests => SeqBound'
<1>1. GhostType'
  BY RecoveryAssumption DEF TypeInv, Typed, Stop, Fresh, GhostType
<1> QED
  BY <1>1, FreshKeeps DEF Stop

LEMMA CloseType == TypeInv /\ (Close \/ ProcessCrash) => TypeInv'
<1> SUFFICES ASSUME TypeInv, Close \/ ProcessCrash PROVE TypeInv'
  OBVIOUS
<1>1. Stop /\ UNCHANGED <<diskVars, astray>>
  BY DEF Close, ProcessCrash
<1>2. DiskType'
  BY <1>1 DEF TypeInv, Typed, DiskType
<1>3. astray' \subseteq Edit
  BY <1>1 DEF TypeInv, Typed, GhostType
<1> QED
  BY <1>1, <1>2, <1>3, StopKeeps DEF TypeInv, Typed

LEMMA TornCrashType == TypeInv /\ TornCrash => TypeInv'
<1> SUFFICES ASSUME TypeInv, TornCrash PROVE TypeInv'
  OBVIOUS
<1> USE DEF TypeInv, Typed
<1>1. Stop /\ UNCHANGED <<logs, tables, current>>
  BY DEF TornCrash
<1>2. /\ DOMAIN manifests' = DOMAIN manifests
      /\ \A n \in DOMAIN manifests :
           /\ manifests'[n] \in ManifestFile
           /\ manifests'[n].edits = manifests[n].edits
           /\ manifests'[n].synced <= Len(manifests'[n].edits)
  BY DEF TornCrash, DiskType, ManifestFile
<1>3. DiskType'
  BY <1>1, <1>2 DEF DiskType
<1>4. SeqBound'
  BY <1>1, <1>2, NoTypes DEF SeqBound, Stop, Fresh, GhostType
<1>5. astray' \subseteq Edit
  BY DEF TornCrash, Contest, GhostType, CallType
<1> QED
  BY <1>1, <1>3, <1>4, <1>5, StopKeeps

\* What is left of the files after a machine crash is a part of what they were.
LEMMA MachineCrashType == TypeInv /\ MachineCrash => TypeInv'
<1> SUFFICES ASSUME TypeInv, MachineCrash PROVE TypeInv'
  OBVIOUS
<1> USE DEF TypeInv, Typed
<1>1. /\ Stop /\ current' = current
      /\ astray' \subseteq Edit
  BY DEF MachineCrash, GhostType
<1>2. /\ DOMAIN logs' = DOMAIN logs
      /\ \A n \in DOMAIN logs :
           logs'[n] \in LogFile /\ logs'[n].data \subseteq logs[n].data
  <2>1. PICK cut \in [DOMAIN logs -> 0..MaxWrites] :
          logs' = [n \in DOMAIN logs |->
                     LET kept == {e \in logs[n].data : e.seq <= cut[n]}
                     IN  [data |-> kept, synced |-> kept]]
    BY DEF MachineCrash
  <2> QED
    BY <2>1 DEF DiskType, LogFile
<1>3. /\ DOMAIN tables' = DOMAIN tables
      /\ \A n \in DOMAIN tables : tables'[n] \in TableFile
  <2>1. PICK broken \in SUBSET {n \in DOMAIN tables : ~tables[n].synced} :
          tables' = [n \in DOMAIN tables |->
                       [data |-> tables[n].data, synced |-> TRUE,
                        damaged |-> tables[n].damaged \/ n \in broken]]
    BY DEF MachineCrash
  <2> QED
    BY <2>1 DEF DiskType, TableFile
<1>4. /\ DOMAIN manifests' = DOMAIN manifests
      /\ \A n \in DOMAIN manifests :
           /\ manifests'[n] \in ManifestFile
           /\ manifests'[n].synced <= Len(manifests'[n].edits)
           /\ \A i \in DOMAIN manifests'[n].edits : manifests'[n].edits[i].last <= calls
  <2>1. PICK torn \in SUBSET {n \in DOMAIN manifests : manifests[n].torn},
             cut \in [DOMAIN manifests ->
                        0..Max({Len(manifests[n].edits) : n \in DOMAIN manifests})] :
          /\ \A n \in DOMAIN manifests :
               cut[n] \in manifests[n].synced..Len(manifests[n].edits)
          /\ manifests' = [n \in DOMAIN manifests |->
                             [edits |-> SubSeq(manifests[n].edits, 1, cut[n]),
                              synced |-> cut[n], torn |-> n \in torn]]
    BY DEF MachineCrash
  <2>2. ASSUME NEW n \in DOMAIN manifests
        PROVE  /\ manifests'[n] \in ManifestFile
               /\ manifests'[n].synced <= Len(manifests'[n].edits)
               /\ \A i \in DOMAIN manifests'[n].edits :
                    manifests'[n].edits[i].last <= calls
    <3> DEFINE s == SubSeq(manifests[n].edits, 1, cut[n])
    <3>1. manifests[n] \in ManifestFile
      BY DEF DiskType
    <3>2. manifests[n].edits \in Seq(Edit) /\ manifests[n].synced \in Nat
      BY <3>1 DEF ManifestFile
    <3>3. cut[n] \in Nat /\ cut[n] <= Len(manifests[n].edits)
      BY <2>1, <3>2
    <3>4. /\ s \in Seq(Edit) /\ Len(s) = cut[n]
          /\ \A i \in DOMAIN s :
               i \in DOMAIN manifests[n].edits /\ s[i] = manifests[n].edits[i]
      BY <3>2, <3>3, SubSeqProperties
    <3> DEFINE t == n \in torn
    <3>5. manifests'[n] = [edits |-> s, synced |-> cut[n], torn |-> t] /\ t \in BOOLEAN
      BY <2>1
    <3> HIDE DEF s, t
    <3> QED
      BY <3>3, <3>4, <3>5 DEF SeqBound, ManifestFile
  <2> QED
    BY <2>1, <2>2
<1>5. DiskType'
  BY <1>1, <1>2, <1>3, <1>4 DEF DiskType
<1>6. SeqBound'
  BY <1>1, <1>2, <1>4, NoTypes DEF SeqBound, Stop, Fresh, GhostType
<1> QED
  BY <1>1, <1>5, <1>6, StopKeeps

-----------------------------------------------------------------------------
(* The theorem.                                                            *)

LEMMA TypeNext == TypeInv /\ [Next]_vars => TypeInv'
<1> SUFFICES ASSUME TypeInv, [Next]_vars PROVE TypeInv'
  OBVIOUS
<1>1. CASE UNCHANGED vars
  BY <1>1 DEF vars, TypeInv, Typed, DiskType, GhostType, FieldType, CallType, SeqBound,
              Control, ApplyControl, PhaseControl
<1>2. CASE Next /\ ~UNCHANGED vars
  BY <1>2, WriteBeginType, SwitchMemTableType, WriteLogType, WriteSyncType,
     WriteEndType, IterType, FlushBeginType, FlushBuildType, CompactBeginType,
     CompactOpenType, CompactFinishType, CompactErrorType, CompactInstallType,
     ApplyCreateType, ApplyAppendType, ApplySyncType, ApplyCurrentType,
     ApplyInstallType, DeleteFileType, NewDBType, NewDBCurrentType,
     RecoverManifestType, ReplayLogType, ReplayTableType, ReplayEndType, OpenLogType,
     CloseType, TornCrashType, MachineCrashType
     DEF Next, ApplyStep, OpenStep, Rest
<1> QED
  BY <1>1, <1>2

\* The inductive invariant holds of DBRecovery, whatever crashes and fails.
THEOREM RecoveryTypeInvariant == Spec => []TypeInv
BY TypeInit, TypeNext, PTL DEF Spec

\* The directory and the fields of DBImpl and VersionSet have their types after any
\* crash and any failed file operation (db_impl.cpp, version_set.cpp).
THEOREM RecoveryTypes == Spec => []TypeOK
<1>1. TypeInv => TypeOK
  BY TypedIsTypeOK DEF TypeInv
<1> QED
  BY <1>1, RecoveryTypeInvariant, PTL

\* Only the process crashes: the machine, and with it what was written, goes on.
ProcessOnly == Crashes \subseteq {"process", "torn"}

\* The block_offset_ of descriptor_log_ is right until a MANIFEST in use could not be
\* written.
Straight == "descriptor" \in skewed => astray # {}

\* What a LogAndApply() has left in doubt stays so.
LEMMA AstrayGrows ==
  ASSUME TypeInv, [Next]_vars
  PROVE  astray \subseteq astray' /\ (Straight => Straight')
<1> SUFFICES astray \subseteq astray' /\ (Straight => Straight')
  OBVIOUS
<1>1. CASE \/ WriteBegin \/ WriteSync \/ WriteEnd \/ IterBegin \/ IterEnd
           \/ FlushBegin \/ FlushBuild \/ CompactBegin \/ CompactOpen
           \/ CompactFinish \/ CompactError \/ CompactInstall \/ DeleteFile
           \/ ApplyInstall \/ NewDB \/ NewDBCurrent \/ ReplayLog \/ ReplayTable
           \/ ReplayEnd \/ Rest \/ UNCHANGED vars
  <2>1. astray' = astray /\ skewed' = skewed
    BY <1>1 DEF WriteBegin, WriteSync, WriteEnd, IterBegin, IterEnd, FlushBegin,
         FlushBuild, CompactBegin, CompactOpen, CompactFinish, CompactError,
         CompactInstall, DeleteFile, ApplyInstall, NewDB, NewDBCurrent, ReplayLog,
         ReplayTable, ReplayEnd, Rest, vars
  <2> QED
    BY <2>1 DEF Straight
<1>2. CASE SwitchMemTable \/ WriteLog
  <2>1. astray' = astray /\ skewed' \subseteq skewed \cup {"log"}
    BY <1>2 DEF SwitchMemTable, WriteLog
  <2> QED
    BY <2>1 DEF Straight
<1>3. CASE RecoverManifest \/ OpenLog \/ Close \/ ProcessCrash \/ MachineCrash
  <2>1. astray' = astray /\ (skewed' = skewed \/ skewed' = {})
    BY <1>3 DEF RecoverManifest, OpenLog, OpenFails, Close, ProcessCrash, MachineCrash,
                Stop, Fresh
  <2> QED
    BY <2>1 DEF Straight
<1>4. CASE TornCrash
  BY <1>4 DEF TornCrash, Contest, Stop, Fresh, Straight
<1>5. CASE ApplyCreate \/ ApplyCurrent
  <2>1. apply.by = "open"
    BY <1>5 DEF ApplyCreate, ApplyCurrent, TypeInv, Control, ApplyControl
  <2>2. astray' = astray /\ (skewed' = skewed \/ skewed' = {})
    BY <1>5, <2>1 DEF ApplyCreate, ApplyCurrent, ApplyFails, OpenFails, Fresh
  <2> QED
    BY <2>2 DEF Straight
<1>6. CASE ApplyAppend
  <2>1. astray \subseteq astray'
    BY <1>6 DEF ApplyAppend, Contest
  <2>2. \/ skewed' \in {skewed, {}}
        \/ apply.edit \in astray'
    BY <1>6 DEF ApplyAppend, Contest, ApplyFails, OpenFails, Fresh
  <2> QED
    BY <2>1, <2>2 DEF Straight
<1>7. CASE ApplySync
  <2>1. astray \subseteq astray'
    BY <1>7 DEF ApplySync, Contest
  <2>2. skewed' \in {skewed, {}}
    BY <1>7 DEF ApplySync, Contest, ApplyFails, OpenFails, Fresh
  <2> QED
    BY <2>1, <2>2 DEF Straight
<1> QED
  BY <1>1, <1>2, <1>3, <1>4, <1>5, <1>6, <1>7 DEF Next, ApplyStep, OpenStep

-----------------------------------------------------------------------------
(* What the records of a MANIFEST make.                                    *)

\* One more record deletes and then adds files.
LEMMA LiveInAppend ==
  ASSUME NEW edits \in Seq(Edit), NEW edit \in Edit
  PROVE  LiveIn(Append(edits, edit)) = (LiveIn(edits) \ edit.del) \cup edit.add
<1> DEFINE more == Append(edits, edit)
           last == Len(edits) + 1
<1>1. /\ DOMAIN edits = 1..Len(edits) /\ DOMAIN more = 1..last
      /\ Len(edits) \in Nat
      /\ more[last] = edit
      /\ \A i \in DOMAIN edits : more[i] = edits[i]
  OBVIOUS
<1> HIDE DEF more
<1>2. ASSUME NEW n \in LiveIn(more)
      PROVE  n \in (LiveIn(edits) \ edit.del) \cup edit.add
  <2>1. PICK i \in DOMAIN more :
          /\ n \in more[i].add
          /\ \A j \in DOMAIN more : j > i => n \notin more[j].del
    BY DEF LiveIn
  <2>2. CASE i = last
    BY <1>1, <2>1, <2>2
  <2>3. CASE i # last
    <3>1. i \in DOMAIN edits /\ last > i /\ last \in DOMAIN more
      BY <1>1, <2>3
    <3>2. n \notin edit.del /\ n \in edits[i].add
      BY <1>1, <2>1, <3>1
    <3>3. \A j \in DOMAIN edits : j > i => n \notin edits[j].del
      BY <1>1, <2>1
    <3> QED
      BY <3>1, <3>2, <3>3 DEF LiveIn
  <2> QED
    BY <2>2, <2>3
<1>3. ASSUME NEW n \in edit.add
      PROVE  n \in LiveIn(more)
  <2>1. last \in DOMAIN more /\ n \in more[last].add
    BY <1>1
  <2>2. \A j \in DOMAIN more : ~(j > last)
    BY <1>1
  <2> QED
    BY <2>1, <2>2 DEF LiveIn
<1>4. ASSUME NEW n \in LiveIn(edits), n \notin edit.del
      PROVE  n \in LiveIn(more)
  <2>1. PICK i \in DOMAIN edits :
          /\ n \in edits[i].add
          /\ \A j \in DOMAIN edits : j > i => n \notin edits[j].del
    BY DEF LiveIn
  <2>2. i \in DOMAIN more /\ n \in more[i].add
    BY <1>1, <2>1
  <2>3. ASSUME NEW j \in DOMAIN more, j > i
        PROVE  n \notin more[j].del
    <3>1. CASE j = last
      BY <1>1, <1>4, <3>1
    <3>2. CASE j # last
      BY <1>1, <2>1, <2>3, <3>2
    <3> QED
      BY <3>1, <3>2
  <2> QED
    BY <2>2, <2>3 DEF LiveIn
<1> QED
  BY <1>2, <1>3, <1>4 DEF more

\* A record with the fields of the VersionSet, when it comes last, is what counts.
LEMMA LastMetaAppend ==
  ASSUME NEW edits \in Seq(Edit), NEW edit \in Edit, edit.meta
  PROVE  /\ MetaEdits(Append(edits, edit)) # {}
         /\ LastMeta(Append(edits, edit)) = edit
<1> DEFINE more == Append(edits, edit)
           last == Len(edits) + 1
<1>1. /\ more \in Seq(Edit) /\ DOMAIN more = 1..last /\ Len(edits) \in Nat
      /\ more[last] = edit
  OBVIOUS
<1> HIDE DEF more
<1>2. last \in MetaEdits(more)
  BY <1>1 DEF MetaEdits
<1>3. /\ Max(MetaEdits(more)) \in DOMAIN more
      /\ last <= Max(MetaEdits(more))
      /\ LastMeta(more) = more[Max(MetaEdits(more))]
  BY <1>1, <1>2, LastMetaIs
<1>4. Max(MetaEdits(more)) = last
  BY <1>1, <1>3
<1> QED
  BY <1>1, <1>2, <1>3, <1>4 DEF more

\* A MANIFEST of one record.
LEMMA OneRecord ==
  ASSUME NEW edit \in Edit
  PROVE  /\ <<edit>> \in Seq(Edit)
         /\ LiveIn(<<edit>>) = edit.add
         /\ edit.meta => MetaEdits(<<edit>>) # {} /\ LastMeta(<<edit>>) = edit
<1>1. << >> \in Seq(Edit) /\ <<edit>> = Append(<< >>, edit)
  OBVIOUS
<1>2. LiveIn(<< >>) = {}
  BY DEF LiveIn
<1>3. LiveIn(Append(<< >>, edit)) = ({} \ edit.del) \cup edit.add
  BY <1>1, <1>2, LiveInAppend
<1>4. edit.meta => /\ MetaEdits(Append(<< >>, edit)) # {}
                   /\ LastMeta(Append(<< >>, edit)) = edit
  BY <1>1, LastMetaAppend
<1>5. <<edit>> \in Seq(Edit)
  OBVIOUS
<1> QED
  BY <1>1, <1>3, <1>4, <1>5

-----------------------------------------------------------------------------
(* The inductive invariant.                                                *)

\* The last record with the fields of the VersionSet that DB::Open would find.
DiskMeta == LastMeta(manifests[current].edits)

InTables(e, S) == \E n \in S \cap DOMAIN tables : e \in tables[n].data
TablesUpTo(S, k) ==
  \A n \in S \cap DOMAIN tables : \A e \in tables[n].data : e.seq <= k

\* DB::Open reads the entry again.
OnDisk(e) == InTables(e, DiskVersion) \/ \E n \in DiskLogs : e \in logs[n].data

\* The directory: a MANIFEST that can be read lists tables that are there, with numbers
\* and entries below the limits it records.  Unless the machine crashed, nothing is
\* damaged and CURRENT names a whole MANIFEST.
DiskInv ==
  /\ 0 \notin DOMAIN manifests
  /\ ProcessOnly =>
       /\ \A n \in DOMAIN tables : ~tables[n].damaged
       /\ current # 0 => Readable
  /\ current = 0 =>
       /\ phase \in {"down", "newdb"} /\ acked = {}
       /\ DOMAIN logs = {} /\ DOMAIN tables = {}
  /\ phase = "newdb" =>
       current = 0 /\ 1 \in DOMAIN manifests /\ manifests[1] = FirstManifest
  /\ phase \notin {"down", "newdb"} => Readable
  /\ Readable =>
       /\ current < DiskMeta.next /\ DiskMeta.log < DiskMeta.next
       /\ DiskVersion \subseteq DOMAIN tables
       /\ \A n \in DiskVersion : n < DiskMeta.next
       /\ TablesUpTo(DiskVersion, DiskMeta.last)

\* DB::Open has read CURRENT and has not yet replaced it.
Opening ==
  \/ phase \in {"replay", "read"}
  \/ phase = "apply" /\ apply.step # "install"

\* What DB::Open took from the MANIFEST, and its new tables, which no MANIFEST names.
OpenInv ==
  Opening =>
    /\ current # 0
    /\ version = DiskVersion
    /\ manifest_file_number_ = DiskMeta.next
    /\ DiskMeta.next < next_file_number_
    /\ DiskMeta.last <= last_sequence_
    /\ replay.add \subseteq DOMAIN tables
    /\ \A n \in replay.add : DiskMeta.next < n /\ n < next_file_number_

\* Every entry of a log file that counts is still to be read, or in a new table, or
\* was passed over.
ReplayInv ==
  phase \in {"replay", "read"} =>
    /\ replay.logs \subseteq DiskLogs
    /\ \A n \in DiskLogs \ replay.logs :
         /\ n < next_file_number_ \/ (phase = "read" /\ n = logfile_number_)
         /\ \A e \in logs[n].data :
              e \in replay.rest \cup replay.passed \/ InTables(e, replay.add)
    /\ TablesUpTo(replay.add, replay.max)

\* The edit of DB::Open, its new log file, and the new MANIFEST that grows.
ApplyOpenInv ==
  phase = "apply" =>
    /\ apply.edit.add = replay.add /\ apply.edit.del = {}
    /\ apply.edit.log = logfile_number_
    /\ logfile_number_ \in DOMAIN logs /\ logs[logfile_number_].data = {}
    /\ \A n \in DOMAIN logs : n <= logfile_number_
    /\ apply.step \in {"append", "sync", "current"} =>
         /\ manifest_file_number_ \in DOMAIN manifests
         /\ ~manifests[manifest_file_number_].torn
    /\ apply.step = "append" =>
         manifests[manifest_file_number_].edits = <<SnapshotEdit>>
    /\ apply.step \in {"sync", "current"} =>
         manifests[manifest_file_number_].edits = Append(<<SnapshotEdit>>, apply.edit)
    /\ apply.step = "current" =>
         manifests[manifest_file_number_].synced =
           Len(manifests[manifest_file_number_].edits)

\* The edit on its way describes a version that is all in the directory.
EditInv ==
  apply.by # "none" =>
    /\ apply.edit.meta
    /\ manifest_file_number_ < apply.edit.next
    /\ apply.edit.log < apply.edit.next
    /\ apply.edit.next <= next_file_number_
    /\ apply.edit.last <= last_sequence_
    /\ VersionAfter \subseteq DOMAIN tables
    /\ \A n \in VersionAfter : n < apply.edit.next
    /\ TablesUpTo(VersionAfter, apply.edit.last)

\* The edit is in the MANIFEST and not yet in current_.
Appended ==
  \/ phase = "up" /\ apply.step \in {"sync", "install"}
  \/ phase = "apply" /\ apply.step = "install"

\* The MANIFEST that CURRENT names says what VersionSet says, or is ahead by the edit;
\* between two calls of LogAndApply() all of it is synced.
CurrentInv ==
  /\ phase = "up" \/ Appended => current = manifest_file_number_ /\ current # 0
  /\ Appended => DiskVersion = VersionAfter /\ DiskMeta = apply.edit
  /\ phase = "up" /\ ~Appended =>
       /\ DiskVersion = version /\ DiskMeta.log = log_number_
       /\ DiskMeta.last <= last_sequence_
       /\ DiskMeta.next <= next_file_number_
       /\ apply.by # "none" => DiskMeta.next <= apply.edit.next
  /\ (phase = "up" \/ Appended) /\ apply.step # "sync" =>
       manifests[current].synced = Len(manifests[current].edits)

\* The tables in use are there, have numbers that are not given again, and the ones
\* being written are no others than these.
TablesInv ==
  phase = "up" =>
    /\ manifest_file_number_ < next_file_number_
    /\ version \subseteq DOMAIN tables /\ held \subseteq DOMAIN tables
    /\ compact.base \subseteq DOMAIN tables /\ compact.outputs \subseteq DOMAIN tables
    /\ \A n \in version \cup held \cup compact.base \cup compact.outputs :
         n < next_file_number_ /\ (flush # 0 => n # flush)
    /\ flush < next_file_number_
    /\ \A n \in compact.outputs :
         /\ n \notin version /\ n \notin held /\ n \notin compact.base
         /\ n \in pending_outputs_ /\ ~tables[n].damaged
    /\ compact.inputs \subseteq compact.base
    /\ compact.builder # 0 =>
         /\ compact.builder \in compact.outputs
         /\ tables[compact.builder].data = {}

\* The edit of a flush and of a compaction.
CallsInv ==
  /\ apply.by = "flush" =>
       /\ apply.edit.add = {flush} /\ apply.edit.del = {}
       /\ apply.edit.log = logfile_number_
       /\ flush \in DOMAIN tables /\ tables[flush].data = imm_
       /\ ~tables[flush].damaged
  /\ apply.by = "compact" =>
       /\ apply.edit.add = compact.outputs /\ apply.edit.del = compact.inputs
       /\ apply.edit.log = log_number_
       /\ compact.builder = 0 /\ compact.todo = {}
       /\ \A n \in compact.inputs : ~tables[n].damaged

\* DeleteObsoleteFiles() has nothing to delete that somebody needs.
DoomedInv ==
  \A d \in doomed :
    /\ d[1] = "log" => d[2] < log_number_
    /\ d[1] = "table" =>
         /\ d[2] \notin version /\ d[2] \notin held
         /\ d[2] \notin compact.base /\ d[2] \notin pending_outputs_
    /\ d[1] = "manifest" => d[2] < manifest_file_number_

\* The log files of mem_ and imm_ are the only ones that count, and hold what is in
\* them; their sequence numbers are given out, except for the call in progress.
LogsInv ==
  phase = "up" =>
    /\ logfile_number_ \in DOMAIN logs /\ log_number_ \in DOMAIN logs
    /\ logfile_number_ < next_file_number_
    /\ has_imm_ => log_number_ < logfile_number_
    /\ ~has_imm_ => log_number_ = logfile_number_
    /\ \A n \in DOMAIN logs :
         n < log_number_ \/ n = log_number_ \/ n = logfile_number_
    /\ mem_ \subseteq logs[logfile_number_].data
    /\ imm_ \subseteq logs[log_number_].data
    /\ has_imm_ => \A e \in logs[log_number_].data : e.seq <= last_sequence_
    /\ \A e \in logs[logfile_number_].data :
         e.seq <= last_sequence_ \/ (e = write.entry /\ write.step # "idle")
    /\ write.step # "idle" => write.entry.seq = last_sequence_ + 1
    /\ write.step \in {"sync", "insert"} => write.entry \in logs[logfile_number_].data

\* The sequence numbers in the tables are given out, and a compaction has in todo or in
\* an output what it read of the tables that can be read.
DataInv ==
  /\ phase = "up" =>
       /\ TablesUpTo(version, last_sequence_) /\ TablesUpTo(compact.base, last_sequence_)
       /\ TablesUpTo(compact.outputs, last_sequence_)
  /\ \A e \in compact.todo : e.seq <= last_sequence_
  /\ \A n \in compact.inputs :
       \/ tables[n].damaged
       \/ \A e \in tables[n].data : e \in compact.todo \/ InTables(e, compact.outputs)

\* Where an acknowledged write is, unless the machine crashed.
AckedInv ==
  ProcessOnly =>
    /\ phase # "up" => \A e \in acked : e \in lost \/ OnDisk(e)
    /\ phase = "up" =>
         \A e \in acked : e \in mem_ \cup imm_ \cup lost \/ InTables(e, version)
    /\ phase = "apply" => \A e \in acked : e \in lost \/ InTables(e, VersionAfter)

OpenParts == OpenInv /\ ReplayInv /\ ApplyOpenInv
UpParts == TablesInv /\ CallsInv /\ DoomedInv /\ LogsInv /\ DataInv
DurableInv == DiskInv /\ OpenParts /\ EditInv /\ CurrentInv /\ UpParts /\ AckedInv

-----------------------------------------------------------------------------
(* What steps keep.                                                        *)

\* What the MANIFEST says changes only with it or with CURRENT.
LEMMA DiskSame ==
  ASSUME UNCHANGED <<manifests, current>>
  PROVE  /\ DiskVersion' = DiskVersion /\ DiskMeta' = DiskMeta
         /\ Readable' = Readable
BY DEF DiskVersion, DiskMeta, Readable

\* The records of a MANIFEST have their types.
LEMMA DiskMetaType ==
  ASSUME TypeInv, DiskInv, Readable
  PROVE  /\ current # 0
         /\ current \in DOMAIN manifests /\ manifests[current].edits \in Seq(Edit)
         /\ DiskMeta \in Edit
         /\ DiskMeta.next \in Nat /\ DiskMeta.log \in Nat /\ DiskMeta.last \in Nat
         /\ current \in Nat /\ DiskVersion \subseteq Nat
<1>1. /\ current \in DOMAIN manifests /\ current # 0
      /\ MetaEdits(manifests[current].edits) # {}
  BY DEF DiskInv, Readable
<1>2. manifests[current].edits \in Seq(Edit)
  BY <1>1, EditTypes DEF TypeInv, Typed
<1>3. DiskMeta \in Edit
  BY <1>1, <1>2, LastMetaIs DEF DiskMeta
<1>4. DiskMeta.next \in Nat /\ DiskMeta.log \in Nat /\ DiskMeta.last \in Nat
  BY <1>3 DEF Edit
<1>5. current \in Nat /\ DiskVersion \subseteq Nat
  BY DEF DiskInv, TypeInv, Typed, DiskType
<1> QED
  BY <1>1, <1>2, <1>3, <1>4, <1>5

\* The numbers that the fields and the entries are.
LEMMA Numbers ==
  ASSUME TypeInv
  PROVE  /\ next_file_number_ \in Nat /\ logfile_number_ \in Nat /\ log_number_ \in Nat
         /\ manifest_file_number_ \in Nat /\ last_sequence_ \in Nat /\ flush \in Nat
         /\ version \subseteq Nat /\ held \subseteq Nat /\ pending_outputs_ \subseteq Nat
         /\ compact.base \subseteq Nat /\ compact.inputs \subseteq Nat
         /\ compact.outputs \subseteq Nat /\ compact.builder \in Nat
         /\ replay.add \subseteq Nat /\ replay.max \in Nat /\ replay.logs \subseteq Nat
         /\ apply.edit.add \subseteq Nat /\ apply.edit.log \in Nat
         /\ apply.edit.next \in Nat /\ apply.edit.last \in Nat
         /\ DOMAIN logs \subseteq Nat /\ DOMAIN tables \subseteq Nat
         /\ write.entry.seq \in Nat
BY DEF TypeInv, Typed, FieldType, CallType, DiskType, Edit, Entry

LEMMA EntryNumbers ==
  ASSUME TypeInv
  PROVE  /\ \A n \in DOMAIN tables : \A e \in tables[n].data : e.seq \in Nat
         /\ \A n \in DOMAIN logs : \A e \in logs[n].data : e.seq \in Nat
         /\ \A e \in compact.todo : e.seq \in Nat
         /\ \A e \in mem_ \cup imm_ : e.seq \in Nat
         /\ \A e \in replay.rest : e.seq \in Nat
BY DEF TypeInv, Typed, DiskType, FieldType, CallType, LogFile, TableFile, Entry

LEMMA UpOpen ==
  ASSUME phase' = "up"
  PROVE  OpenParts'
BY DEF OpenParts, OpenInv, ReplayInv, ApplyOpenInv, Opening

LEMMA NotUp ==
  ASSUME TypeInv', phase' # "up"
  PROVE  UpParts'
<1>1. /\ compact' = NoCompaction /\ doomed' = {}
      /\ apply'.by # "flush" /\ apply'.by # "compact"
  BY DEF TypeInv, Control, ApplyControl, PhaseControl
<1>2. compact'.todo = {} /\ compact'.inputs = {}
  BY <1>1 DEF NoCompaction
<1> QED
  BY <1>1, <1>2 DEF UpParts, TablesInv, CallsInv, DoomedInv, LogsInv, DataInv

\* A step of an open DB that leaves tables, MANIFESTs and CURRENT alone.
LEMMA DiskFrame ==
  ASSUME DiskInv, CurrentInv, phase = "up", phase' = "up",
         UNCHANGED <<tables, manifests, current>>
  PROVE  DiskInv'
BY DiskSame DEF DiskInv, CurrentInv, TablesUpTo

\* A step that leaves the MANIFEST, LogAndApply() and the version alone.
LEMMA CurrentFrame ==
  ASSUME TypeInv, TypeInv', DiskInv, CurrentInv,
         UNCHANGED <<phase, manifests, current, apply, version,
                     log_number_, manifest_file_number_>>,
         last_sequence_ <= last_sequence_', next_file_number_ <= next_file_number_'
  PROVE  CurrentInv'
<1>0. phase = "up" => Readable
  BY DEF DiskInv
<1>1. /\ last_sequence_ \in Nat /\ last_sequence_' \in Nat
      /\ next_file_number_ \in Nat /\ next_file_number_' \in Nat
      /\ phase = "up" => DiskMeta.last \in Nat /\ DiskMeta.next \in Nat
  BY <1>0, DiskMetaType DEF TypeInv, Typed, FieldType
<1>2. VersionAfter' = VersionAfter /\ Appended' = Appended
  BY DEF VersionAfter, Appended
<1> QED
  BY <1>1, <1>2, DiskSame DEF CurrentInv

LEMMA EditFrame ==
  ASSUME TypeInv, TypeInv', EditInv,
         UNCHANGED <<apply, version, manifest_file_number_, tables>>,
         last_sequence_ <= last_sequence_', next_file_number_ <= next_file_number_'
  PROVE  EditInv'
<1>1. /\ last_sequence_ \in Nat /\ last_sequence_' \in Nat
      /\ next_file_number_ \in Nat /\ next_file_number_' \in Nat
      /\ apply.edit.next \in Nat /\ apply.edit.last \in Nat
  BY Numbers DEF TypeInv, Typed, FieldType
<1>2. VersionAfter' = VersionAfter
  BY DEF VersionAfter
<1> QED
  BY <1>1, <1>2 DEF EditInv, TablesUpTo

\* The table conjuncts for a step that only gives out numbers.
LEMMA TablesFrame ==
  ASSUME TypeInv, TypeInv', TablesInv,
         UNCHANGED <<phase, version, held, compact, flush, pending_outputs_, tables,
                     manifest_file_number_>>,
         next_file_number_ <= next_file_number_'
  PROVE  TablesInv'
<1>1. next_file_number_ \in Nat /\ next_file_number_' \in Nat
  BY DEF TypeInv, Typed, FieldType
<1> QED
  BY <1>1, Numbers DEF TablesInv

LEMMA DataFrame ==
  ASSUME TypeInv, TypeInv', DataInv, TablesInv, phase = "up",
         UNCHANGED <<phase, version, compact, tables>>,
         last_sequence_ <= last_sequence_'
  PROVE  DataInv'
<1>1. /\ last_sequence_ \in Nat /\ last_sequence_' \in Nat
      /\ \A n \in DOMAIN tables : \A e \in tables[n].data : e.seq \in Nat
      /\ \A e \in compact.todo : e.seq \in Nat
  BY EntryNumbers DEF TypeInv, Typed, FieldType
<1> QED
  BY <1>1 DEF DataInv, TablesUpTo, InTables

-----------------------------------------------------------------------------
(* Write().                                                                *)

LEMMA WriteBeginDurable ==
  ASSUME TypeInv, TypeInv', DurableInv, WriteBegin
  PROVE  DurableInv'
<1> USE DEF DurableInv, UpParts
<1>1. phase = "up" /\ phase' = "up" /\ doomed = {} /\ write.step = "idle"
  BY DEF WriteBegin, Free
<1>a. /\ UNCHANGED <<diskVars, memVars, fileVars, last_sequence_, version, held, bgVars,
                     apply, doomed, replay, acked, lost>>
      /\ last_sequence_ <= last_sequence_' /\ next_file_number_ <= next_file_number_'
  BY Numbers DEF WriteBegin
<1>b. write'.step = "log" /\ write'.entry.seq = last_sequence_ + 1
  BY DEF WriteBegin
<1>2. DiskInv'
  BY <1>1, <1>a, DiskFrame
<1>3. EditInv' /\ CurrentInv'
  BY <1>1, <1>a, EditFrame, CurrentFrame
<1>4. TablesInv' /\ DataInv'
  BY <1>1, <1>a, TablesFrame, DataFrame
<1>5. CallsInv' /\ DoomedInv'
  BY <1>a DEF CallsInv, DoomedInv
<1>6. LogsInv'
  BY <1>1, <1>a, <1>b DEF LogsInv
<1>7. AckedInv'
  BY <1>1, <1>a DEF AckedInv, InTables
<1> QED
  BY <1>1, <1>2, <1>3, <1>4, <1>5, <1>6, <1>7, UpOpen

LEMMA SwitchMemTableDurable ==
  ASSUME TypeInv, TypeInv', DurableInv, SwitchMemTable
  PROVE  DurableInv'
<1> USE DEF DurableInv, UpParts
<1>1. /\ phase = "up" /\ phase' = "up" /\ doomed = {} /\ write.step = "idle"
      /\ ~has_imm_ /\ imm_ = {} /\ flush = 0 /\ apply.by # "flush"
  BY DEF SwitchMemTable, Free, TypeInv, Control, PhaseControl, ApplyControl
<1>a. /\ UNCHANGED <<tables, manifests, current, log_number_, manifest_file_number_,
                     last_sequence_, version, held, bgVars, apply, doomed, replay,
                     write, acked, lost>>
      /\ logs' = With(logs, next_file_number_, [data |-> {}, synced |-> {}])
      /\ logfile_number_' = next_file_number_
      /\ next_file_number_' = next_file_number_ + 1
      /\ imm_' = mem_ /\ has_imm_' = TRUE /\ mem_' = {}
  BY DEF SwitchMemTable
<1>b. last_sequence_ <= last_sequence_' /\ next_file_number_ <= next_file_number_'
  BY <1>a, Numbers
<1>2. DiskInv'
  BY <1>1, <1>a, DiskFrame
<1>3. EditInv' /\ CurrentInv'
  BY <1>1, <1>a, <1>b, EditFrame, CurrentFrame
<1>4. TablesInv' /\ DataInv'
  BY <1>1, <1>a, <1>b, TablesFrame, DataFrame
<1>5. CallsInv' /\ DoomedInv'
  BY <1>1, <1>a DEF CallsInv, DoomedInv
<1>6. LogsInv'
  <2>1. /\ log_number_ = logfile_number_ /\ logfile_number_ < next_file_number_
        /\ logfile_number_ \in DOMAIN logs
        /\ \A n \in DOMAIN logs : n < log_number_ \/ n = log_number_
        /\ mem_ \subseteq logs[logfile_number_].data
        /\ \A e \in logs[logfile_number_].data : e.seq <= last_sequence_
    BY <1>1 DEF LogsInv
  <2>2. /\ DOMAIN logs' = DOMAIN logs \cup {next_file_number_}
        /\ logs'[next_file_number_].data = {}
        /\ \A n \in DOMAIN logs : n # next_file_number_ => logs'[n] = logs[n]
    BY <1>a DEF With
  <2>3. logs'[log_number_] = logs[log_number_]
    BY <2>1, <2>2, Numbers
  <2> QED
    BY <1>1, <1>a, <2>1, <2>2, <2>3, Numbers DEF LogsInv
<1>7. AckedInv'
  BY <1>1, <1>a DEF AckedInv, InTables
<1> QED
  BY <1>1, <1>2, <1>3, <1>4, <1>5, <1>6, <1>7, UpOpen

LEMMA WriteLogDurable ==
  ASSUME TypeInv, TypeInv', DurableInv, WriteLog
  PROVE  DurableInv'
<1> USE DEF DurableInv, UpParts
<1>1. phase = "up" /\ phase' = "up" /\ write.step = "log"
  BY NoTypes DEF WriteLog, TypeInv, Control, PhaseControl
<1>a. /\ UNCHANGED <<tables, manifests, current, memVars, fileVars, last_sequence_,
                     version, held, bgVars, apply, doomed, replay, acked, lost>>
      /\ last_sequence_ <= last_sequence_' /\ next_file_number_ <= next_file_number_'
  BY Numbers DEF WriteLog
<1>b. PICK ok \in BOOLEAN, read \in BOOLEAN :
        /\ logs' = IF ok \/ read
                   THEN [logs EXCEPT ![logfile_number_].data = @ \cup {write.entry}]
                   ELSE logs
        /\ write' = [write EXCEPT !.step = AfterLog(ok)]
  BY DEF WriteLog
<1>c. /\ write'.entry = write.entry /\ write'.step # "idle"
      /\ write'.step \in {"sync", "insert"} => ok
  BY <1>b DEF AfterLog, TypeInv, Typed, CallType
<1>2. DiskInv'
  BY <1>1, <1>a, DiskFrame
<1>3. EditInv' /\ CurrentInv'
  BY <1>1, <1>a, EditFrame, CurrentFrame
<1>4. TablesInv' /\ DataInv'
  BY <1>1, <1>a, TablesFrame, DataFrame
<1>5. CallsInv' /\ DoomedInv'
  BY <1>a DEF CallsInv, DoomedInv
<1>6. LogsInv'
  <2>1. /\ logfile_number_ \in DOMAIN logs /\ log_number_ \in DOMAIN logs
        /\ has_imm_ => log_number_ # logfile_number_
    BY <1>1, Numbers DEF LogsInv
  <2>2. /\ DOMAIN logs' = DOMAIN logs
        /\ \A n \in DOMAIN logs : n # logfile_number_ => logs'[n] = logs[n]
        /\ logs'[logfile_number_].data =
             IF ok \/ read THEN logs[logfile_number_].data \cup {write.entry}
             ELSE logs[logfile_number_].data
    BY <1>b, <2>1 DEF TypeInv, Typed, DiskType, LogFile
  <2>3. imm_ # {} => has_imm_
    BY DEF TypeInv, Control, PhaseControl
  <2> QED
    BY <1>1, <1>a, <1>c, <2>1, <2>2, <2>3 DEF LogsInv
<1>7. AckedInv'
  BY <1>1, <1>a DEF AckedInv, InTables
<1> QED
  BY <1>1, <1>2, <1>3, <1>4, <1>5, <1>6, <1>7, UpOpen

LEMMA WriteSyncDurable ==
  ASSUME TypeInv, TypeInv', DurableInv, WriteSync
  PROVE  DurableInv'
<1> USE DEF DurableInv, UpParts
<1>1. phase = "up" /\ phase' = "up" /\ write.step = "sync"
  BY NoTypes DEF WriteSync, TypeInv, Control, PhaseControl
<1>a. /\ UNCHANGED <<tables, manifests, current, memVars, fileVars, last_sequence_,
                     version, held, bgVars, apply, doomed, replay, acked, lost>>
      /\ last_sequence_ <= last_sequence_' /\ next_file_number_ <= next_file_number_'
  BY Numbers DEF WriteSync
<1>b. /\ write'.entry = write.entry /\ write'.step \in {"insert", "failed"}
      /\ DOMAIN logs' = DOMAIN logs
      /\ \A n \in DOMAIN logs : logs'[n].data = logs[n].data
  <2>1. PICK ok \in BOOLEAN :
          /\ logs' = IF ok
                     THEN [logs EXCEPT ![logfile_number_].synced =
                                         logs[logfile_number_].data]
                     ELSE logs
          /\ write' = [write EXCEPT !.step = IF ok THEN "insert" ELSE "failed"]
    BY DEF WriteSync
  <2> QED
    BY <2>1 DEF TypeInv, Typed, CallType, DiskType, LogFile
<1>2. DiskInv'
  BY <1>1, <1>a, DiskFrame
<1>3. EditInv' /\ CurrentInv'
  BY <1>1, <1>a, EditFrame, CurrentFrame
<1>4. TablesInv' /\ DataInv'
  BY <1>1, <1>a, TablesFrame, DataFrame
<1>5. CallsInv' /\ DoomedInv'
  BY <1>a DEF CallsInv, DoomedInv
<1>6. LogsInv'
  BY <1>1, <1>a, <1>b DEF LogsInv
<1>7. AckedInv'
  BY <1>1, <1>a DEF AckedInv, InTables
<1> QED
  BY <1>1, <1>2, <1>3, <1>4, <1>5, <1>6, <1>7, UpOpen

LEMMA WriteEndDurable ==
  ASSUME TypeInv, TypeInv', DurableInv, WriteEnd
  PROVE  DurableInv'
<1> USE DEF DurableInv, UpParts
<1>1. phase = "up" /\ phase' = "up" /\ write.step \in {"insert", "failed"}
  BY DEF WriteEnd, Free
<1>a. /\ UNCHANGED <<diskVars, imm_, has_imm_, fileVars, version, held, bgVars, apply,
                     doomed, replay, lost>>
      /\ mem_' = mem_ \cup Inserted /\ last_sequence_' = write.entry.seq
      /\ acked' = acked \cup Inserted /\ write' = NoWrite
  BY DEF WriteEnd, Inserted
<1>b. /\ last_sequence_' = last_sequence_ + 1
      /\ last_sequence_ <= last_sequence_' /\ next_file_number_ <= next_file_number_'
  BY <1>1, <1>a, Numbers DEF LogsInv
<1>2. DiskInv'
  BY <1>1, <1>a, DiskFrame
<1>3. EditInv' /\ CurrentInv'
  BY <1>1, <1>a, <1>b, EditFrame, CurrentFrame
<1>4. TablesInv' /\ DataInv'
  BY <1>1, <1>a, <1>b, TablesFrame, DataFrame
<1>5. CallsInv' /\ DoomedInv'
  BY <1>a DEF CallsInv, DoomedInv
<1>6. LogsInv'
  <2>1. /\ logfile_number_ \in DOMAIN logs /\ log_number_ \in DOMAIN logs
        /\ Inserted \subseteq logs[logfile_number_].data
        /\ write.entry.seq = last_sequence_ + 1
    BY <1>1 DEF LogsInv, Inserted
  <2>2. /\ \A e \in logs[logfile_number_].data : e.seq <= last_sequence_'
        /\ has_imm_ => \A e \in logs[log_number_].data : e.seq <= last_sequence_'
    BY <1>1, <1>b, <2>1, Numbers, EntryNumbers DEF LogsInv
  <2> QED
    BY <1>1, <1>a, <2>1, <2>2, NoTypes DEF LogsInv
<1>7. AckedInv'
  BY <1>1, <1>a DEF AckedInv, InTables
<1> QED
  BY <1>1, <1>2, <1>3, <1>4, <1>5, <1>6, <1>7, UpOpen

LEMMA IterDurable ==
  ASSUME TypeInv, TypeInv', DurableInv, IterBegin \/ IterEnd
  PROVE  DurableInv'
<1> USE DEF DurableInv, UpParts
<1>1. /\ phase = "up" /\ phase' = "up" /\ doomed = {}
      /\ held' \in {version, {}}
  BY DEF IterBegin, IterEnd, Free
<1>a. /\ UNCHANGED <<diskVars, memVars, fileVars, last_sequence_, version, bgVars,
                     apply, doomed, replay, write, acked, lost>>
      /\ last_sequence_ <= last_sequence_' /\ next_file_number_ <= next_file_number_'
  BY Numbers DEF IterBegin, IterEnd
<1>2. DiskInv'
  BY <1>1, <1>a, DiskFrame
<1>3. EditInv' /\ CurrentInv'
  BY <1>1, <1>a, EditFrame, CurrentFrame
<1>4. TablesInv'
  BY <1>1, <1>a DEF TablesInv
<1>5. DataInv'
  BY <1>1, <1>a, DataFrame
<1>6. CallsInv' /\ DoomedInv'
  BY <1>1, <1>a DEF CallsInv, DoomedInv
<1>7. LogsInv' /\ AckedInv'
  BY <1>1, <1>a DEF LogsInv, AckedInv, InTables
<1> QED
  BY <1>1, <1>2, <1>3, <1>4, <1>5, <1>6, <1>7, UpOpen

-----------------------------------------------------------------------------
(* The background thread.                                                  *)

LEMMA FlushBeginDurable ==
  ASSUME TypeInv, TypeInv', DurableInv, FlushBegin
  PROVE  DurableInv'
<1> USE DEF DurableInv, UpParts
<1>1. phase = "up" /\ phase' = "up" /\ doomed = {} /\ apply.by = "none" /\ flush = 0
  BY DEF FlushBegin, Free
<1>a. /\ UNCHANGED <<diskVars, memVars, logfile_number_, log_number_,
                     manifest_file_number_, last_sequence_, version, held, compact,
                     apply, doomed, replay, write, acked, lost>>
      /\ flush' = next_file_number_ /\ next_file_number_' = next_file_number_ + 1
      /\ pending_outputs_' = pending_outputs_ \cup {next_file_number_}
  BY DEF FlushBegin
<1>b. last_sequence_ <= last_sequence_' /\ next_file_number_ <= next_file_number_'
  BY <1>a, Numbers
<1>2. DiskInv'
  BY <1>1, <1>a, DiskFrame
<1>3. EditInv' /\ CurrentInv'
  BY <1>1, <1>a, <1>b, EditFrame, CurrentFrame
<1>4. TablesInv'
  BY <1>1, <1>a, Numbers DEF TablesInv
<1>5. DataInv'
  BY <1>1, <1>a, <1>b, DataFrame
<1>6. CallsInv' /\ DoomedInv'
  BY <1>1, <1>a DEF CallsInv, DoomedInv
<1>7. LogsInv' /\ AckedInv'
  BY <1>1, <1>a, Numbers DEF LogsInv, AckedInv, InTables
<1> QED
  BY <1>1, <1>2, <1>3, <1>4, <1>5, <1>6, <1>7, UpOpen

\* A step that writes a table that no version has: what the versions hold stays.
LEMMA NewTableKeeps ==
  ASSUME TypeInv, DurableInv, phase = "up", phase' = "up", apply.by = "none",
         UNCHANGED <<manifests, current, version>>,
         DOMAIN tables \subseteq DOMAIN tables',
         ProcessOnly => \A n \in DOMAIN tables' : ~tables'[n].damaged,
         \A n \in version : tables'[n] = tables[n]
  PROVE  /\ DiskInv'
         /\ \A e : InTables(e, version) => InTables(e, version)'
<1> USE DEF DurableInv, UpParts
<1>1. /\ DiskVersion = version /\ current # 0 /\ version \subseteq DOMAIN tables
      /\ apply.step = "none"
  BY DEF CurrentInv, TablesInv, Appended, TypeInv, Control, ApplyControl
<1>2. DiskInv'
  BY <1>1, DiskSame DEF DiskInv, TablesUpTo
<1>3. \A e : InTables(e, version) => InTables(e, version)'
  BY <1>1 DEF InTables
<1> QED
  BY <1>2, <1>3

\* The table of a flush holds imm_, and the edit says so.
LEMMA FlushBuildDurable ==
  ASSUME TypeInv, TypeInv', DurableInv, FlushBuild
  PROVE  DurableInv'
<1> USE DEF DurableInv, UpParts
<1>1. /\ phase = "up" /\ phase' = "up" /\ doomed = {} /\ apply.by = "none"
      /\ apply.step = "none" /\ flush # 0 /\ has_imm_
  BY DEF FlushBuild, Free, TypeInv, Control, ApplyControl, PhaseControl
<1>a. /\ UNCHANGED <<logs, manifests, current, memVars, fileVars, last_sequence_,
                     version, held, compact, doomed, replay, write, acked, lost>>
      /\ pending_outputs_' = pending_outputs_ \ {flush}
  BY DEF FlushBuild
<1>b. PICK ok \in BOOLEAN :
        IF ok
        THEN /\ tables' = With(tables, flush, NewTable(imm_, FALSE))
             /\ apply' = StartApply("flush", {flush}, {}, logfile_number_,
                                    next_file_number_, last_sequence_)
             /\ UNCHANGED flush
        ELSE flush' = 0 /\ UNCHANGED <<tables, apply>>
  BY DEF FlushBuild
<1>c. last_sequence_ <= last_sequence_' /\ next_file_number_ <= next_file_number_'
  BY <1>a, Numbers
<1>d. /\ DiskVersion = version /\ DiskMeta.log = log_number_
      /\ DiskMeta.last <= last_sequence_ /\ current = manifest_file_number_
      /\ current # 0 /\ DiskMeta.next <= next_file_number_
  BY <1>1 DEF CurrentInv, Appended
<1>e. LogsInv'
  BY <1>1, <1>a DEF LogsInv
<1>f. DoomedInv'
  BY <1>1, <1>a DEF DoomedInv
<1>2. CASE ok
  <2>1. /\ DOMAIN tables' = DOMAIN tables \cup {flush}
        /\ tables'[flush].data = imm_ /\ ~tables'[flush].damaged
        /\ \A n \in DOMAIN tables : n # flush => tables'[n] = tables[n]
    BY <1>b, <1>2 DEF With, NewTable
  <2>2. /\ apply'.by = "flush" /\ apply'.step = "append" /\ flush' = flush
        /\ apply'.edit = [add |-> {flush}, del |-> {}, meta |-> TRUE,
                          log |-> logfile_number_, next |-> next_file_number_,
                          last |-> last_sequence_]
    BY <1>b, <1>2 DEF StartApply
  <2>3. /\ version \subseteq DOMAIN tables /\ flush \notin version
        /\ held \subseteq DOMAIN tables /\ flush \notin held
        /\ compact.base \subseteq DOMAIN tables /\ flush \notin compact.base
        /\ compact.outputs \subseteq DOMAIN tables /\ flush \notin compact.outputs
        /\ compact.inputs \subseteq compact.base
    BY <1>1 DEF TablesInv
  <2>4. /\ ProcessOnly => \A n \in DOMAIN tables' : ~tables'[n].damaged
        /\ \A n \in version : tables'[n] = tables[n]
    BY <2>1, <2>3 DEF DiskInv
  <2>5. DiskInv' /\ \A e : InTables(e, version) => InTables(e, version)'
    BY <1>1, <1>a, <2>1, <2>4, NewTableKeeps
  <2>6. VersionAfter' = version \cup {flush}
    BY <1>a, <2>2 DEF VersionAfter
  <2>7. EditInv'
    <3>1. \A e \in imm_ : e.seq <= last_sequence_
      BY <1>1 DEF LogsInv
    <3>2. TablesUpTo(VersionAfter, apply.edit.last)'
      BY <1>1, <1>a, <2>1, <2>2, <2>3, <2>6, <3>1 DEF TablesUpTo, DataInv
    <3>3. /\ manifest_file_number_ < next_file_number_
          /\ logfile_number_ < next_file_number_
          /\ flush < next_file_number_
          /\ \A n \in version : n < next_file_number_
      BY <1>1 DEF TablesInv, LogsInv
    <3> QED
      BY <1>a, <2>1, <2>2, <2>3, <2>6, <3>2, <3>3, Numbers DEF EditInv
  <2>8. CurrentInv'
    BY <1>1, <1>a, <1>d, <2>2, DiskSame DEF CurrentInv, Appended
  <2>9. TablesInv'
    BY <1>1, <1>a, <2>1, <2>2, <2>3 DEF TablesInv
  <2>10. CallsInv'
    BY <1>a, <2>1, <2>2 DEF CallsInv
  <2>11. DataInv'
    <3>1. \A n \in version \cup compact.base \cup compact.outputs : tables'[n] = tables[n]
      BY <2>1, <2>3
    <3>2. \A e : InTables(e, compact.outputs) => InTables(e, compact.outputs)'
      BY <1>a, <2>1, <3>1 DEF InTables
    <3> QED
      BY <1>1, <1>a, <2>1, <2>3, <3>1, <3>2 DEF DataInv, TablesUpTo
  <2>12. AckedInv'
    BY <1>1, <1>a, <2>5 DEF AckedInv
  <2> QED
    BY <1>1, <1>e, <1>f, <2>5, <2>7, <2>8, <2>9, <2>10, <2>11, <2>12, UpOpen
<1>3. CASE ~ok
  <2>1. flush' = 0 /\ tables' = tables /\ apply' = apply
    BY <1>b, <1>3
  <2>2. DiskInv'
    BY <1>1, <1>a, <2>1, DiskFrame
  <2>3. EditInv' /\ CurrentInv'
    BY <1>1, <1>a, <1>c, <2>1, EditFrame, CurrentFrame
  <2>4. TablesInv'
    BY <1>1, <1>a, <2>1, Numbers DEF TablesInv
  <2>5. DataInv'
    BY <1>1, <1>a, <1>c, <2>1, DataFrame
  <2>6. CallsInv' /\ AckedInv'
    BY <1>1, <1>a, <2>1 DEF CallsInv, AckedInv, InTables
  <2> QED
    BY <1>1, <1>e, <1>f, <2>2, <2>3, <2>4, <2>5, <2>6, UpOpen
<1> QED
  BY <1>2, <1>3

\* A compaction starts with all it reads still to write.
LEMMA CompactBeginDurable ==
  ASSUME TypeInv, TypeInv', DurableInv, CompactBegin
  PROVE  DurableInv'
<1> USE DEF DurableInv, UpParts
<1>1. phase = "up" /\ phase' = "up" /\ doomed = {} /\ apply.by = "none" /\ flush = 0
  BY DEF CompactBegin, Free
<1>a. /\ UNCHANGED <<diskVars, memVars, fileVars, last_sequence_, version, held, flush,
                     pending_outputs_, apply, doomed, replay, write, acked, lost>>
      /\ last_sequence_ <= last_sequence_' /\ next_file_number_ <= next_file_number_'
  BY Numbers DEF CompactBegin
<1>b. PICK inputs \in SUBSET version \ {{}} :
        compact' = [on |-> TRUE, base |-> version, inputs |-> inputs, outputs |-> {},
                    builder |-> 0, todo |-> DataOf(inputs)]
  BY DEF CompactBegin, NoCompaction
<1>c. /\ compact'.base = version /\ compact'.inputs = inputs /\ compact'.outputs = {}
      /\ compact'.builder = 0 /\ compact'.todo = DataOf(inputs)
  BY <1>b
<1>2. DiskInv'
  BY <1>1, <1>a, DiskFrame
<1>3. EditInv' /\ CurrentInv'
  BY <1>1, <1>a, EditFrame, CurrentFrame
<1>4. TablesInv'
  BY <1>1, <1>a, <1>c DEF TablesInv
<1>5. DataInv'
  <2>1. inputs \subseteq version /\ version \subseteq DOMAIN tables
    BY <1>1 DEF TablesInv
  <2>2. \A n \in inputs : tables[n].damaged \/ tables[n].data \subseteq DataOf(inputs)
    BY <2>1 DEF DataOf, Damaged
  <2>3. \A e \in DataOf(inputs) : e.seq <= last_sequence_
    BY <1>1, <2>1 DEF DataOf, DataInv, TablesUpTo
  <2> QED
    BY <1>1, <1>a, <1>c, <2>1, <2>2, <2>3 DEF DataInv, TablesUpTo
<1>6. CallsInv' /\ DoomedInv'
  BY <1>1, <1>a DEF CallsInv, DoomedInv
<1>7. LogsInv' /\ AckedInv'
  BY <1>1, <1>a DEF LogsInv, AckedInv, InTables
<1> QED
  BY <1>1, <1>2, <1>3, <1>4, <1>5, <1>6, <1>7, UpOpen

\* What DeleteObsoleteFiles() may delete.
LEMMA ObsoleteIs ==
  ASSUME NEW live, NEW log, NEW manifest, NEW d \in Obsolete(live, log, manifest)
  PROVE  /\ d[1] = "log" => d[2] < log
         /\ d[1] = "table" => d[2] \notin live
         /\ d[1] = "manifest" => d[2] < manifest
BY DEF Obsolete

\* A compaction that is given up leaves only tables that no version has.
LEMMA EndCompactionDurable ==
  ASSUME TypeInv, TypeInv', DurableInv, Merging, EndCompaction(version),
         phase' = phase,
         UNCHANGED <<logs, manifests, current, memVars, logfile_number_, log_number_,
                     manifest_file_number_, last_sequence_, version, held, apply,
                     replay, write, acked, lost>>,
         next_file_number_ <= next_file_number_',
         DOMAIN tables' = DOMAIN tables,
         ProcessOnly => \A n \in DOMAIN tables' : ~tables'[n].damaged,
         \A n \in DOMAIN tables : n \notin compact.outputs => tables'[n] = tables[n]
  PROVE  DurableInv'
<1> USE DEF DurableInv, UpParts
<1>1. /\ phase = "up" /\ phase' = "up" /\ doomed = {} /\ apply.by = "none" /\ flush = 0
      /\ apply.step = "none"
  BY DEF Merging, Free, TypeInv, Control, ApplyControl
<1>2. /\ compact' = NoCompaction /\ flush' = flush
      /\ pending_outputs_' = pending_outputs_ \ compact.outputs
      /\ doomed' = Obsolete(pending_outputs_' \cup (version \cup held \cup {}),
                            log_number_, manifest_file_number_)
  BY DEF EndCompaction, LiveFiles
<1>3. /\ compact'.base = {} /\ compact'.inputs = {} /\ compact'.outputs = {}
      /\ compact'.builder = 0 /\ compact'.todo = {}
  BY <1>2 DEF NoCompaction
<1>4. /\ version \subseteq DOMAIN tables
      /\ \A n \in version : tables'[n] = tables[n]
  BY <1>1 DEF TablesInv
<1>5. DiskInv' /\ \A e : InTables(e, version) => InTables(e, version)'
  BY <1>1, <1>4, NewTableKeeps
<1>6. CurrentInv'
  <2>1. Readable
    BY <1>1 DEF DiskInv
  <2>2. DiskMeta.next \in Nat /\ next_file_number_' \in Nat
    BY <2>1, DiskMetaType DEF TypeInv, Typed, FieldType
  <2>3. DiskMeta.next <= next_file_number_'
    BY <1>1, <2>2, Numbers DEF CurrentInv, Appended
  <2> QED
    BY <1>1, <2>3, DiskSame DEF CurrentInv, Appended
<1>7. EditInv' /\ CallsInv'
  BY <1>1 DEF EditInv, CallsInv
<1>8. TablesInv'
  <2>1. next_file_number_' \in Nat
    BY DEF TypeInv, Typed, FieldType
  <2> QED
    BY <1>1, <1>2, <1>3, <2>1, Numbers DEF TablesInv
<1>9. DoomedInv'
  <2> SUFFICES ASSUME NEW d \in doomed'
               PROVE  /\ d[1] = "log" => d[2] < log_number_
                      /\ d[1] = "table" =>
                           /\ d[2] \notin version /\ d[2] \notin held
                           /\ d[2] \notin compact'.base
                           /\ d[2] \notin pending_outputs_'
                      /\ d[1] = "manifest" => d[2] < manifest_file_number_
    BY DEF DoomedInv
  <2> QED
    BY <1>2, <1>3, ObsoleteIs
<1>10. LogsInv'
  <2>1. next_file_number_' \in Nat
    BY DEF TypeInv, Typed, FieldType
  <2> QED
    BY <1>1, <2>1, Numbers DEF LogsInv
<1>11. DataInv'
  BY <1>1, <1>3, <1>4 DEF DataInv, TablesUpTo
<1>12. AckedInv'
  BY <1>1, <1>5 DEF AckedInv
<1> QED
  BY <1>1, <1>5, <1>6, <1>7, <1>8, <1>9, <1>10, <1>11, <1>12, UpOpen

LEMMA CompactOpenDurable ==
  ASSUME TypeInv, TypeInv', DurableInv, CompactOpen
  PROVE  DurableInv'
<1> USE DEF DurableInv, UpParts
<1>1. /\ phase = "up" /\ phase' = "up" /\ doomed = {} /\ apply.by = "none" /\ flush = 0
      /\ apply.step = "none" /\ compact.builder = 0 /\ Merging
  BY DEF CompactOpen, Merging, Free, TypeInv, Control, ApplyControl
<1>a. /\ UNCHANGED <<logs, manifests, current, memVars, logfile_number_, log_number_,
                     manifest_file_number_, last_sequence_, version, held, apply,
                     replay, write, acked, lost>>
      /\ next_file_number_' = next_file_number_ + 1
  BY DEF CompactOpen
<1>b. PICK ok \in BOOLEAN :
        IF ok
        THEN /\ pending_outputs_' = pending_outputs_ \cup {next_file_number_}
             /\ compact' = [compact EXCEPT !.builder = next_file_number_,
                              !.outputs = @ \cup {next_file_number_}]
             /\ tables' = With(tables, next_file_number_, NewTable({}, FALSE))
             /\ UNCHANGED <<flush, doomed>>
        ELSE EndCompaction(version) /\ UNCHANGED tables
  BY DEF CompactOpen
<1>c. last_sequence_ <= last_sequence_' /\ next_file_number_ <= next_file_number_'
  BY <1>a, Numbers
<1>2. CASE ok
  <2>1. /\ DOMAIN tables' = DOMAIN tables \cup {next_file_number_}
        /\ tables'[next_file_number_].data = {}
        /\ ~tables'[next_file_number_].damaged
        /\ \A n \in DOMAIN tables : n # next_file_number_ => tables'[n] = tables[n]
    BY <1>b, <1>2 DEF With, NewTable
  <2>2. /\ compact'.builder = next_file_number_
        /\ compact'.outputs = compact.outputs \cup {next_file_number_}
        /\ compact'.base = compact.base /\ compact'.inputs = compact.inputs
        /\ compact'.todo = compact.todo
        /\ flush' = flush /\ doomed' = doomed
        /\ pending_outputs_' = pending_outputs_ \cup {next_file_number_}
    BY <1>b, <1>2 DEF TypeInv, Typed, CallType
  <2>3. \A n \in version \cup held \cup compact.base \cup compact.outputs :
          n \in DOMAIN tables /\ n < next_file_number_ /\ n # next_file_number_
    BY <1>1, Numbers DEF TablesInv
  <2>4. /\ ProcessOnly => \A n \in DOMAIN tables' : ~tables'[n].damaged
        /\ \A n \in version : tables'[n] = tables[n]
    BY <2>1, <2>3 DEF DiskInv
  <2>5. DiskInv' /\ \A e : InTables(e, version) => InTables(e, version)'
    BY <1>1, <1>a, <2>1, <2>4, NewTableKeeps
  <2>6. CurrentInv'
    <3>1. Readable
      BY <1>1 DEF DiskInv
    <3>2. DiskMeta.next \in Nat
      BY <3>1, DiskMetaType
    <3>3. DiskMeta.next <= next_file_number_'
      BY <1>1, <1>a, <3>2, Numbers DEF CurrentInv, Appended
    <3> QED
      BY <1>1, <1>a, <3>3, DiskSame DEF CurrentInv, Appended
  <2>7. EditInv' /\ CallsInv' /\ DoomedInv'
    BY <1>1, <1>a, <2>2 DEF EditInv, CallsInv, DoomedInv
  <2>8. TablesInv'
    BY <1>1, <1>a, <2>1, <2>2, <2>3, Numbers DEF TablesInv
  <2>9. LogsInv'
    BY <1>1, <1>a, Numbers DEF LogsInv
  <2>10. DataInv'
    <3>1. \A n \in version \cup compact.base \cup compact.outputs : tables'[n] = tables[n]
      BY <2>1, <2>3
    <3>2. \A e : InTables(e, compact.outputs) => InTables(e, compact.outputs)'
      BY <2>1, <2>2, <3>1 DEF InTables
    <3>3. compact.inputs \subseteq compact.base
      BY <1>1 DEF TablesInv
    <3> QED
      BY <1>1, <1>a, <2>1, <2>2, <2>3, <3>1, <3>2, <3>3 DEF DataInv, TablesUpTo
  <2>11. AckedInv'
    BY <1>1, <1>a, <2>5 DEF AckedInv
  <2> QED
    BY <1>1, <2>5, <2>6, <2>7, <2>8, <2>9, <2>10, <2>11, UpOpen
<1>3. CASE ~ok
  <2>1. EndCompaction(version) /\ tables' = tables
    BY <1>b, <1>3
  <2>2. ProcessOnly => \A n \in DOMAIN tables : ~tables[n].damaged
    BY DEF DiskInv
  <2> QED
    BY <1>1, <1>a, <1>c, <2>1, <2>2, EndCompactionDurable
<1> QED
  BY <1>2, <1>3

LEMMA CompactFinishDurable ==
  ASSUME TypeInv, TypeInv', DurableInv, CompactFinish
  PROVE  DurableInv'
<1> USE DEF DurableInv, UpParts
<1>1. /\ phase = "up" /\ phase' = "up" /\ doomed = {} /\ apply.by = "none" /\ flush = 0
      /\ apply.step = "none" /\ compact.builder # 0 /\ Merging
  BY DEF CompactFinish, Merging, Free, TypeInv, Control, ApplyControl
<1>a. UNCHANGED <<logs, manifests, current, memVars, fileVars, last_sequence_, version,
                  held, apply, replay, write, acked, lost>>
  BY DEF CompactFinish
<1>b. PICK ok \in BOOLEAN, chunk \in SUBSET compact.todo \ {{}} :
        /\ tables' = [tables EXCEPT ![compact.builder] = NewTable(chunk, ok)]
        /\ IF ok
           THEN /\ compact' = [compact EXCEPT !.builder = 0, !.todo = @ \ chunk]
                /\ UNCHANGED <<flush, pending_outputs_, doomed>>
           ELSE EndCompaction(version)
  BY DEF CompactFinish
<1>c. last_sequence_ <= last_sequence_' /\ next_file_number_ <= next_file_number_'
  BY <1>a, Numbers
<1>d. /\ compact.builder \in compact.outputs /\ compact.builder \in DOMAIN tables
      /\ tables[compact.builder].data = {}
      /\ compact.builder \notin version /\ compact.builder \notin compact.base
      /\ compact.inputs \subseteq compact.base
      /\ version \subseteq DOMAIN tables /\ compact.base \subseteq DOMAIN tables
      /\ compact.outputs \subseteq DOMAIN tables
  BY <1>1 DEF TablesInv
<1>e. /\ DOMAIN tables' = DOMAIN tables
      /\ tables'[compact.builder].data = chunk /\ ~tables'[compact.builder].damaged
      /\ \A n \in DOMAIN tables : n # compact.builder => tables'[n] = tables[n]
      /\ ProcessOnly => \A n \in DOMAIN tables' : ~tables'[n].damaged
  BY <1>b, <1>d DEF NewTable, DiskInv
<1>2. CASE ok
  <2>1. /\ compact'.builder = 0 /\ compact'.todo = compact.todo \ chunk
        /\ compact'.base = compact.base /\ compact'.inputs = compact.inputs
        /\ compact'.outputs = compact.outputs
        /\ UNCHANGED <<flush, pending_outputs_, doomed>>
    BY <1>b, <1>2 DEF TypeInv, Typed, CallType
  <2>2. \A n \in version : tables'[n] = tables[n]
    BY <1>d, <1>e
  <2>3. DiskInv' /\ \A e : InTables(e, version) => InTables(e, version)'
    BY <1>1, <1>a, <1>e, <2>2, NewTableKeeps
  <2>4. CurrentInv'
    BY <1>1, <1>a, DiskSame DEF CurrentInv, Appended
  <2>5. EditInv' /\ CallsInv' /\ DoomedInv'
    BY <1>1, <1>a, <2>1 DEF EditInv, CallsInv, DoomedInv
  <2>6. TablesInv'
    <3>1. \A n \in compact.outputs : ~tables'[n].damaged
      BY <1>1, <1>d, <1>e DEF TablesInv
    <3> QED
      BY <1>1, <1>a, <1>e, <2>1, <3>1 DEF TablesInv
  <2>7. LogsInv'
    BY <1>1, <1>a DEF LogsInv
  <2>8. DataInv'
    <3>1. \A n \in version \cup compact.base : tables'[n] = tables[n]
      BY <1>d, <1>e
    <3>2. \A e : InTables(e, compact.outputs) => InTables(e, compact.outputs)'
      BY <1>d, <1>e, <2>1 DEF InTables
    <3>3. \A e \in chunk : InTables(e, compact.outputs)'
      BY <1>d, <1>e, <2>1 DEF InTables
    <3>4. \A e \in chunk : e.seq <= last_sequence_
      BY DEF DataInv
    <3>5. TablesUpTo(compact.outputs, last_sequence_)'
      BY <1>1, <1>a, <1>d, <1>e, <2>1, <3>4 DEF DataInv, TablesUpTo
    <3>6. /\ TablesUpTo(version, last_sequence_)'
          /\ TablesUpTo(compact.base, last_sequence_)'
      BY <1>1, <1>a, <1>e, <2>1, <3>1 DEF DataInv, TablesUpTo
    <3> QED
      BY <1>a, <1>d, <2>1, <3>1, <3>2, <3>3, <3>5, <3>6 DEF DataInv
  <2>9. AckedInv'
    BY <1>1, <1>a, <2>3 DEF AckedInv
  <2> QED
    BY <1>1, <2>3, <2>4, <2>5, <2>6, <2>7, <2>8, <2>9, UpOpen
<1>3. CASE ~ok
  <2>1. EndCompaction(version)
    BY <1>b, <1>3
  <2>2. \A n \in DOMAIN tables : n \notin compact.outputs => tables'[n] = tables[n]
    BY <1>d, <1>e
  <2> QED
    BY <1>1, <1>a, <1>c, <1>e, <2>1, <2>2, EndCompactionDurable
<1> QED
  BY <1>2, <1>3

LEMMA CompactErrorDurable ==
  ASSUME TypeInv, TypeInv', DurableInv, CompactError
  PROVE  DurableInv'
<1>1. ProcessOnly => \A n \in DOMAIN tables : ~tables[n].damaged
  BY DEF DurableInv, DiskInv
<1>2. next_file_number_ <= next_file_number_' /\ tables' = tables /\ phase' = phase
  BY Numbers DEF CompactError
<1> QED
  BY <1>1, <1>2, EndCompactionDurable DEF CompactError

\* The edit of a compaction replaces its inputs by its outputs.
LEMMA CompactInstallDurable ==
  ASSUME TypeInv, TypeInv', DurableInv, CompactInstall
  PROVE  DurableInv'
<1> USE DEF DurableInv, UpParts
<1>1. /\ phase = "up" /\ phase' = "up" /\ doomed = {} /\ apply.by = "none" /\ flush = 0
      /\ apply.step = "none" /\ compact.builder = 0 /\ compact.todo = {}
  BY DEF CompactInstall, Merging, Free, TypeInv, Control, ApplyControl
<1>a. /\ UNCHANGED <<diskVars, memVars, fileVars, last_sequence_, version, held, bgVars,
                     doomed, replay, write, acked, lost>>
      /\ last_sequence_ <= last_sequence_' /\ next_file_number_ <= next_file_number_'
  BY Numbers DEF CompactInstall
<1>b. /\ apply'.by = "compact" /\ apply'.step = "append"
      /\ apply'.edit = [add |-> compact.outputs, del |-> compact.inputs, meta |-> TRUE,
                        log |-> log_number_, next |-> next_file_number_,
                        last |-> last_sequence_]
  BY DEF CompactInstall, StartApply
<1>2. DiskInv'
  BY <1>1, <1>a, DiskFrame
<1>3. CurrentInv'
  BY <1>1, <1>a, <1>b, DiskSame DEF CurrentInv, Appended
<1>4. EditInv'
  <2>1. VersionAfter' = (version \ compact.inputs) \cup compact.outputs
    BY <1>a, <1>b DEF VersionAfter
  <2>2. /\ manifest_file_number_ < next_file_number_
        /\ log_number_ < next_file_number_
        /\ \A n \in version \cup compact.outputs :
             n \in DOMAIN tables /\ n < next_file_number_
    BY <1>1, Numbers DEF TablesInv, LogsInv
  <2>3. TablesUpTo(VersionAfter, apply.edit.last)'
    BY <1>1, <1>a, <1>b, <2>1 DEF TablesUpTo, DataInv
  <2> QED
    BY <1>a, <1>b, <2>1, <2>2, <2>3, Numbers DEF EditInv
<1>5. TablesInv' /\ DataInv'
  BY <1>1, <1>a, TablesFrame, DataFrame
<1>6. CallsInv' /\ DoomedInv'
  <2>1. Damaged(compact.inputs) = {} /\ compact.inputs \subseteq DOMAIN tables
    BY <1>1 DEF CompactInstall, Broken
  <2>2. \A n \in compact.inputs : ~tables[n].damaged
    BY <2>1 DEF Damaged
  <2> QED
    BY <1>1, <1>a, <1>b, <2>2 DEF CallsInv, DoomedInv
<1>7. LogsInv' /\ AckedInv'
  BY <1>1, <1>a DEF LogsInv, AckedInv, InTables
<1> QED
  BY <1>1, <1>2, <1>3, <1>4, <1>5, <1>6, <1>7, UpOpen

-----------------------------------------------------------------------------
(* The end of an incarnation.                                              *)

\* What the MANIFEST says, when other MANIFESTs change.
LEMMA DiskSameFile ==
  ASSUME current' = current, current \in DOMAIN manifests,
         current \in DOMAIN manifests', manifests'[current] = manifests[current]
  PROVE  /\ DiskVersion' = DiskVersion /\ DiskMeta' = DiskMeta
         /\ Readable' = Readable
BY DEF DiskVersion, DiskMeta, Readable

\* What an open DB serves, DB::Open finds again: in the log file of mem_ or imm_, or in
\* the table that replaced it.
LEMMA ServedOnDisk ==
  ASSUME TypeInv, DurableInv, phase = "up", NEW e,
         e \in mem_ \cup imm_ \/ InTables(e, version)
  PROVE  OnDisk(e)
<1> USE DEF DurableInv, UpParts
<1>a. /\ logfile_number_ \in DOMAIN logs /\ log_number_ \in DOMAIN logs
      /\ log_number_ <= logfile_number_
      /\ mem_ \subseteq logs[logfile_number_].data
      /\ imm_ \subseteq logs[log_number_].data
  BY Numbers DEF LogsInv
<1>b. DiskLogs = {n \in DOMAIN logs : n >= DiskMeta.log}
  BY DEF DiskLogs, DiskMeta
<1>1. CASE ~Appended
  <2>1. DiskMeta.log = log_number_ /\ DiskVersion = version
    BY <1>1 DEF CurrentInv
  <2>2. log_number_ \in DiskLogs /\ logfile_number_ \in DiskLogs
    BY <1>a, <1>b, <2>1, Numbers
  <2> QED
    BY <1>a, <2>1, <2>2 DEF OnDisk
<1>2. CASE Appended
  <2>1. DiskMeta = apply.edit /\ DiskVersion = VersionAfter /\ apply.by # "none"
    BY <1>2 DEF CurrentInv, Appended, TypeInv, Control, ApplyControl
  <2>2. apply.by = "flush" \/ apply.by = "compact"
    BY <2>1 DEF TypeInv, Control, ApplyControl, Typed, CallType
  <2>3. VersionAfter \subseteq DOMAIN tables
    BY <2>1 DEF EditInv
  <2>4. CASE apply.by = "flush"
    <3>1. /\ apply.edit.add = {flush} /\ apply.edit.del = {}
          /\ apply.edit.log = logfile_number_
          /\ flush \in DOMAIN tables /\ tables[flush].data = imm_
      BY <2>4 DEF CallsInv
    <3>2. logfile_number_ \in DiskLogs
      BY <1>a, <1>b, <2>1, <3>1, Numbers
    <3>3. VersionAfter = version \cup {flush}
      BY <3>1 DEF VersionAfter
    <3> QED
      BY <1>a, <2>1, <3>1, <3>2, <3>3 DEF OnDisk, InTables
  <2>5. CASE apply.by = "compact"
    <3>1. /\ apply.edit.add = compact.outputs /\ apply.edit.del = compact.inputs
          /\ apply.edit.log = log_number_ /\ compact.todo = {}
          /\ \A n \in compact.inputs : ~tables[n].damaged
      BY <2>5 DEF CallsInv
    <3>2. log_number_ \in DiskLogs /\ logfile_number_ \in DiskLogs
      BY <1>a, <1>b, <2>1, <3>1, Numbers
    <3>3. VersionAfter = (version \ compact.inputs) \cup compact.outputs
      BY <3>1 DEF VersionAfter
    <3>4. InTables(e, version) => InTables(e, VersionAfter)
      BY <3>1, <3>3 DEF InTables, DataInv
    <3> QED
      BY <1>a, <2>1, <3>2, <3>4 DEF OnDisk
  <2> QED
    BY <2>2, <2>4, <2>5
<1> QED
  BY <1>1, <1>2

\* The process is gone; of the directory at most the MANIFESTs have changed, and the one
\* that CURRENT names, when it can still be read, has the same records.
LEMMA GoneDurable ==
  ASSUME TypeInv, TypeInv', DurableInv, Fresh, phase' = "down",
         UNCHANGED <<logs, tables, current, acked>>,
         0 \notin DOMAIN manifests',
         Readable' => Readable /\ manifests'[current].edits = manifests[current].edits,
         ProcessOnly => (Readable => Readable')
  PROVE  DurableInv'
<1> USE DEF DurableInv
<1>1. Readable' => DiskVersion' = DiskVersion /\ DiskMeta' = DiskMeta
  BY DEF DiskVersion, DiskMeta
<1>2. DiskInv'
  BY <1>1 DEF DiskInv, TablesUpTo
<1>3. OpenParts'
  BY DEF OpenParts, OpenInv, ReplayInv, ApplyOpenInv, Opening
<1>4. EditInv' /\ CurrentInv'
  <2>1. apply'.by = "none" /\ apply'.step = "none"
    BY NoTypes DEF Fresh
  <2> QED
    BY <2>1 DEF EditInv, CurrentInv, Appended
<1>5. UpParts'
  BY NotUp
<1>6. AckedInv'
  <2> SUFFICES ASSUME ProcessOnly, NEW e \in acked PROVE e \in lost \/ OnDisk(e)'
    BY DEF AckedInv, Fresh
  <2>1. Readable /\ Readable'
    BY DEF DiskInv
  <2>2. DiskLogs' = DiskLogs
    BY <1>1, <2>1 DEF DiskLogs, DiskMeta
  <2>3. OnDisk(e)' = OnDisk(e)
    BY <1>1, <2>1, <2>2 DEF OnDisk, InTables
  <2>4. CASE phase # "up"
    BY <2>3, <2>4 DEF AckedInv
  <2>5. CASE phase = "up"
    BY <2>3, <2>5, ServedOnDisk DEF AckedInv
  <2> QED
    BY <2>4, <2>5
<1> QED
  BY <1>2, <1>3, <1>4, <1>5, <1>6

\* The process is gone and the directory is what it was.
LEMMA GoneSame ==
  ASSUME TypeInv, TypeInv', DurableInv, Fresh, phase' = "down",
         UNCHANGED <<logs, tables, manifests, current, acked>>
  PROVE  DurableInv'
<1>1. Readable' = Readable /\ 0 \notin DOMAIN manifests
  BY DiskSame DEF DurableInv, DiskInv
<1> QED
  BY <1>1, GoneDurable

LEMMA CloseDurable ==
  ASSUME TypeInv, TypeInv', DurableInv, Close \/ ProcessCrash
  PROVE  DurableInv'
<1>1. /\ Fresh /\ phase' = "down"
      /\ UNCHANGED <<logs, tables, manifests, current, acked>>
  BY DEF Close, ProcessCrash, Stop
<1> QED
  BY <1>1, GoneSame

-----------------------------------------------------------------------------
(* LogAndApply().                                                          *)

\* An error of the LogAndApply() of DB::Open: its MANIFEST is not the one in CURRENT.
LEMMA ApplyFailsDurable ==
  ASSUME TypeInv, TypeInv', DurableInv, ApplyFails, phase = "apply",
         apply.step # "install", UNCHANGED <<logs, tables, current, acked>>
  PROVE  DurableInv'
<1>1. apply.by = "open"
  BY DEF TypeInv, Control, ApplyControl
<1>2. /\ Fresh /\ phase' = "down"
      /\ manifests' = Without(manifests, {manifest_file_number_})
  BY <1>1 DEF ApplyFails, OpenFails
<1>3. /\ current # 0 /\ manifest_file_number_ = DiskMeta.next
      /\ current < DiskMeta.next /\ Readable
  BY DEF DurableInv, OpenParts, OpenInv, Opening, DiskInv
<1>4. current # manifest_file_number_
  BY <1>3, DiskMetaType DEF DurableInv
<1>5. /\ DOMAIN manifests' \subseteq DOMAIN manifests
      /\ \A n \in DOMAIN manifests' : manifests'[n] = manifests[n]
      /\ current \in DOMAIN manifests' /\ current \in DOMAIN manifests
  BY <1>2, <1>3, <1>4 DEF Without, Readable
<1>6. Readable' = Readable /\ manifests'[current] = manifests[current]
  BY <1>5, DiskSameFile
<1>7. 0 \notin DOMAIN manifests'
  BY <1>5 DEF DurableInv, DiskInv
<1> QED
  BY <1>2, <1>6, <1>7, GoneDurable

\* A step of the LogAndApply() of DB::Open that leaves CURRENT and its MANIFEST alone.
LEMMA OpenApplyFrame ==
  ASSUME TypeInv, TypeInv', DurableInv, phase = "apply", phase' = "apply",
         apply.step # "install", apply'.step # "install",
         UNCHANGED <<logs, tables, current, acked, lost, memVars, fileVars,
                     last_sequence_, version, held, bgVars, doomed, replay, write>>,
         apply'.by = apply.by, apply'.edit = apply.edit,
         current \in DOMAIN manifests', manifests'[current] = manifests[current],
         0 \notin DOMAIN manifests',
         ApplyOpenInv'
  PROVE  DurableInv'
<1> USE DEF DurableInv, OpenParts
<1>1. current # 0 /\ current \in DOMAIN manifests
  BY DEF DiskInv, Readable
<1>2. DiskVersion' = DiskVersion /\ DiskMeta' = DiskMeta /\ Readable' = Readable
  BY <1>1, DiskSameFile
<1>3. DiskInv'
  BY <1>1, <1>2 DEF DiskInv, TablesUpTo
<1>4. OpenInv' /\ ReplayInv'
  BY <1>2 DEF OpenInv, ReplayInv, Opening
<1>5. VersionAfter' = VersionAfter
  BY DEF VersionAfter
<1>6. EditInv'
  BY <1>5 DEF EditInv, TablesUpTo
<1>7. CurrentInv'
  BY DEF CurrentInv, Appended
<1>8. UpParts'
  BY NotUp
<1>9. AckedInv'
  <2>1. DiskLogs' = DiskLogs
    BY <1>2 DEF DiskLogs, DiskMeta
  <2>2. \A e : OnDisk(e)' = OnDisk(e)
    BY <1>2, <2>1 DEF OnDisk, InTables
  <2> QED
    BY <1>5, <2>2 DEF AckedInv, InTables
<1> QED
  BY <1>3, <1>4, <1>6, <1>7, <1>8, <1>9

\* The new MANIFEST gets a number that CURRENT does not name.
LEMMA NewManifestNumber ==
  ASSUME TypeInv, DurableInv, phase = "apply", apply.step # "install"
  PROVE  /\ current # 0 /\ current \in DOMAIN manifests
         /\ current # manifest_file_number_ /\ apply.by = "open"
         /\ manifest_file_number_ # 0 /\ 0 \notin DOMAIN manifests
<1>1. /\ current # 0 /\ manifest_file_number_ = DiskMeta.next
      /\ current < DiskMeta.next /\ Readable
  BY DEF DurableInv, OpenParts, OpenInv, Opening, DiskInv
<1> QED
  BY <1>1, DiskMetaType
     DEF DurableInv, DiskInv, Readable, TypeInv, Control, ApplyControl

\* A torn record follows the ones of a new MANIFEST, not those of CURRENT's, which would
\* be in doubt.
LEMMA TornCrashDurable ==
  ASSUME TypeInv, TypeInv', DurableInv, astray' = {}, TornCrash
  PROVE  DurableInv'
<1>1. /\ Fresh /\ phase' = "down"
      /\ UNCHANGED <<logs, tables, current, acked>>
      /\ manifests' = [manifests EXCEPT ![manifest_file_number_].torn = TRUE]
  BY DEF TornCrash, Stop
<1>2. phase = "apply" /\ apply.step = "append"
  BY DEF TornCrash, Contest, TypeInv, Control, ApplyControl
<1>3. /\ current \in DOMAIN manifests /\ current # manifest_file_number_
      /\ 0 \notin DOMAIN manifests
  BY <1>2, NewManifestNumber
<1>4. /\ DOMAIN manifests' = DOMAIN manifests
      /\ manifests'[current] = manifests[current]
  BY <1>1, <1>3
<1>5. Readable' = Readable
  BY <1>1, <1>3, <1>4, DiskSameFile
<1> QED
  BY <1>1, <1>3, <1>4, <1>5, GoneDurable

LEMMA ApplyCreateDurable ==
  ASSUME TypeInv, TypeInv', DurableInv, ApplyCreate
  PROVE  DurableInv'
<1>1. phase = "apply" /\ apply.step = "create" /\ apply.by = "open"
  BY DEF ApplyCreate, TypeInv, Control, ApplyControl
<1>2. PICK ok \in BOOLEAN :
        IF ok
        THEN /\ manifests' = With(manifests, manifest_file_number_,
                                  [edits |-> <<SnapshotEdit>>, synced |-> 0,
                                   torn |-> FALSE])
             /\ apply' = [apply EXCEPT !.step = "append"]
             /\ UNCHANGED <<phase, memVars, fileVars, last_sequence_, version, held,
                            bgVars, doomed, replay, write, lost>>
        ELSE ApplyFails
  BY DEF ApplyCreate
<1>3. UNCHANGED <<logs, tables, current, acked>>
  BY DEF ApplyCreate
<1>4. CASE ok
  <2>1. /\ apply'.step = "append" /\ apply'.by = apply.by /\ apply'.edit = apply.edit
        /\ UNCHANGED <<phase, memVars, fileVars, last_sequence_, version, held,
                       bgVars, doomed, replay, write, lost>>
    BY <1>2, <1>4 DEF TypeInv, Typed, CallType
  <2>2. /\ DOMAIN manifests' = DOMAIN manifests \cup {manifest_file_number_}
        /\ manifests'[manifest_file_number_].edits = <<SnapshotEdit>>
        /\ ~manifests'[manifest_file_number_].torn
        /\ \A n \in DOMAIN manifests :
             n # manifest_file_number_ => manifests'[n] = manifests[n]
    BY <1>2, <1>4 DEF With
  <2>3. /\ current \in DOMAIN manifests' /\ manifests'[current] = manifests[current]
        /\ 0 \notin DOMAIN manifests'
    BY <1>1, <2>2, NewManifestNumber DEF DurableInv, DiskInv
  <2>4. SnapshotEdit' = SnapshotEdit
    BY <2>1 DEF SnapshotEdit
  <2>5. ApplyOpenInv'
    BY <1>1, <1>3, <2>1, <2>2, <2>4 DEF DurableInv, OpenParts, ApplyOpenInv
  <2> QED
    BY <1>1, <1>3, <2>1, <2>3, <2>5, OpenApplyFrame
<1>5. CASE ~ok
  BY <1>1, <1>2, <1>3, <1>5, ApplyFailsDurable
<1> QED
  BY <1>4, <1>5

\* The record is written.
AppendDone ==
  /\ apply.step = "append"
  /\ manifests' = [manifests EXCEPT ![manifest_file_number_].edits =
                                      Append(@, apply.edit)]
  /\ apply' = [apply EXCEPT !.step = "sync"]
  /\ UNCHANGED <<phase, memVars, fileVars, last_sequence_, version, held, bgVars,
                 doomed, replay, write, lost, logs, tables, current, ghostVars>>

\* The MANIFEST is synced.
SyncDone ==
  /\ apply.step = "sync"
  /\ manifests' = [manifests EXCEPT ![manifest_file_number_].synced =
                                      Len(manifests[manifest_file_number_].edits)]
  /\ apply' = [apply EXCEPT !.step = AfterSync]
  /\ UNCHANGED <<phase, memVars, fileVars, last_sequence_, version, held, bgVars,
                 doomed, replay, write, lost, logs, tables, current, ghostVars>>

\* The LogAndApply() of DB::Open ends with an error.
OpenError ==
  /\ phase = "apply" /\ apply.step # "install" /\ ApplyFails
  /\ UNCHANGED <<logs, tables, current, ghostVars>>

\* While no MANIFEST in use is in doubt, only DB::Open meets a record that it could not
\* write or sync.
LEMMA AppendCases ==
  ASSUME TypeInv, Straight, ApplyAppend, astray' = {}, astray = {}
  PROVE  AppendDone \/ OpenError
<1>1. "descriptor" \notin skewed
  BY DEF Straight
<1>2. PICK ok \in BOOLEAN, read \in BOOLEAN, torn \in BOOLEAN :
        /\ ok /\ "descriptor" \notin skewed => read
        /\ Contest(IF ok /\ read THEN {} ELSE {apply.edit})
        /\ LET m == IF read
                    THEN [manifests EXCEPT ![manifest_file_number_].edits =
                                             Append(@, apply.edit)]
                    ELSE [manifests EXCEPT ![manifest_file_number_].torn =
                                             @ \/ torn]
           IN  IF ok
               THEN /\ manifests' = m
                    /\ apply' = [apply EXCEPT !.step = "sync"]
                    /\ UNCHANGED <<phase, memVars, fileVars, last_sequence_,
                                   version, held, bgVars, doomed, replay, write,
                                   lost, hidden, skewed>>
               ELSE ApplyFails
  BY DEF ApplyAppend
<1>3. apply.step = "append" /\ UNCHANGED <<logs, tables, current, ghostVars>>
  BY DEF ApplyAppend
<1>4. CASE ok
  <2>1. read
    BY <1>1, <1>2, <1>4
  <2>2. manifests' = [manifests EXCEPT ![manifest_file_number_].edits =
                                         Append(@, apply.edit)]
    BY <1>2, <1>4, <2>1
  <2>3. apply' = [apply EXCEPT !.step = "sync"]
    BY <1>2, <1>4
  <2>4. UNCHANGED <<phase, memVars, fileVars, last_sequence_, version, held, bgVars,
                    doomed, replay, write, lost>>
    BY <1>2, <1>4
  <2> QED
    BY <1>3, <2>2, <2>3, <2>4 DEF AppendDone
<1>5. CASE ~ok
  <2>1. ApplyFails
    BY <1>2, <1>5
  <2>2. apply.by = "open"
    BY <1>2, <1>5 DEF Contest
  <2>3. phase = "apply"
    BY <2>2 DEF TypeInv, Control, ApplyControl
  <2> QED
    BY <1>3, <2>1, <2>3 DEF OpenError
<1> QED
  BY <1>4, <1>5

LEMMA SyncCases ==
  ASSUME TypeInv, ApplySync, astray' = {}
  PROVE  SyncDone \/ OpenError
<1>1. PICK ok \in BOOLEAN :
        /\ Contest(IF ok THEN {} ELSE {apply.edit})
        /\ IF ok
           THEN /\ manifests' = [manifests EXCEPT ![manifest_file_number_].synced =
                                   Len(manifests[manifest_file_number_].edits)]
                /\ apply' = [apply EXCEPT !.step = AfterSync]
                /\ UNCHANGED <<phase, memVars, fileVars, last_sequence_, version,
                               held, bgVars, doomed, replay, write, lost, hidden,
                               skewed>>
           ELSE ApplyFails
  BY DEF ApplySync
<1>2. apply.step = "sync" /\ UNCHANGED <<logs, tables, current, ghostVars>>
  BY DEF ApplySync
<1>3. CASE ok
  BY <1>1, <1>2, <1>3 DEF SyncDone
<1>4. CASE ~ok
  <2>1. apply.by = "open" /\ ApplyFails
    BY <1>1, <1>4 DEF Contest
  <2>2. phase = "apply"
    BY <2>1 DEF TypeInv, Control, ApplyControl
  <2> QED
    BY <1>2, <2>1, <2>2 DEF OpenError
<1> QED
  BY <1>3, <1>4

LEMMA OpenErrorDurable ==
  ASSUME TypeInv, TypeInv', DurableInv, OpenError
  PROVE  DurableInv'
BY ApplyFailsDurable DEF OpenError

\* The record is in the MANIFEST: of an open DB, CURRENT's MANIFEST is then ahead.
LEMMA AppendDoneDurable ==
  ASSUME TypeInv, TypeInv', DurableInv, AppendDone
  PROVE  DurableInv'
<1>1. /\ apply.step = "append"
      /\ manifests' = [manifests EXCEPT ![manifest_file_number_].edits =
                                          Append(@, apply.edit)]
      /\ apply' = [apply EXCEPT !.step = "sync"]
      /\ UNCHANGED <<phase, memVars, fileVars, last_sequence_, version, held, bgVars,
                     doomed, replay, write, lost, logs, tables, current, acked>>
  BY DEF AppendDone
<1>2. /\ apply'.step = "sync" /\ apply'.by = apply.by /\ apply'.edit = apply.edit
      /\ apply.by # "none" /\ apply.edit \in Edit
  BY <1>1 DEF TypeInv, Typed, CallType, Control, ApplyControl
<1>3. /\ DOMAIN manifests' = DOMAIN manifests
      /\ \A n \in DOMAIN manifests' :
           /\ manifests'[n].torn = manifests[n].torn
           /\ n # manifest_file_number_ => manifests'[n] = manifests[n]
           /\ n = manifest_file_number_ =>
                manifests'[n].edits = Append(manifests[n].edits, apply.edit)
  <2>1. DiskType
    BY DEF TypeInv, Typed
  <2>2. \A n \in DOMAIN manifests' :
          /\ manifests'[n].torn = manifests[n].torn
          /\ manifests'[n].edits = IF n = manifest_file_number_
                                   THEN Append(manifests[n].edits, apply.edit)
                                   ELSE manifests[n].edits
    BY <1>1, <1>2, <2>1, ManifestAppend
  <2>3. \A n \in DOMAIN manifests :
          n # manifest_file_number_ => manifests'[n] = manifests[n]
    BY <1>1
  <2> QED
    BY <1>1, <2>2, <2>3
<1>4. CASE phase = "apply"
  <2>1. /\ current \in DOMAIN manifests /\ current # manifest_file_number_
        /\ manifests'[current] = manifests[current]
    BY <1>1, <1>3, <1>4, NewManifestNumber
  <2>2. SnapshotEdit' = SnapshotEdit
    BY <1>1 DEF SnapshotEdit
  <2>3. ApplyOpenInv'
    <3>1. /\ manifest_file_number_ \in DOMAIN manifests
          /\ ~manifests[manifest_file_number_].torn
          /\ manifests[manifest_file_number_].edits = <<SnapshotEdit>>
      BY <1>1, <1>4 DEF DurableInv, OpenParts, ApplyOpenInv
    <3>2. manifests'[manifest_file_number_].edits =
            Append(<<SnapshotEdit>>, apply.edit)
      BY <1>3, <3>1
    <3> QED
      BY <1>1, <1>2, <1>3, <1>4, <2>2, <3>1, <3>2
         DEF DurableInv, OpenParts, ApplyOpenInv
  <2>4. 0 \notin DOMAIN manifests'
    BY <1>3 DEF DurableInv, DiskInv
  <2> QED
    BY <1>1, <1>2, <1>3, <1>4, <2>1, <2>3, <2>4, OpenApplyFrame
<1>5. CASE phase # "apply"
  <2> USE DEF DurableInv, UpParts
  <2>1. phase = "up" /\ phase' = "up" /\ apply.by \in {"flush", "compact"}
    BY <1>1, <1>2, <1>5 DEF TypeInv, Control, ApplyControl, Typed, CallType
  <2>2. /\ current = manifest_file_number_ /\ current # 0
        /\ DiskVersion = version
    BY <1>1, <2>1 DEF CurrentInv, Appended
  <2>0. Readable
    BY <2>1 DEF DiskInv
  <2>3. current \in DOMAIN manifests /\ manifests[current].edits \in Seq(Edit)
    BY <2>0, DiskMetaType
  <2>4. manifests'[current].edits = Append(manifests[current].edits, apply.edit)
    BY <1>3, <2>2, <2>3
  <2>5. apply.edit.meta
    BY <1>2 DEF EditInv
  <2>6. /\ DiskVersion' = VersionAfter /\ DiskMeta' = apply.edit
        /\ MetaEdits(manifests'[current].edits) # {}
    BY <1>1, <1>2, <2>2, <2>3, <2>4, <2>5, LiveInAppend, LastMetaAppend
       DEF DiskVersion, DiskMeta, VersionAfter
  <2>7. Readable'
    BY <1>1, <1>3, <2>0, <2>3, <2>6 DEF Readable
  <2>8. VersionAfter' = VersionAfter
    BY <1>1, <1>2 DEF VersionAfter
  <2>9. EditInv'
    BY <1>1, <1>2, <2>8 DEF EditInv, TablesUpTo
  <2>10. DiskInv'
    <3>2. /\ apply.edit.log < apply.edit.next /\ current < apply.edit.next
          /\ VersionAfter \subseteq DOMAIN tables
          /\ \A n \in VersionAfter : n < apply.edit.next
          /\ TablesUpTo(VersionAfter, apply.edit.last)
      BY <1>2, <2>2 DEF EditInv
    <3>3. TablesUpTo(DiskVersion, DiskMeta.last)'
      BY <1>1, <2>6, <3>2 DEF TablesUpTo
    <3> QED
      BY <1>1, <1>3, <2>1, <2>2, <2>6, <2>7, <3>2, <3>3 DEF DiskInv
  <2>11. CurrentInv'
    BY <1>1, <1>2, <2>1, <2>2, <2>6, <2>8 DEF CurrentInv, Appended
  <2>12. TablesInv' /\ DataInv'
    BY <1>1, <2>1 DEF TablesInv, DataInv, TablesUpTo, InTables
  <2>13. CallsInv' /\ DoomedInv'
    BY <1>1, <1>2 DEF CallsInv, DoomedInv
  <2>14. LogsInv' /\ AckedInv'
    BY <1>1, <2>1 DEF LogsInv, AckedInv, InTables
  <2> QED
    BY <2>1, <2>9, <2>10, <2>11, <2>12, <2>13, <2>14, UpOpen
<1> QED
  BY <1>4, <1>5

LEMMA ApplyAppendDurable ==
  ASSUME TypeInv, TypeInv', DurableInv, Straight, astray' = {}, astray = {}, ApplyAppend
  PROVE  DurableInv'
BY AppendCases, AppendDoneDurable, OpenErrorDurable

LEMMA SyncDoneDurable ==
  ASSUME TypeInv, TypeInv', DurableInv, SyncDone
  PROVE  DurableInv'
<1>1. /\ apply.step = "sync"
      /\ manifests' = [manifests EXCEPT ![manifest_file_number_].synced =
                                          Len(manifests[manifest_file_number_].edits)]
      /\ apply' = [apply EXCEPT !.step = AfterSync]
      /\ UNCHANGED <<phase, memVars, fileVars, last_sequence_, version, held, bgVars,
                     doomed, replay, write, lost, logs, tables, current, acked>>
  BY DEF SyncDone
<1>2. /\ apply'.step = AfterSync /\ apply'.by = apply.by /\ apply'.edit = apply.edit
      /\ apply.by # "none" /\ apply.edit \in Edit
  BY <1>1 DEF TypeInv, Typed, CallType, Control, ApplyControl
<1>3. /\ DOMAIN manifests' = DOMAIN manifests
      /\ \A n \in DOMAIN manifests' :
           /\ manifests'[n].torn = manifests[n].torn
           /\ manifests'[n].edits = manifests[n].edits
           /\ n # manifest_file_number_ => manifests'[n] = manifests[n]
           /\ n = manifest_file_number_ => manifests'[n].synced = Len(manifests[n].edits)
  BY <1>1 DEF TypeInv, Typed, DiskType, ManifestFile
<1>4. CASE phase = "apply"
  <2>1. /\ current \in DOMAIN manifests /\ current # manifest_file_number_
        /\ manifests'[current] = manifests[current] /\ apply.by = "open"
    BY <1>1, <1>3, <1>4, NewManifestNumber
  <2>2. SnapshotEdit' = SnapshotEdit
    BY <1>1 DEF SnapshotEdit
  <2>3. apply'.step = "current"
    BY <1>2, <2>1 DEF AfterSync
  <2>4. ApplyOpenInv'
    BY <1>1, <1>2, <1>3, <1>4, <2>2, <2>3 DEF DurableInv, OpenParts, ApplyOpenInv
  <2>5. 0 \notin DOMAIN manifests'
    BY <1>3 DEF DurableInv, DiskInv
  <2> QED
    BY <1>1, <1>2, <1>3, <1>4, <2>1, <2>3, <2>4, <2>5, OpenApplyFrame
<1>5. CASE phase # "apply"
  <2> USE DEF DurableInv, UpParts
  <2>1. /\ phase = "up" /\ phase' = "up" /\ apply.by \in {"flush", "compact"}
        /\ apply'.step = "install"
    BY <1>1, <1>2, <1>5 DEF TypeInv, Control, ApplyControl, Typed, CallType, AfterSync
  <2>2. current = manifest_file_number_ /\ current # 0
    BY <1>1, <2>1 DEF CurrentInv
  <2>3. current \in DOMAIN manifests
    BY <2>1, DiskMetaType DEF DiskInv
  <2>4. /\ manifests'[current].edits = manifests[current].edits
        /\ manifests'[current].torn = manifests[current].torn
    BY <1>3, <2>3
  <2>5. DiskVersion' = DiskVersion /\ DiskMeta' = DiskMeta /\ Readable' = Readable
    BY <1>1, <1>3, <2>3, <2>4 DEF DiskVersion, DiskMeta, Readable
  <2>6. VersionAfter' = VersionAfter
    BY <1>1, <1>2 DEF VersionAfter
  <2>7. EditInv'
    BY <1>1, <1>2, <2>6 DEF EditInv, TablesUpTo
  <2>8. DiskInv'
    BY <1>1, <1>3, <2>1, <2>2, <2>5 DEF DiskInv, TablesUpTo
  <2>9. CurrentInv'
    <3>1. manifests'[current'].synced = Len(manifests'[current'].edits)
      BY <1>1, <1>3, <2>2, <2>3
    <3> QED
      BY <1>1, <1>2, <2>1, <2>5, <2>6, <3>1 DEF CurrentInv, Appended
  <2>10. TablesInv' /\ DataInv'
    BY <1>1, <2>1 DEF TablesInv, DataInv, TablesUpTo, InTables
  <2>11. CallsInv' /\ DoomedInv'
    BY <1>1, <1>2 DEF CallsInv, DoomedInv
  <2>12. LogsInv' /\ AckedInv'
    BY <1>1, <2>1 DEF LogsInv, AckedInv, InTables
  <2> QED
    BY <2>1, <2>7, <2>8, <2>9, <2>10, <2>11, <2>12, UpOpen
<1> QED
  BY <1>4, <1>5

LEMMA ApplySyncDurable ==
  ASSUME TypeInv, TypeInv', DurableInv, astray' = {}, ApplySync
  PROVE  DurableInv'
BY SyncCases, SyncDoneDurable, OpenErrorDurable

\* CURRENT names the new MANIFEST, which describes the old tables and the new ones.
LEMMA ApplyCurrentDurable ==
  ASSUME TypeInv, TypeInv', DurableInv, ApplyCurrent
  PROVE  DurableInv'
<1> USE DEF DurableInv, OpenParts
<1>1. phase = "apply" /\ apply.step = "current" /\ apply.by = "open"
  BY DEF ApplyCurrent, TypeInv, Control, ApplyControl
<1>2. PICK ok \in BOOLEAN :
        IF ok
        THEN /\ current' = manifest_file_number_
             /\ apply' = [apply EXCEPT !.step = "install"]
             /\ UNCHANGED <<manifests, phase, memVars, fileVars, last_sequence_,
                            version, held, bgVars, doomed, replay, write, lost>>
        ELSE ApplyFails /\ UNCHANGED current
  BY DEF ApplyCurrent
<1>3. UNCHANGED <<logs, tables, acked>>
  BY DEF ApplyCurrent
<1>4. CASE ok
  <2>1. /\ apply'.step = "install" /\ apply'.by = apply.by /\ apply'.edit = apply.edit
        /\ current' = manifest_file_number_
        /\ UNCHANGED <<manifests, phase, memVars, fileVars, last_sequence_, version,
                       held, bgVars, doomed, replay, write, lost>>
    BY <1>2, <1>4 DEF TypeInv, Typed, CallType
  <2>2. /\ manifest_file_number_ \in DOMAIN manifests
        /\ manifests[manifest_file_number_].edits =
             Append(<<SnapshotEdit>>, apply.edit)
        /\ manifests[manifest_file_number_].synced =
             Len(manifests[manifest_file_number_].edits)
        /\ ~manifests[manifest_file_number_].torn
        /\ apply.edit.add = replay.add /\ apply.edit.del = {}
    BY <1>1 DEF ApplyOpenInv
  <2>3. /\ SnapshotEdit \in Edit /\ SnapshotEdit.add = version
        /\ apply.edit \in Edit /\ apply.edit.meta
    BY <1>1, SnapshotEditType
       DEF SnapshotEdit, NoEdit, EditInv, TypeInv, Typed, CallType
  <2>4. <<SnapshotEdit>> \in Seq(Edit) /\ LiveIn(<<SnapshotEdit>>) = version
    BY <2>3, OneRecord
  <2>5. /\ DiskVersion' = VersionAfter /\ DiskMeta' = apply.edit
        /\ MetaEdits(manifests[manifest_file_number_].edits) # {}
    BY <2>1, <2>2, <2>3, <2>4, LiveInAppend, LastMetaAppend
       DEF DiskVersion, DiskMeta, VersionAfter
  <2>6. VersionAfter' = VersionAfter
    BY <2>1 DEF VersionAfter
  <2>7. /\ apply.edit.log < apply.edit.next
        /\ manifest_file_number_ < apply.edit.next
        /\ VersionAfter \subseteq DOMAIN tables
        /\ \A n \in VersionAfter : n < apply.edit.next
        /\ TablesUpTo(VersionAfter, apply.edit.last)
    BY <1>1 DEF EditInv
  <2>8. manifest_file_number_ # 0
    BY <1>1, Numbers, DiskMetaType DEF OpenInv, Opening, DiskInv
  <2>9. DiskInv'
    <3>1. Readable'
      BY <2>1, <2>2, <2>5 DEF Readable
    <3>2. TablesUpTo(DiskVersion, DiskMeta.last)'
      BY <1>3, <2>5, <2>7 DEF TablesUpTo
    <3> QED
      BY <1>1, <1>3, <2>1, <2>5, <2>7, <2>8, <3>1, <3>2 DEF DiskInv
  <2>10. OpenParts'
    BY <1>1, <1>3, <2>1 DEF OpenInv, ReplayInv, ApplyOpenInv, Opening
  <2>11. EditInv'
    BY <1>3, <2>1, <2>6 DEF EditInv, TablesUpTo
  <2>12. CurrentInv'
    BY <1>1, <2>1, <2>2, <2>5, <2>6, <2>8 DEF CurrentInv, Appended
  <2>13. UpParts'
    BY <1>1, <2>1, NotUp
  <2>14. AckedInv'
    BY <1>1, <1>3, <2>1, <2>5, <2>6 DEF AckedInv, OnDisk, InTables
  <2> QED
    BY <2>9, <2>10, <2>11, <2>12, <2>13, <2>14
<1>5. CASE ~ok
  <2>1. ApplyFails /\ current' = current
    BY <1>2, <1>5
  <2> QED
    BY <1>1, <1>3, <2>1, ApplyFailsDurable
<1> QED
  BY <1>4, <1>5

LEMMA ApplyInstallDurable ==
  ASSUME TypeInv, TypeInv', DurableInv, ApplyInstall
  PROVE  DurableInv'
<1> USE DEF DurableInv, UpParts
<1>1. /\ apply.step = "install" /\ doomed = {} /\ apply.by # "none"
      /\ version' = VersionAfter /\ log_number_' = apply.edit.log
      /\ apply' = NoApply /\ phase' = "up" /\ Appended
      /\ UNCHANGED <<diskVars, logfile_number_, next_file_number_,
                     manifest_file_number_, last_sequence_, held, write, acked, lost>>
  BY DEF ApplyInstall, TypeInv, Control, ApplyControl, Appended
<1>2. apply'.by = "none" /\ apply'.step = "none"
  BY <1>1, NoTypes
<1>3. /\ current = manifest_file_number_ /\ current # 0
      /\ DiskVersion = VersionAfter /\ DiskMeta = apply.edit
  BY <1>1 DEF CurrentInv
<1>4. /\ manifest_file_number_ < apply.edit.next /\ apply.edit.log < apply.edit.next
      /\ apply.edit.next <= next_file_number_ /\ apply.edit.last <= last_sequence_
      /\ VersionAfter \subseteq DOMAIN tables
      /\ \A n \in VersionAfter : n < apply.edit.next
      /\ TablesUpTo(VersionAfter, apply.edit.last)
  BY <1>1 DEF EditInv
<1>a. VersionAfter \subseteq Nat
  BY <1>4, Numbers
<1>b. /\ phase \in {"up", "apply"}
      /\ manifests[current].synced = Len(manifests[current].edits)
  BY <1>1 DEF CurrentInv, Appended
<1>5. DiskInv'
  BY <1>1, <1>3, <1>b, DiskSame DEF DiskInv, TablesUpTo
<1>6. EditInv' /\ CallsInv'
  BY <1>2 DEF EditInv, CallsInv
<1>7. CurrentInv'
  <2>1. ~Appended'
    BY <1>1, <1>2 DEF Appended
  <2> QED
    BY <1>1, <1>2, <1>3, <1>4, <1>b, <2>1, DiskSame DEF CurrentInv
<1>8. TablesUpTo(version, last_sequence_)'
  BY <1>1, <1>4, Numbers, EntryNumbers DEF TablesUpTo
<1>9. CASE apply.by = "open"
  <2>1. /\ phase = "apply" /\ UNCHANGED <<memVars, bgVars>>
        /\ doomed' = Obsolete(version', log_number_', manifest_file_number_)
    BY <1>9 DEF ApplyInstall, TypeInv, Control, ApplyControl
  <2>2. /\ flush = 0 /\ compact = NoCompaction /\ pending_outputs_ = {} /\ held = {}
        /\ mem_ = {} /\ has_imm_ = FALSE /\ imm_ = {} /\ write = NoWrite
    BY <2>1 DEF TypeInv, Control, PhaseControl
  <2>3. /\ compact.base = {} /\ compact.inputs = {} /\ compact.outputs = {}
        /\ compact.builder = 0 /\ compact.todo = {}
    BY <2>2 DEF NoCompaction
  <2>4. TablesInv'
    BY <1>1, <1>4, <1>a, <2>1, <2>2, <2>3, Numbers DEF TablesInv
  <2>5. DoomedInv'
    <3> SUFFICES ASSUME NEW d \in doomed'
                 PROVE  /\ d[1] = "log" => d[2] < log_number_'
                        /\ d[1] = "table" =>
                             /\ d[2] \notin version' /\ d[2] \notin held'
                             /\ d[2] \notin compact'.base
                             /\ d[2] \notin pending_outputs_'
                        /\ d[1] = "manifest" => d[2] < manifest_file_number_'
      BY DEF DoomedInv
    <3> QED
      BY <1>1, <2>1, <2>2, <2>3, ObsoleteIs
  <2>6. LogsInv'
    <3>1. /\ apply.edit.log = logfile_number_
          /\ logfile_number_ \in DOMAIN logs /\ logs[logfile_number_].data = {}
          /\ \A n \in DOMAIN logs : n <= logfile_number_
      BY <2>1 DEF OpenParts, ApplyOpenInv
    <3> QED
      BY <1>1, <1>4, <2>1, <2>2, <3>1, Numbers, NoTypes DEF LogsInv
  <2>7. DataInv'
    BY <1>1, <1>8, <2>1, <2>3 DEF DataInv, TablesUpTo
  <2>8. AckedInv'
    BY <1>1, <2>1 DEF AckedInv, InTables
  <2> QED
    BY <1>1, <1>5, <1>6, <1>7, <2>4, <2>5, <2>6, <2>7, <2>8, UpOpen
<1>10. CASE apply.by = "flush"
  <2>1. /\ phase = "up" /\ imm_' = {} /\ has_imm_' = FALSE /\ flush' = 0
        /\ doomed' = Obsolete(pending_outputs_ \cup (version' \cup held \cup compact.base),
                              log_number_', manifest_file_number_)
        /\ UNCHANGED <<mem_, compact, pending_outputs_>>
    BY <1>10 DEF ApplyInstall, LiveFiles, TypeInv, Control, ApplyControl
  <2>2. /\ apply.edit.add = {flush} /\ apply.edit.del = {}
        /\ apply.edit.log = logfile_number_
        /\ flush \in DOMAIN tables /\ tables[flush].data = imm_ /\ flush # 0 /\ has_imm_
    BY <1>10 DEF CallsInv, TypeInv, Control, ApplyControl, PhaseControl
  <2>3. VersionAfter = version \cup {flush}
    BY <2>2 DEF VersionAfter
  <2>4. TablesInv'
    BY <1>1, <1>4, <1>a, <2>1, <2>2, <2>3, Numbers DEF TablesInv
  <2>5. DoomedInv'
    <3> SUFFICES ASSUME NEW d \in doomed'
                 PROVE  /\ d[1] = "log" => d[2] < log_number_'
                        /\ d[1] = "table" =>
                             /\ d[2] \notin version' /\ d[2] \notin held'
                             /\ d[2] \notin compact'.base
                             /\ d[2] \notin pending_outputs_'
                        /\ d[1] = "manifest" => d[2] < manifest_file_number_'
      BY DEF DoomedInv
    <3> QED
      BY <1>1, <2>1, ObsoleteIs
  <2>6. LogsInv'
    BY <1>1, <2>1, <2>2, Numbers DEF LogsInv
  <2>7. DataInv'
    BY <1>1, <1>8, <2>1 DEF DataInv, TablesUpTo, InTables
  <2>8. AckedInv'
    BY <1>1, <2>1, <2>2, <2>3 DEF AckedInv, InTables
  <2> QED
    BY <1>1, <1>5, <1>6, <1>7, <2>4, <2>5, <2>6, <2>7, <2>8, UpOpen
<1>11. CASE apply.by = "compact"
  <2>1. /\ phase = "up" /\ EndCompaction(version') /\ UNCHANGED memVars /\ flush = 0
    BY <1>11 DEF ApplyInstall, TypeInv, Control, ApplyControl
  <2>2. /\ compact' = NoCompaction /\ flush' = flush
        /\ pending_outputs_' = pending_outputs_ \ compact.outputs
        /\ doomed' = Obsolete(pending_outputs_' \cup (version' \cup held \cup {}),
                              log_number_, manifest_file_number_)
    BY <2>1 DEF EndCompaction, LiveFiles
  <2>3. /\ compact'.base = {} /\ compact'.inputs = {} /\ compact'.outputs = {}
        /\ compact'.builder = 0 /\ compact'.todo = {}
    BY <2>2 DEF NoCompaction
  <2>4. /\ apply.edit.add = compact.outputs /\ apply.edit.del = compact.inputs
        /\ apply.edit.log = log_number_ /\ compact.todo = {}
        /\ \A n \in compact.inputs : ~tables[n].damaged
    BY <1>11 DEF CallsInv
  <2>5. VersionAfter = (version \ compact.inputs) \cup compact.outputs
    BY <2>4 DEF VersionAfter
  <2>6. TablesInv'
    BY <1>1, <1>4, <1>a, <2>1, <2>2, <2>3, Numbers DEF TablesInv
  <2>7. DoomedInv'
    <3> SUFFICES ASSUME NEW d \in doomed'
                 PROVE  /\ d[1] = "log" => d[2] < log_number_'
                        /\ d[1] = "table" =>
                             /\ d[2] \notin version' /\ d[2] \notin held'
                             /\ d[2] \notin compact'.base
                             /\ d[2] \notin pending_outputs_'
                        /\ d[1] = "manifest" => d[2] < manifest_file_number_'
      BY DEF DoomedInv
    <3> QED
      BY <1>1, <2>2, <2>3, <2>4, ObsoleteIs
  <2>8. LogsInv'
    BY <1>1, <2>1, <2>4 DEF LogsInv
  <2>9. DataInv'
    BY <1>1, <1>8, <2>3 DEF DataInv, TablesUpTo
  <2>10. AckedInv'
    <3>1. \A e : InTables(e, version) => InTables(e, VersionAfter)
      BY <2>4, <2>5 DEF InTables, DataInv
    <3>2. \A e : InTables(e, version)' = InTables(e, VersionAfter)
      BY <1>1 DEF InTables
    <3> QED
      BY <1>1, <2>1, <3>1, <3>2 DEF AckedInv
  <2> QED
    BY <1>1, <1>5, <1>6, <1>7, <2>6, <2>7, <2>8, <2>9, <2>10, UpOpen
<1> QED
  BY <1>9, <1>10, <1>11 DEF ApplyInstall

-----------------------------------------------------------------------------
(* DeleteObsoleteFiles().                                                  *)

LEMMA DeleteFileDurable ==
  ASSUME TypeInv, TypeInv', DurableInv, DeleteFile
  PROVE  DurableInv'
<1> USE DEF DurableInv, UpParts
<1>1. /\ phase = "up" /\ phase' = "up" /\ apply.by = "none" /\ flush = 0
      /\ apply.step = "none"
  BY DEF DeleteFile, TypeInv, Control, ApplyControl, PhaseControl
<1>2. UNCHANGED <<current, memVars, fileVars, last_sequence_, version, held, bgVars,
                  apply, replay, write, acked, lost>>
  BY DEF DeleteFile
<1>3. PICK d \in doomed :
        /\ doomed' = doomed \ {d}
        /\ logs' = IF d[1] = "log" THEN Without(logs, {d[2]}) ELSE logs
        /\ tables' = IF d[1] = "table" THEN Without(tables, {d[2]}) ELSE tables
        /\ manifests' = IF d[1] = "manifest" THEN Without(manifests, {d[2]})
                        ELSE manifests
  BY DEF DeleteFile
<1>4. /\ d[2] \in Nat
      /\ d[1] = "log" => d[2] < log_number_
      /\ d[1] = "table" => /\ d[2] \notin version /\ d[2] \notin held
                           /\ d[2] \notin compact.base /\ d[2] \notin pending_outputs_
      /\ d[1] = "manifest" => d[2] < manifest_file_number_
  BY DEF DoomedInv, TypeInv, Typed, CallType
<1>5. /\ current = manifest_file_number_ /\ current # 0
      /\ DiskVersion = version /\ DiskMeta.log = log_number_ /\ Readable
  BY <1>1 DEF CurrentInv, Appended, DiskInv
<1>6. /\ current \in DOMAIN manifests /\ current \in DOMAIN manifests'
      /\ manifests'[current] = manifests[current]
      /\ DOMAIN manifests' \subseteq DOMAIN manifests
      /\ \A n \in DOMAIN manifests' : manifests'[n] = manifests[n]
  BY <1>3, <1>4, <1>5, DiskMetaType, Numbers DEF Without
<1>7. DiskVersion' = DiskVersion /\ DiskMeta' = DiskMeta /\ Readable' = Readable
  BY <1>2, <1>6, DiskSameFile
<1>8. /\ DOMAIN tables' \subseteq DOMAIN tables
      /\ \A n \in DOMAIN tables' : tables'[n] = tables[n]
      /\ \A n \in version \cup held \cup compact.base \cup compact.outputs :
           n \in DOMAIN tables'
  BY <1>1, <1>3, <1>4 DEF Without, TablesInv
<1>9. /\ DOMAIN logs' \subseteq DOMAIN logs
      /\ \A n \in DOMAIN logs' : logs'[n] = logs[n]
      /\ log_number_ \in DOMAIN logs' /\ logfile_number_ \in DOMAIN logs'
  BY <1>1, <1>3, <1>4, Numbers DEF Without, LogsInv
<1>10. DiskInv'
  BY <1>1, <1>2, <1>5, <1>6, <1>7, <1>8 DEF DiskInv, TablesUpTo
<1>11. EditInv' /\ CallsInv'
  BY <1>1, <1>2 DEF EditInv, CallsInv
<1>12. CurrentInv'
  BY <1>1, <1>2, <1>6, <1>7 DEF CurrentInv, Appended
<1>13. TablesInv'
  BY <1>1, <1>2, <1>8 DEF TablesInv
<1>14. DoomedInv'
  BY <1>2, <1>3 DEF DoomedInv
<1>15. LogsInv'
  BY <1>1, <1>2, <1>9 DEF LogsInv
<1>16. DataInv'
  <2>1. compact.inputs \subseteq compact.base
    BY <1>1 DEF TablesInv
  <2>2. \A e : InTables(e, compact.outputs) => InTables(e, compact.outputs)'
    BY <1>2, <1>8 DEF InTables
  <2> QED
    BY <1>1, <1>2, <1>8, <2>1, <2>2 DEF DataInv, TablesUpTo
<1>17. AckedInv'
  <2>1. \A e : InTables(e, version) => InTables(e, version)'
    BY <1>2, <1>8 DEF InTables
  <2> QED
    BY <1>1, <1>2, <2>1 DEF AckedInv
<1> QED
  BY <1>1, <1>10, <1>11, <1>12, <1>13, <1>14, <1>15, <1>16, <1>17, UpOpen

-----------------------------------------------------------------------------
(* DB::Open().                                                             *)

\* Before LogAndApply(), DB::Open() has no edit and nothing of an open DB.
LEMMA BeforeApply ==
  ASSUME TypeInv', phase' # "up", phase' # "apply"
  PROVE  EditInv' /\ CurrentInv' /\ UpParts' /\ ApplyOpenInv'
<1>1. apply'.by = "none"
  BY DEF TypeInv, Control, ApplyControl, Typed, CallType
<1> QED
  BY <1>1, NotUp DEF EditInv, CurrentInv, Appended, ApplyOpenInv

\* What an acknowledged write has before LogAndApply().
LEMMA AckedFrame ==
  ASSUME DurableInv, phase # "up", phase' # "up", phase' # "apply",
         UNCHANGED <<acked, lost>>, \A e : OnDisk(e) => OnDisk(e)'
  PROVE  AckedInv'
BY DEF DurableInv, AckedInv

\* A step that changes no file.
LEMMA OnDiskSame ==
  ASSUME UNCHANGED diskVars
  PROVE  \A e : OnDisk(e)' = OnDisk(e)
<1>1. DiskLogs' = DiskLogs
  BY DEF DiskLogs
<1> QED
  BY <1>1, DiskSame DEF OnDisk, InTables

LEMMA NewDBDurable ==
  ASSUME TypeInv, TypeInv', DurableInv, NewDB
  PROVE  DurableInv'
<1>1. /\ phase = "down" /\ current = 0 /\ phase' \in {"newdb", "down"}
      /\ UNCHANGED <<logs, tables, current, acked, lost>>
  BY DEF NewDB
<1>2. PICK ok \in BOOLEAN :
        /\ manifests' = IF ok THEN With(manifests, 1, FirstManifest)
                        ELSE Without(manifests, {1})
        /\ phase' = IF ok THEN "newdb" ELSE "down"
  BY DEF NewDB
<1>3. 0 \notin DOMAIN manifests
  BY DEF DurableInv, DiskInv
<1>4. /\ 0 \notin DOMAIN manifests'
      /\ phase' = "newdb" => 1 \in DOMAIN manifests' /\ manifests'[1] = FirstManifest
  BY <1>2, <1>3 DEF With, Without, FirstManifest
<1>5. DiskInv'
  BY <1>1, <1>4 DEF DurableInv, DiskInv, Readable
<1>6. OpenInv' /\ ReplayInv'
  BY <1>1 DEF OpenInv, ReplayInv, Opening
<1>7. AckedInv'
  BY <1>1 DEF DurableInv, DiskInv, AckedInv
<1> QED
  BY <1>1, <1>5, <1>6, <1>7, BeforeApply DEF DurableInv, OpenParts

LEMMA NewDBCurrentDurable ==
  ASSUME TypeInv, TypeInv', DurableInv, NewDBCurrent
  PROVE  DurableInv'
<1>1. /\ phase = "newdb" /\ phase' \in {"recover", "down"}
      /\ UNCHANGED <<logs, tables, manifests, acked, lost>>
  BY DEF NewDBCurrent
<1>2. /\ current = 0 /\ acked = {} /\ DOMAIN logs = {} /\ DOMAIN tables = {}
      /\ 1 \in DOMAIN manifests /\ manifests[1] = FirstManifest
      /\ 0 \notin DOMAIN manifests
  BY <1>1 DEF DurableInv, DiskInv
<1>3. (current' = 1 /\ phase' = "recover") \/ (current' = 0 /\ phase' = "down")
  BY <1>2 DEF NewDBCurrent
<1>4. DiskInv'
  <2>1. CASE current' = 0
    BY <1>1, <1>2, <1>3, <2>1 DEF DiskInv, Readable
  <2>2. CASE current' = 1 /\ phase' = "recover"
    <3> DEFINE first == [NoEdit EXCEPT !.meta = TRUE, !.next = 2]
    <3>1. /\ first \in Edit /\ first.meta /\ first.add = {} /\ first.next = 2
          /\ first.log = 0
      BY DEF NoEdit, Edit
    <3>2. manifests'[1].edits = <<first>>
      BY <1>1, <1>2 DEF FirstManifest
    <3> HIDE DEF first
    <3>3. /\ DiskVersion' = {} /\ DiskMeta' = first
          /\ MetaEdits(manifests'[1].edits) # {}
      BY <2>2, <3>1, <3>2, OneRecord DEF DiskVersion, DiskMeta
    <3>4. Readable'
      BY <1>1, <1>2, <2>2, <3>3 DEF Readable, FirstManifest
    <3>5. /\ current' < DiskMeta'.next /\ DiskMeta'.log < DiskMeta'.next
      BY <2>2, <3>1, <3>3
    <3> QED
      BY <1>1, <1>2, <2>2, <3>3, <3>4, <3>5 DEF DiskInv, TablesUpTo
  <2> QED
    BY <1>3, <2>1, <2>2
<1>5. OpenInv' /\ ReplayInv'
  BY <1>1 DEF OpenInv, ReplayInv, Opening
<1>6. AckedInv'
  BY <1>1, <1>2 DEF AckedInv
<1> QED
  BY <1>1, <1>4, <1>5, <1>6, BeforeApply DEF DurableInv, OpenParts

\* DB::Open() reads the MANIFEST, or fails and leaves the directory as it is.
LEMMA RecoverManifestDurable ==
  ASSUME TypeInv, TypeInv', DurableInv, RecoverManifest
  PROVE  DurableInv'
<1>0. CASE ~Readable
  <2>1. OpenFails /\ UNCHANGED <<diskVars, acked>>
    BY <1>0 DEF RecoverManifest
  <2> QED
    BY <1>0, <2>1, GoneSame DEF OpenFails
<1> SUFFICES ASSUME Readable PROVE DurableInv'
  BY <1>0
<1>1. /\ phase \in {"recover", "down"} /\ current # 0 /\ Readable
      /\ UNCHANGED <<diskVars, acked>>
  BY DEF RecoverManifest, DurableInv, DiskInv
<1>2. /\ phase' = "replay" /\ version' = DiskVersion
      /\ manifest_file_number_' = DiskMeta.next
      /\ next_file_number_' = DiskMeta.next + 1
      /\ last_sequence_' = DiskMeta.last
      /\ replay' = [NoReplay EXCEPT !.logs = DiskLogs]
      /\ UNCHANGED lost
  BY <1>1 DEF RecoverManifest, DiskMeta
<1>3. replay'.logs = DiskLogs /\ replay'.add = {}
  BY <1>2 DEF NoReplay
<1>4. /\ DiskVersion' = DiskVersion /\ DiskMeta' = DiskMeta /\ Readable' = Readable
      /\ DiskLogs' = DiskLogs
  BY <1>1, DiskSame DEF DiskLogs
<1>5. DiskInv'
  BY <1>1, <1>2, <1>4 DEF DurableInv, DiskInv, TablesUpTo
<1>6. OpenInv'
  BY <1>1, <1>2, <1>3, <1>4, DiskMetaType DEF DurableInv, OpenInv
<1>7. ReplayInv'
  BY <1>1, <1>3, <1>4 DEF ReplayInv, TablesUpTo
<1>8. AckedInv'
  BY <1>1, <1>2, AckedFrame, OnDiskSame
<1> QED
  BY <1>2, <1>5, <1>6, <1>7, <1>8, BeforeApply DEF DurableInv, OpenParts

LEMMA ReplayLogDurable ==
  ASSUME TypeInv, TypeInv', DurableInv, ReplayLog
  PROVE  DurableInv'
<1>1. /\ phase = "replay" /\ phase' = "read" /\ replay.logs # {}
      /\ logfile_number_' = Min(replay.logs)
      /\ UNCHANGED <<diskVars, next_file_number_, manifest_file_number_,
                     last_sequence_, version, acked, lost>>
  BY DEF ReplayLog
<1> DEFINE n == Min(replay.logs)
<1>2. PICK ok \in BOOLEAN :
        replay' = [replay EXCEPT !.logs = @ \ {n}, !.ok = TRUE,
                                 !.rest = IF ok THEN logs[n].data \ hidden ELSE {},
                                 !.passed = @ \cup IF ok THEN logs[n].data \cap hidden
                                                  ELSE logs[n].data]
  BY DEF ReplayLog
<1>3. /\ replay'.logs = replay.logs \ {n} /\ replay'.add = replay.add
      /\ replay'.max = replay.max /\ replay.passed \subseteq replay'.passed
      /\ \A e \in logs[n].data : e \in replay'.rest \cup replay'.passed
  BY <1>2 DEF TypeInv, Typed, CallType
<1>4. replay.rest = {} /\ n \in replay.logs
  BY <1>1, Numbers, MinNat DEF TypeInv, Control, PhaseControl
<1> HIDE DEF n
<1>5. /\ DiskVersion' = DiskVersion /\ DiskMeta' = DiskMeta /\ Readable' = Readable
      /\ DiskLogs' = DiskLogs
  BY <1>1, DiskSame DEF DiskLogs
<1>6. DiskInv'
  BY <1>1, <1>5 DEF DurableInv, DiskInv, TablesUpTo
<1>7. OpenInv'
  BY <1>1, <1>3, <1>5 DEF DurableInv, OpenParts, OpenInv, Opening
<1>8. ReplayInv'
  <2>1. /\ replay.logs \subseteq DiskLogs /\ TablesUpTo(replay.add, replay.max)
        /\ \A m \in DiskLogs \ replay.logs :
             /\ m < next_file_number_
             /\ \A e \in logs[m].data : e \in replay.passed \/ InTables(e, replay.add)
    BY <1>1, <1>4 DEF DurableInv, OpenParts, ReplayInv
  <2>2. ASSUME NEW m \in DiskLogs \ replay'.logs
        PROVE  /\ m < next_file_number_ \/ m = logfile_number_'
               /\ \A e \in logs[m].data :
                    e \in replay'.rest \cup replay'.passed \/ InTables(e, replay.add)
    BY <1>1, <1>3, <2>1 DEF n
  <2>3. /\ TablesUpTo(replay.add, replay.max)'
        /\ \A e : InTables(e, replay.add)' = InTables(e, replay.add)
    BY <1>1, <1>3, <2>1 DEF TablesUpTo, InTables
  <2> QED
    BY <1>1, <1>3, <1>5, <2>1, <2>2, <2>3 DEF ReplayInv
<1>9. AckedInv'
  BY <1>1, AckedFrame, OnDiskSame
<1> QED
  BY <1>1, <1>6, <1>7, <1>8, <1>9, BeforeApply DEF DurableInv, OpenParts

\* A table is written, or its file removed, under a number that no MANIFEST names and
\* no earlier table of this DB::Open() has.
LEMMA ReplayTableDurable ==
  ASSUME TypeInv, TypeInv', DurableInv, ReplayTable
  PROVE  DurableInv'
<1>1. /\ phase = "read" /\ phase' = "read"
      /\ next_file_number_' = next_file_number_ + 1
      /\ UNCHANGED <<logs, manifests, current, logfile_number_, manifest_file_number_,
                     last_sequence_, version, acked, lost>>
  BY DEF ReplayTable
<1> DEFINE chunk == Chunk(replay.rest)
           max == Max(Seqs(chunk) \cup {replay.max})
           new == next_file_number_
<1>2. PICK ok \in BOOLEAN :
        IF ok
        THEN /\ tables' = With(tables, next_file_number_, NewTable(chunk, FALSE))
             /\ replay' = [replay EXCEPT !.rest = @ \ chunk, !.max = max,
                             !.add = @ \cup {next_file_number_}]
        ELSE /\ tables' = Without(tables, {next_file_number_})
             /\ replay' = [replay EXCEPT !.rest = {}, !.max = max,
                             !.ok = FALSE, !.passed = @ \cup replay.rest]
  BY DEF ReplayTable
<1>3. chunk \subseteq replay.rest
  BY DEF Chunk
<1>4. /\ max \in Nat /\ replay.max <= max /\ \A e \in chunk : e.seq <= max
  BY <1>3, ReplayMax
<1> HIDE DEF chunk, max
<1>5. /\ replay'.logs = replay.logs /\ replay'.max = max
      /\ ok => /\ replay'.rest = replay.rest \ chunk
               /\ replay'.add = replay.add \cup {new}
               /\ replay'.passed = replay.passed
      /\ ~ok => /\ replay'.rest = {} /\ replay'.add = replay.add
                /\ replay'.passed = replay.passed \cup replay.rest
  BY <1>2 DEF TypeInv, Typed, CallType
<1>6. /\ \A n \in DOMAIN tables : n # new => n \in DOMAIN tables' /\ tables'[n] = tables[n]
      /\ \A n \in DOMAIN tables' : n # new => n \in DOMAIN tables
      /\ ok => new \in DOMAIN tables' /\ tables'[new] = NewTable(chunk, FALSE)
      /\ ~ok => new \notin DOMAIN tables'
  BY <1>2 DEF With, Without
<1>7. NewTable(chunk, FALSE).data = chunk /\ ~NewTable(chunk, FALSE).damaged
  BY DEF NewTable
<1>8. /\ DiskVersion' = DiskVersion /\ DiskMeta' = DiskMeta /\ Readable' = Readable
      /\ DiskLogs' = DiskLogs
  BY <1>1, DiskSame DEF DiskLogs
<1>9. /\ current # 0 /\ DiskMeta.next < new /\ new \in Nat /\ DiskMeta.next \in Nat
      /\ new \notin DiskVersion /\ new \notin replay.add
      /\ DiskVersion \subseteq DOMAIN tables /\ replay.add \subseteq DOMAIN tables
      /\ replay.add \subseteq Nat /\ Readable
  <2>1. /\ current # 0 /\ DiskMeta.next < new
        /\ replay.add \subseteq DOMAIN tables /\ \A n \in replay.add : n < new
        /\ Readable
    BY <1>1 DEF DurableInv, OpenParts, OpenInv, Opening, DiskInv
  <2>2. /\ DiskVersion \subseteq DOMAIN tables /\ \A n \in DiskVersion : n < DiskMeta.next
    BY <2>1 DEF DurableInv, DiskInv
  <2>3. /\ new \in Nat /\ DiskMeta.next \in Nat /\ DiskVersion \subseteq Nat
        /\ replay.add \subseteq Nat
    BY <2>1, Numbers, DiskMetaType DEF DurableInv
  <2> QED
    BY <2>1, <2>2, <2>3
<1> HIDE DEF new
<1>10. /\ \A e : InTables(e, DiskVersion)' = InTables(e, DiskVersion)
       /\ \A e : InTables(e, replay.add) => InTables(e, replay.add)'
       /\ ok => \A e \in chunk : InTables(e, replay.add)'
  BY <1>5, <1>6, <1>7, <1>8, <1>9 DEF InTables
<1>11. DiskInv'
  <2>1. ProcessOnly => \A n \in DOMAIN tables' : ~tables'[n].damaged
    BY <1>6, <1>7 DEF DurableInv, DiskInv
  <2>2. DiskVersion \subseteq DOMAIN tables' /\ TablesUpTo(DiskVersion, DiskMeta.last)'
    BY <1>6, <1>8, <1>9 DEF DurableInv, DiskInv, TablesUpTo
  <2> QED
    BY <1>1, <1>8, <1>9, <2>1, <2>2 DEF DurableInv, DiskInv
<1>12. OpenInv'
  <2>1. /\ version = DiskVersion /\ manifest_file_number_ = DiskMeta.next
        /\ DiskMeta.last <= last_sequence_
        /\ \A n \in replay.add : DiskMeta.next < n /\ n < new
    BY <1>1 DEF DurableInv, OpenParts, OpenInv, Opening, new
  <2>2. replay'.add \subseteq DOMAIN tables'
    BY <1>5, <1>6, <1>9
  <2>3. \A n \in replay'.add : DiskMeta.next < n /\ n < new + 1
    BY <1>5, <1>9, <2>1
  <2>4. DiskMeta.next < new + 1
    BY <1>9
  <2> QED
    BY <1>1, <1>8, <1>9, <2>1, <2>2, <2>3, <2>4 DEF OpenInv, new
<1>13. ReplayInv'
  <2>1. /\ replay.logs \subseteq DiskLogs /\ TablesUpTo(replay.add, replay.max)
        /\ \A n \in DiskLogs \ replay.logs :
             /\ n < new \/ n = logfile_number_
             /\ \A e \in logs[n].data :
                  e \in replay.rest \cup replay.passed \/ InTables(e, replay.add)
    BY <1>1 DEF DurableInv, OpenParts, ReplayInv, new
  <2>2. \A n \in DiskLogs : n \in Nat
    BY Numbers DEF DiskLogs
  <2>3. ASSUME NEW n \in DiskLogs \ replay.logs, NEW e \in logs[n].data
        PROVE  e \in replay'.rest \cup replay'.passed \/ InTables(e, replay.add)'
    BY <1>5, <1>10, <2>1
  <2>4. TablesUpTo(replay.add, replay.max)'
    <3> SUFFICES ASSUME NEW n \in replay'.add \cap DOMAIN tables',
                        NEW e \in tables'[n].data
                 PROVE  e.seq <= max
      BY <1>5 DEF TablesUpTo
    <3>1. CASE n = new
      BY <1>4, <1>6, <1>7, <3>1
    <3>2. CASE n # new
      <4>1. n \in replay.add \cap DOMAIN tables /\ e \in tables[n].data
        BY <1>5, <1>6, <3>2
      <4>2. e.seq <= replay.max
        BY <2>1, <4>1 DEF TablesUpTo
      <4> QED
        BY <1>4, <4>1, <4>2, Numbers, EntryNumbers
    <3> QED
      BY <3>1, <3>2
  <2> QED
    BY <1>1, <1>5, <1>8, <1>9, <2>1, <2>2, <2>3, <2>4 DEF ReplayInv, new
<1>14. AckedInv'
  <2>1. \A e : OnDisk(e) => OnDisk(e)'
    BY <1>1, <1>8, <1>10 DEF OnDisk
  <2> QED
    BY <1>1, <2>1, AckedFrame
<1> QED
  BY <1>1, <1>11, <1>12, <1>13, <1>14, BeforeApply DEF DurableInv, OpenParts

LEMMA ReplayEndDurable ==
  ASSUME TypeInv, TypeInv', DurableInv, ReplayEnd
  PROVE  DurableInv'
<1>1. /\ phase = "read" /\ phase' = "replay"
      /\ next_file_number_' = MarkFileNumberUsed(logfile_number_)
      /\ UNCHANGED <<diskVars, logfile_number_, manifest_file_number_,
                     last_sequence_, version, replay, acked, lost>>
  BY DEF ReplayEnd
<1>2. next_file_number_ <= next_file_number_' /\ logfile_number_ < next_file_number_'
  BY <1>1, Numbers DEF MarkFileNumberUsed
<1>3. next_file_number_' \in Nat
  BY DEF TypeInv, Typed, FieldType
<1>4. /\ DiskVersion' = DiskVersion /\ DiskMeta' = DiskMeta /\ Readable' = Readable
      /\ DiskLogs' = DiskLogs
  BY <1>1, DiskSame DEF DiskLogs
<1>5. DiskInv'
  BY <1>1, <1>4 DEF DurableInv, DiskInv, TablesUpTo
<1>6. OpenInv'
  <2>1. /\ current # 0 /\ DiskMeta.next < next_file_number_
        /\ \A n \in replay.add : n < next_file_number_
        /\ Readable
    BY <1>1 DEF DurableInv, OpenParts, OpenInv, Opening, DiskInv
  <2>2. DiskMeta.next \in Nat
    BY <2>1, DiskMetaType DEF DurableInv
  <2>3. /\ DiskMeta.next < next_file_number_'
        /\ \A n \in replay.add : n < next_file_number_'
    BY <1>2, <1>3, <2>1, <2>2, Numbers
  <2> QED
    BY <1>1, <1>4, <2>3 DEF DurableInv, OpenParts, OpenInv, Opening
<1>7. ReplayInv'
  <2>1. /\ TablesUpTo(replay.add, replay.max)' = TablesUpTo(replay.add, replay.max)
        /\ \A e : InTables(e, replay.add)' = InTables(e, replay.add)
    BY <1>1 DEF TablesUpTo, InTables
  <2>2. \A n \in DiskLogs : n \in Nat
    BY Numbers DEF DiskLogs
  <2>3. \A n \in DiskLogs \ replay.logs : n < next_file_number_'
    BY <1>1, <1>2, <1>3, <2>2, Numbers DEF DurableInv, OpenParts, ReplayInv
  <2> QED
    BY <1>1, <1>4, <2>1, <2>3 DEF DurableInv, OpenParts, ReplayInv
<1>8. AckedInv'
  BY <1>1, AckedFrame, OnDiskSame
<1> QED
  BY <1>1, <1>5, <1>6, <1>7, <1>8, BeforeApply DEF DurableInv, OpenParts

\* The new log file has a number above all others; the edit has what the old log files
\* had, up to what was passed over.
LEMMA OpenLogDurable ==
  ASSUME TypeInv, TypeInv', DurableInv, OpenLog
  PROVE  DurableInv'
<1>1. /\ phase = "replay" /\ replay.logs = {} /\ replay.rest = {}
      /\ UNCHANGED <<tables, manifests, current, acked>>
  BY DEF OpenLog, TypeInv, Control, PhaseControl
<1> DEFINE new == next_file_number_
<1>2. CASE ~(logs' = With(logs, new, [data |-> {}, synced |-> {}]) /\ phase' = "apply")
  <2>1. OpenFails /\ logs' = logs
    BY <1>2 DEF OpenLog
  <2> QED
    BY <1>1, <2>1, GoneSame DEF OpenFails
<1>3. CASE /\ logs' = With(logs, new, [data |-> {}, synced |-> {}])
           /\ phase' = "apply"
  <2>1. /\ logfile_number_' = new /\ next_file_number_' = new + 1
        /\ last_sequence_' = LastSequenceAfter
        /\ apply' = StartApply("open", replay.add, {}, new, new + 1, last_sequence_')
        /\ lost' = lost \cup replay.passed
        /\ UNCHANGED <<manifest_file_number_, version, replay>>
    BY <1>3 DEF OpenLog, OpenFails
  <2>2. /\ apply'.by = "open" /\ apply'.step = "create" /\ apply'.edit.meta
        /\ apply'.edit.add = replay.add /\ apply'.edit.del = {}
        /\ apply'.edit.log = new /\ apply'.edit.next = new + 1
        /\ apply'.edit.last = last_sequence_'
    BY <2>1 DEF StartApply
  <2>3. /\ last_sequence_ <= last_sequence_' /\ replay.max <= last_sequence_'
        /\ last_sequence_ \in Nat /\ last_sequence_' \in Nat /\ replay.max \in Nat
        /\ new \in Nat
    BY <2>1, Numbers, LastSequenceAfterIs
  <2>4. /\ current # 0 /\ version = DiskVersion /\ manifest_file_number_ = DiskMeta.next
        /\ DiskMeta.next < new /\ DiskMeta.last <= last_sequence_
        /\ replay.add \subseteq DOMAIN tables
        /\ \A n \in replay.add : DiskMeta.next < n /\ n < new
        /\ Readable
    BY <1>1 DEF DurableInv, OpenParts, OpenInv, Opening, DiskInv
  <2>5. /\ DiskMeta.log < DiskMeta.next /\ DiskVersion \subseteq DOMAIN tables
        /\ \A n \in DiskVersion : n < DiskMeta.next
        /\ TablesUpTo(DiskVersion, DiskMeta.last)
    BY <2>4 DEF DurableInv, DiskInv
  <2>6. /\ DiskMeta.next \in Nat /\ DiskMeta.log \in Nat /\ DiskMeta.last \in Nat
        /\ DiskVersion \subseteq Nat /\ DOMAIN logs \subseteq Nat
        /\ replay.add \subseteq Nat
    BY <2>4, DiskMetaType, Numbers DEF DurableInv
  <2>7. /\ TablesUpTo(replay.add, replay.max)
        /\ \A n \in DiskLogs :
             /\ n < new
             /\ \A e \in logs[n].data : e \in replay.passed \/ InTables(e, replay.add)
    BY <1>1 DEF DurableInv, OpenParts, ReplayInv
  <2>8. \A n \in DOMAIN logs : n < new
    <3>1. \A n \in DOMAIN logs : n >= DiskMeta.log => n \in DiskLogs
      BY DEF DiskLogs, DiskMeta
    <3> QED
      BY <2>3, <2>4, <2>5, <2>6, <2>7, <3>1
  <2> HIDE DEF new
  <2>9. /\ DOMAIN logs' = DOMAIN logs \cup {new} /\ logs'[new].data = {}
        /\ \A n \in DOMAIN logs : logs'[n] = logs[n]
    BY <1>3, <2>3, <2>6, <2>8 DEF With
  <2>10. /\ DiskVersion' = DiskVersion /\ DiskMeta' = DiskMeta /\ Readable' = Readable
    BY <1>1, DiskSame
  <2>11. VersionAfter' = version \cup replay.add
    BY <2>1, <2>2 DEF VersionAfter
  <2>12. DiskInv'
    BY <1>1, <1>3, <2>4, <2>10 DEF DurableInv, DiskInv, TablesUpTo
  <2>13. OpenInv' /\ ReplayInv'
    <3>1. /\ DiskMeta.next < new + 1 /\ DiskMeta.last <= last_sequence_'
          /\ \A n \in replay.add : DiskMeta.next < n /\ n < new + 1
      BY <2>3, <2>4, <2>6
    <3> QED
      BY <1>1, <1>3, <2>1, <2>4, <2>10, <3>1 DEF OpenInv, ReplayInv
  <2>14. ApplyOpenInv'
    <3>1. \A n \in DOMAIN logs' : n <= new
      BY <2>3, <2>6, <2>8, <2>9
    <3> QED
      BY <2>1, <2>2, <2>9, <3>1 DEF ApplyOpenInv
  <2>15. EditInv'
    <3>1. /\ VersionAfter' \subseteq DOMAIN tables'
          /\ \A n \in VersionAfter' : n < new + 1
          /\ manifest_file_number_' < new + 1
      BY <1>1, <2>1, <2>3, <2>4, <2>5, <2>6, <2>11
    <3>2. TablesUpTo(VersionAfter, last_sequence_)'
      <4> SUFFICES ASSUME NEW n \in (version \cup replay.add) \cap DOMAIN tables,
                          NEW e \in tables[n].data
                   PROVE  e.seq <= last_sequence_'
        BY <1>1, <2>11 DEF TablesUpTo
      <4>1. e.seq <= DiskMeta.last \/ e.seq <= replay.max
        BY <2>4, <2>5, <2>7 DEF TablesUpTo
      <4> QED
        BY <2>3, <2>4, <2>6, <4>1, EntryNumbers
    <3>3. TablesUpTo(VersionAfter, apply.edit.last)'
      BY <2>2, <3>2
    <3>4. /\ new < new + 1 /\ new + 1 <= new + 1 /\ last_sequence_' <= last_sequence_'
      BY <2>3
    <3> QED
      BY <2>1, <2>2, <3>1, <3>3, <3>4 DEF EditInv
  <2>16. CurrentInv'
    BY <1>3, <2>2 DEF CurrentInv, Appended
  <2>17. UpParts'
    BY <1>3, NotUp
  <2>18. AckedInv'
    <3>1. \A e : InTables(e, DiskVersion)' = InTables(e, DiskVersion)
      BY <1>1, <2>10 DEF InTables
    <3>2. \A e : InTables(e, VersionAfter)' <=>
                   InTables(e, DiskVersion) \/ InTables(e, replay.add)
      BY <1>1, <2>4, <2>11 DEF InTables
    <3>3. DiskLogs \subseteq DOMAIN logs /\ DiskLogs \subseteq DiskLogs'
      BY <1>1, <2>9 DEF DiskLogs
    <3>4. \A e : OnDisk(e) => OnDisk(e)'
      BY <2>9, <3>1, <3>3 DEF OnDisk
    <3>5. ProcessOnly => \A e \in acked : e \in lost \/ OnDisk(e)
      BY <1>1 DEF DurableInv, AckedInv
    <3>6. ProcessOnly => \A e \in acked : e \in lost' \/ InTables(e, VersionAfter)'
      BY <2>1, <2>7, <3>2, <3>5 DEF OnDisk
    <3> QED
      BY <1>1, <1>3, <2>1, <3>4, <3>5, <3>6 DEF AckedInv
  <2> QED
    BY <2>12, <2>13, <2>14, <2>15, <2>16, <2>17, <2>18 DEF DurableInv, OpenParts
<1> QED
  BY <1>2, <1>3

-----------------------------------------------------------------------------
(* What a crash of the machine may leave.                                  *)

\* The first k records of the MANIFEST that CURRENT names.
View(k) == SubSeq(manifests[current].edits, 1, k)
InSyncedLog(e, k) == \E n \in DOMAIN logs : n >= k /\ e \in logs[n].synced

\* The files hold every sync write, up to what DB::Open gave up, when these records are
\* all that is left of the MANIFEST and only what was synced is left of the log files.
GoodView(edits) ==
  /\ current < LastMeta(edits).next /\ LastMeta(edits).log < LastMeta(edits).next
  /\ LastMeta(edits).next <= DiskMeta.next /\ LastMeta(edits).log <= DiskMeta.log
  /\ LiveIn(edits) \subseteq DOMAIN tables
  /\ \A n \in LiveIn(edits) : n < LastMeta(edits).next
  /\ TablesUpTo(LiveIn(edits), LastMeta(edits).last)
  /\ \A e \in ackedSync :
       e \in lost \/ InTables(e, LiveIn(edits)) \/ InSyncedLog(e, LastMeta(edits).log)

\* A cut of the MANIFEST that a crash of the machine may make leaves a good view.  (Of
\* an open DB the whole MANIFEST is one by the rest of the invariant.)
ViewInv ==
  Readable =>
    \A k \in manifests[current].synced..Len(manifests[current].edits) :
      MetaEdits(View(k)) # {} /\ (phase = "up" => k < Len(manifests[current].edits))
        => GoodView(View(k))

\* Where a sync write is in an open DB, and in a DB::Open that writes its MANIFEST.
ServedSync(e) ==
  \/ e \in lost \/ InTables(e, version)
  \/ e \in mem_ /\ e \in logs[logfile_number_].synced
  \/ e \in imm_ /\ e \in logs[log_number_].synced
SyncedInv ==
  /\ \A n \in DOMAIN logs : logs[n].synced \subseteq logs[n].data
  /\ phase = "up" =>
       /\ write.step = "insert" /\ write.sync =>
            write.entry \in logs[logfile_number_].synced
       /\ \A e \in ackedSync : ServedSync(e)
  /\ phase = "apply" => \A e \in ackedSync : e \in lost \/ InTables(e, VersionAfter)
SyncInv == SyncedInv /\ ViewInv

\* The records that a crash may leave.
LEMMA ViewType ==
  ASSUME TypeInv, Readable,
         NEW k \in manifests[current].synced..Len(manifests[current].edits)
  PROVE  /\ manifests[current].edits \in Seq(Edit) /\ manifests[current].synced \in Nat
         /\ k \in 0..Len(manifests[current].edits)
         /\ View(k) \in Seq(Edit) /\ Len(View(k)) = k
         /\ View(Len(manifests[current].edits)) = manifests[current].edits
         /\ MetaEdits(View(k)) # {} => /\ LastMeta(View(k)) \in Edit
                                       /\ LastMeta(View(k)).next \in Nat
                                       /\ LastMeta(View(k)).log \in Nat
                                       /\ LastMeta(View(k)).last \in Nat
         /\ LiveIn(View(k)) \subseteq Nat
<1> DEFINE s == manifests[current].edits
<1>1. s \in Seq(Edit) /\ manifests[current].synced \in Nat /\ Len(s) \in Nat
  BY DEF TypeInv, Typed, DiskType, ManifestFile, Readable
<1>2. k \in 0..Len(s)
  BY <1>1
<1>3. \A i \in 1..k : s[i] \in Edit
  BY <1>1, <1>2
<1>4. View(k) \in Seq(Edit) /\ Len(View(k)) = k
  <2>1. /\ SubSeq(s, 1, k) \in Seq(Edit)
        /\ Len(SubSeq(s, 1, k)) = IF 1 <= k THEN k - 1 + 1 ELSE 0
    BY <1>2, <1>3, SubSeqProperties
  <2> QED
    BY <1>2, <2>1 DEF View
<1>5. View(Len(s)) = s
  BY <1>1, SubSeqFull DEF View
<1>6. ASSUME MetaEdits(View(k)) # {}
      PROVE  /\ LastMeta(View(k)) \in Edit /\ LastMeta(View(k)).next \in Nat
             /\ LastMeta(View(k)).log \in Nat /\ LastMeta(View(k)).last \in Nat
  BY <1>4, <1>6, LastMetaIs DEF Edit
<1>7. LiveIn(View(k)) \subseteq Nat
  <2>0. \A i \in DOMAIN View(k) : View(k)[i] \in Edit
    BY <1>4
  <2>1. \A i \in DOMAIN View(k) : View(k)[i].add \subseteq Nat
    BY <2>0 DEF Edit
  <2> QED
    BY <2>1 DEF LiveIn
<1> QED
  BY <1>1, <1>2, <1>4, <1>5, <1>6, <1>7

\* Every sync write that an open DB serves is synced in a log file that counts, or in a
\* table of the version that the MANIFEST describes.
LEMMA FullView ==
  ASSUME TypeInv, DurableInv, SyncedInv, phase = "up"
  PROVE  GoodView(manifests[current].edits)
<1> USE DEF DurableInv, UpParts
<1>0. Readable
  BY DEF DiskInv
<1>a. /\ logfile_number_ \in DOMAIN logs /\ log_number_ \in DOMAIN logs
      /\ log_number_ <= logfile_number_
  BY Numbers DEF LogsInv
<1>b. \A e \in ackedSync : ServedSync(e)
  BY DEF SyncedInv
<1>1. ASSUME NEW e \in ackedSync, e \notin lost
      PROVE  InTables(e, DiskVersion) \/ InSyncedLog(e, DiskMeta.log)
  <2>0. \/ InTables(e, version)
        \/ e \in mem_ /\ e \in logs[logfile_number_].synced
        \/ e \in imm_ /\ e \in logs[log_number_].synced
    BY <1>b, <1>1 DEF ServedSync
  <2>1. CASE ~Appended
    <3>1. DiskMeta.log = log_number_ /\ DiskVersion = version
      BY <2>1 DEF CurrentInv
    <3>2. log_number_ >= DiskMeta.log /\ logfile_number_ >= DiskMeta.log
      BY <1>a, <3>1, Numbers
    <3> QED
      BY <1>a, <2>0, <3>1, <3>2 DEF InSyncedLog
  <2>2. CASE Appended
    <3>1. /\ DiskMeta = apply.edit /\ DiskVersion = VersionAfter
          /\ apply.by = "flush" \/ apply.by = "compact"
      BY <2>2 DEF CurrentInv, Appended, TypeInv, Control, ApplyControl, Typed, CallType
    <3>2. CASE apply.by = "flush"
      <4>1. /\ apply.edit.add = {flush} /\ apply.edit.del = {}
            /\ apply.edit.log = logfile_number_
            /\ flush \in DOMAIN tables /\ tables[flush].data = imm_
        BY <3>2 DEF CallsInv
      <4>2. VersionAfter = version \cup {flush}
        BY <4>1 DEF VersionAfter
      <4>3. logfile_number_ >= DiskMeta.log
        BY <3>1, <4>1, Numbers
      <4> QED
        BY <1>a, <2>0, <3>1, <4>1, <4>2, <4>3 DEF InSyncedLog, InTables
    <3>3. CASE apply.by = "compact"
      <4>1. /\ apply.edit.add = compact.outputs /\ apply.edit.del = compact.inputs
            /\ apply.edit.log = log_number_ /\ compact.todo = {}
            /\ \A n \in compact.inputs : ~tables[n].damaged
        BY <3>3 DEF CallsInv
      <4>2. VersionAfter = (version \ compact.inputs) \cup compact.outputs
        BY <4>1 DEF VersionAfter
      <4>3. log_number_ >= DiskMeta.log /\ logfile_number_ >= DiskMeta.log
        BY <1>a, <3>1, <4>1, Numbers
      <4>4. InTables(e, version) => InTables(e, VersionAfter)
        BY <4>1, <4>2 DEF InTables, DataInv
      <4> QED
        BY <1>a, <2>0, <3>1, <4>3, <4>4 DEF InSyncedLog
    <3> QED
      BY <3>1, <3>2, <3>3
  <2> QED
    BY <2>1, <2>2
<1>2. /\ current < DiskMeta.next /\ DiskMeta.log < DiskMeta.next
      /\ DiskVersion \subseteq DOMAIN tables /\ \A n \in DiskVersion : n < DiskMeta.next
      /\ TablesUpTo(DiskVersion, DiskMeta.last)
  BY <1>0 DEF DiskInv
<1>3. DiskMeta.next <= DiskMeta.next /\ DiskMeta.log <= DiskMeta.log
  BY <1>0, DiskMetaType
<1>4. /\ LastMeta(manifests[current].edits) = DiskMeta
      /\ LiveIn(manifests[current].edits) = DiskVersion
  BY DEF DiskMeta, DiskVersion
<1> QED
  BY <1>1, <1>2, <1>3, <1>4 DEF GoodView

\* So every cut leaves a good view.
LEMMA AnyView ==
  ASSUME TypeInv, DurableInv, SyncInv, Readable,
         NEW k \in manifests[current].synced..Len(manifests[current].edits),
         MetaEdits(View(k)) # {}
  PROVE  GoodView(View(k))
<1>1. /\ View(Len(manifests[current].edits)) = manifests[current].edits
      /\ k \in 0..Len(manifests[current].edits)
      /\ Len(manifests[current].edits) \in Nat
  BY ViewType
<1>2. CASE phase = "up" /\ k = Len(manifests[current].edits)
  BY <1>1, <1>2, FullView DEF SyncInv
<1>3. CASE phase = "up" => k # Len(manifests[current].edits)
  BY <1>1, <1>3 DEF SyncInv, ViewInv
<1> QED
  BY <1>2, <1>3

\* The whole MANIFEST is one.
LEMMA WholeView ==
  ASSUME TypeInv, DurableInv, SyncInv, Readable
  PROVE  GoodView(manifests[current].edits)
<1>1. /\ manifests[current].edits \in Seq(Edit) /\ manifests[current].synced \in Nat
      /\ manifests[current].synced <= Len(manifests[current].edits)
      /\ MetaEdits(manifests[current].edits) # {}
  BY DEF TypeInv, Typed, DiskType, ManifestFile, Readable
<1>2. /\ View(Len(manifests[current].edits)) = manifests[current].edits
      /\ Len(manifests[current].edits) \in
           manifests[current].synced..Len(manifests[current].edits)
  BY <1>1, SubSeqFull DEF View
<1> QED
  BY <1>1, <1>2, AnyView

\* A step after which CURRENT's MANIFEST, when it can be read, has the same records and
\* no fewer of them synced, the tables below its numbers are there, and what is synced
\* in the log files has grown.
LEMMA ViewFrame ==
  ASSUME TypeInv, TypeInv', DurableInv, SyncInv, current' = current,
         Readable' => /\ Readable
                      /\ manifests'[current].edits = manifests[current].edits
                      /\ manifests[current].synced <= manifests'[current].synced,
         \A n \in DOMAIN tables : n < DiskMeta.next =>
           n \in DOMAIN tables' /\ tables'[n].data = tables[n].data,
         \A n \in DOMAIN logs :
           n \in DOMAIN logs' /\ logs[n].synced \subseteq logs'[n].synced,
         lost \subseteq lost',
         \A e \in ackedSync' : \/ e \in ackedSync \/ e \in lost'
                               \/ InSyncedLog(e, DiskMeta.log)'
  PROVE  ViewInv'
<1> SUFFICES ASSUME Readable',
                    NEW k \in manifests'[current].synced..Len(manifests'[current].edits),
                    MetaEdits(View(k)') # {}
             PROVE  GoodView(View(k))'
  BY DEF ViewInv
<1>0. PICK v : v = View(k)
  OBVIOUS
<1>1. /\ Readable
      /\ manifests'[current].edits = manifests[current].edits
      /\ manifests[current].synced <= manifests'[current].synced
  OBVIOUS
<1>2. manifests[current].synced \in Nat /\ manifests'[current].synced \in Nat
  BY <1>1 DEF TypeInv, Typed, DiskType, ManifestFile, Readable
<1>3. k \in manifests[current].synced..Len(manifests[current].edits)
  BY <1>1, <1>2
<1>4. View(k)' = View(k) /\ DiskMeta' = DiskMeta
  BY <1>1 DEF View, DiskMeta
<1>5. GoodView(v)
  BY <1>0, <1>1, <1>3, <1>4, AnyView
<1>6. /\ LastMeta(v).next \in Nat /\ LastMeta(v).log \in Nat /\ LiveIn(v) \subseteq Nat
  BY <1>0, <1>1, <1>3, <1>4, ViewType
<1>7. DiskMeta.next \in Nat /\ DiskMeta.log \in Nat
  BY <1>1, DiskMetaType DEF DurableInv
<1>8. \A n \in LiveIn(v) : /\ n < LastMeta(v).next /\ n \in DOMAIN tables
                           /\ n \in DOMAIN tables' /\ tables'[n].data = tables[n].data
  BY <1>5, <1>6, <1>7 DEF GoodView
<1>9. TablesUpTo(LiveIn(v), LastMeta(v).last)'
  BY <1>5, <1>8 DEF GoodView, TablesUpTo
<1>10. ASSUME NEW e \in ackedSync', e \notin lost'
       PROVE  InTables(e, LiveIn(v))' \/ InSyncedLog(e, LastMeta(v).log)'
  <2>1. CASE e \in ackedSync
    <3>1. InTables(e, LiveIn(v)) \/ InSyncedLog(e, LastMeta(v).log)
      BY <1>5, <1>10, <2>1 DEF GoodView
    <3>2. InTables(e, LiveIn(v)) => InTables(e, LiveIn(v))'
      BY <1>8 DEF InTables
    <3>3. InSyncedLog(e, LastMeta(v).log) => InSyncedLog(e, LastMeta(v).log)'
      BY DEF InSyncedLog
    <3> QED
      BY <3>1, <3>2, <3>3
  <2>2. CASE InSyncedLog(e, DiskMeta.log)'
    <3>1. PICK n \in DOMAIN logs' : n >= DiskMeta.log /\ e \in logs'[n].synced
      BY <1>4, <2>2 DEF InSyncedLog
    <3>2. n \in Nat /\ LastMeta(v).log <= DiskMeta.log
      BY <1>5 DEF TypeInv, Typed, DiskType, GoodView
    <3>3. n >= LastMeta(v).log
      BY <1>6, <1>7, <3>1, <3>2
    <3> QED
      BY <3>1, <3>3 DEF InSyncedLog
  <2> QED
    BY <1>10, <2>1, <2>2
<1>11. GoodView(v)'
  BY <1>4, <1>5, <1>8, <1>9, <1>10 DEF GoodView
<1> QED
  BY <1>0, <1>4, <1>11

\* A step that leaves the MANIFESTs and CURRENT alone.
LEMMA ViewSame ==
  ASSUME TypeInv, TypeInv', DurableInv, SyncInv, UNCHANGED <<manifests, current>>,
         \A n \in DOMAIN tables : n < DiskMeta.next =>
           n \in DOMAIN tables' /\ tables'[n].data = tables[n].data,
         \A n \in DOMAIN logs :
           n \in DOMAIN logs' /\ logs[n].synced \subseteq logs'[n].synced,
         lost \subseteq lost',
         \A e \in ackedSync' : \/ e \in ackedSync \/ e \in lost'
                               \/ InSyncedLog(e, DiskMeta.log)'
  PROVE  ViewInv'
<1>1. Readable' = Readable
  BY DiskSame
<1>2. Readable => manifests[current].synced <= manifests'[current].synced
  BY DEF TypeInv, Typed, DiskType, ManifestFile, Readable
<1> QED
  BY <1>1, <1>2, ViewFrame

\* Between two calls of LogAndApply() there is nothing to cut.
LEMMA UpViews ==
  ASSUME TypeInv', CurrentInv', phase' = "up", apply'.step # "sync"
  PROVE  ViewInv'
<1> SUFFICES ASSUME Readable',
                    NEW k \in manifests'[current'].synced..Len(manifests'[current'].edits),
                    k < Len(manifests'[current'].edits)
             PROVE  FALSE
  BY DEF ViewInv
<1>1. /\ manifests'[current'].edits \in Seq(Edit)
      /\ Len(manifests'[current'].edits) \in Nat
  BY DEF TypeInv, Typed, DiskType, ManifestFile, Readable
<1>2. manifests'[current'].synced = Len(manifests'[current'].edits)
  BY DEF CurrentInv
<1> QED
  BY <1>1, <1>2

\* A step of an open DB that leaves the log files and the memtables alone.
LEMMA ServedFrame ==
  ASSUME SyncedInv, phase = "up", phase' = "up",
         UNCHANGED <<logs, logfile_number_, log_number_, mem_, imm_, lost, ackedSync>>,
         write' = write \/ write'.step = "log",
         \A e : InTables(e, version) => InTables(e, version)'
  PROVE  SyncedInv'
BY DEF SyncedInv, ServedSync

\* A step of DB::Open() before LogAndApply(), or its end.
LEMMA BeforeSync ==
  ASSUME SyncedInv, phase' # "up", phase' # "apply", logs' = logs
  PROVE  SyncedInv'
BY DEF SyncedInv

-----------------------------------------------------------------------------
(* Write().                                                                *)

LEMMA WriteBeginSync ==
  ASSUME TypeInv, TypeInv', DurableInv, SyncInv, WriteBegin \/ IterBegin \/ IterEnd
  PROVE  SyncInv'
<1>1. /\ phase = "up" /\ phase' = "up"
      /\ write' = write \/ write'.step = "log"
      /\ UNCHANGED <<logs, tables, manifests, current, mem_, imm_, logfile_number_,
                     log_number_, version, lost, ackedSync>>
  BY DEF WriteBegin, IterBegin, IterEnd, Free
<1>2. \A e : InTables(e, version) => InTables(e, version)'
  BY <1>1 DEF InTables
<1>3. SyncedInv'
  BY <1>1, <1>2, ServedFrame DEF SyncInv
<1>4. ViewInv'
  BY <1>1, ViewSame
<1> QED
  BY <1>3, <1>4 DEF SyncInv

LEMMA SwitchMemTableSync ==
  ASSUME TypeInv, TypeInv', DurableInv, SyncInv, SwitchMemTable
  PROVE  SyncInv'
<1>1. /\ phase = "up" /\ phase' = "up" /\ ~has_imm_ /\ imm_ = {} /\ write.step = "idle"
      /\ UNCHANGED <<tables, manifests, current, log_number_, version, write, lost,
                     ackedSync>>
      /\ logs' = With(logs, next_file_number_, [data |-> {}, synced |-> {}])
      /\ logfile_number_' = next_file_number_ /\ imm_' = mem_
  BY DEF SwitchMemTable, Free, TypeInv, Control, PhaseControl
<1>2. /\ log_number_ = logfile_number_ /\ logfile_number_ < next_file_number_
      /\ logfile_number_ \in DOMAIN logs
      /\ \A n \in DOMAIN logs : n < log_number_ \/ n = log_number_
  BY <1>1 DEF DurableInv, UpParts, LogsInv
<1>3. next_file_number_ \notin DOMAIN logs /\ logfile_number_ # next_file_number_
  BY <1>2, Numbers
<1>4. /\ DOMAIN logs' = DOMAIN logs \cup {next_file_number_}
      /\ logs'[next_file_number_].data = {} /\ logs'[next_file_number_].synced = {}
      /\ \A n \in DOMAIN logs : logs'[n] = logs[n]
  BY <1>1, <1>3 DEF With
<1>5. \A e : InTables(e, version)' = InTables(e, version)
  BY <1>1 DEF InTables
<1>6. SyncedInv'
  <2>1. \A n \in DOMAIN logs' : logs'[n].synced \subseteq logs'[n].data
    BY <1>4 DEF SyncInv, SyncedInv
  <2>2. \A e \in ackedSync' : ServedSync(e)'
    BY <1>1, <1>2, <1>4, <1>5 DEF SyncInv, SyncedInv, ServedSync
  <2> QED
    BY <1>1, <2>1, <2>2 DEF SyncedInv
<1>7. ViewInv'
  BY <1>1, <1>4, ViewSame
<1> QED
  BY <1>6, <1>7 DEF SyncInv

\* A write with sync goes on to the Sync().
LEMMA WriteLogSync ==
  ASSUME TypeInv, TypeInv', DurableInv, SyncInv, WriteLog
  PROVE  SyncInv'
<1>1. /\ phase = "up" /\ phase' = "up" /\ write.step = "log"
      /\ UNCHANGED <<tables, manifests, current, memVars, fileVars, version, lost,
                     ackedSync>>
  BY NoTypes DEF WriteLog, TypeInv, Control, PhaseControl
<1>2. PICK ok \in BOOLEAN, read \in BOOLEAN :
        /\ logs' = IF ok \/ read
                   THEN [logs EXCEPT ![logfile_number_].data = @ \cup {write.entry}]
                   ELSE logs
        /\ write' = [write EXCEPT !.step = AfterLog(ok)]
  BY DEF WriteLog
<1>3. write'.step = "insert" => ~write'.sync
  BY <1>2 DEF AfterLog, TypeInv, Typed, CallType
<1>4. /\ DOMAIN logs' = DOMAIN logs
      /\ \A n \in DOMAIN logs : /\ logs'[n].synced = logs[n].synced
                                /\ logs[n].data \subseteq logs'[n].data
  BY <1>2 DEF TypeInv, Typed, DiskType, LogFile
<1>5. \A e : InTables(e, version)' = InTables(e, version)
  BY <1>1 DEF InTables
<1>6. logfile_number_ \in DOMAIN logs /\ log_number_ \in DOMAIN logs
  BY <1>1 DEF DurableInv, UpParts, LogsInv
<1>7. SyncedInv'
  <2>1. \A n \in DOMAIN logs' : logs'[n].synced \subseteq logs'[n].data
    BY <1>4 DEF SyncInv, SyncedInv
  <2>2. \A e \in ackedSync' : ServedSync(e)'
    BY <1>1, <1>4, <1>5, <1>6 DEF SyncInv, SyncedInv, ServedSync
  <2> QED
    BY <1>1, <1>3, <2>1, <2>2 DEF SyncedInv
<1>8. ViewInv'
  BY <1>1, <1>4, ViewSame
<1> QED
  BY <1>7, <1>8 DEF SyncInv

\* The Sync() makes the record of the call durable, and all before it.
LEMMA WriteSyncSync ==
  ASSUME TypeInv, TypeInv', DurableInv, SyncInv, WriteSync
  PROVE  SyncInv'
<1>1. /\ phase = "up" /\ phase' = "up" /\ write.step = "sync"
      /\ UNCHANGED <<tables, manifests, current, memVars, fileVars, version, lost,
                     ackedSync>>
  BY NoTypes DEF WriteSync, TypeInv, Control, PhaseControl
<1>2. PICK ok \in BOOLEAN :
        /\ logs' = IF ok
                   THEN [logs EXCEPT ![logfile_number_].synced =
                                       logs[logfile_number_].data]
                   ELSE logs
        /\ write' = [write EXCEPT !.step = IF ok THEN "insert" ELSE "failed"]
  BY DEF WriteSync
<1>3. /\ logfile_number_ \in DOMAIN logs /\ log_number_ \in DOMAIN logs
      /\ write.entry \in logs[logfile_number_].data
  BY <1>1 DEF DurableInv, UpParts, LogsInv
<1>4. \A n \in DOMAIN logs : logs[n].synced \subseteq logs[n].data
  BY DEF SyncInv, SyncedInv
<1>5. /\ DOMAIN logs' = DOMAIN logs
      /\ \A n \in DOMAIN logs : /\ logs'[n].data = logs[n].data
                                /\ logs[n].synced \subseteq logs'[n].synced
                                /\ logs'[n].synced \subseteq logs'[n].data
  BY <1>2, <1>4 DEF TypeInv, Typed, DiskType, LogFile
<1>6. /\ write'.entry = write.entry
      /\ write'.step = "insert" => ok
      /\ ok => write.entry \in logs'[logfile_number_].synced
  BY <1>2, <1>3 DEF TypeInv, Typed, CallType, DiskType, LogFile
<1>7. \A e : InTables(e, version)' = InTables(e, version)
  BY <1>1 DEF InTables
<1>8. SyncedInv'
  <2>1. \A e \in ackedSync' : ServedSync(e)'
    BY <1>1, <1>3, <1>5, <1>7 DEF SyncInv, SyncedInv, ServedSync
  <2> QED
    <3>1. write'.step = "insert" => write'.entry \in logs'[logfile_number_'].synced
      BY <1>1, <1>6
    <3> QED
      BY <1>1, <1>5, <2>1, <3>1 DEF SyncedInv
<1>9. ViewInv'
  BY <1>1, <1>5, ViewSame
<1> QED
  BY <1>8, <1>9 DEF SyncInv

LEMMA WriteEndSync ==
  ASSUME TypeInv, TypeInv', DurableInv, SyncInv, WriteEnd
  PROVE  SyncInv'
<1>1. /\ phase = "up" /\ phase' = "up" /\ write.step \in {"insert", "failed"}
      /\ UNCHANGED <<diskVars, imm_, fileVars, version, lost>>
      /\ mem_' = mem_ \cup Inserted /\ write' = NoWrite
      /\ ackedSync' = IF write.sync THEN ackedSync \cup Inserted ELSE ackedSync
  BY DEF WriteEnd, Free, Inserted
<1>2. /\ logfile_number_ \in DOMAIN logs /\ log_number_ <= logfile_number_
  BY <1>1, Numbers DEF DurableInv, UpParts, LogsInv
<1>3. ASSUME NEW e \in Inserted, write.sync
      PROVE  e \in mem_' /\ e \in logs[logfile_number_].synced
  BY <1>1, <1>3 DEF Inserted, SyncInv, SyncedInv
<1>4. \A e : InTables(e, version)' = InTables(e, version)
  BY <1>1 DEF InTables
<1>5. SyncedInv'
  <2>1. ASSUME NEW e \in ackedSync' PROVE ServedSync(e)'
    <3>1. CASE e \in ackedSync
      BY <1>1, <1>4, <3>1 DEF SyncInv, SyncedInv, ServedSync
    <3>2. CASE e \in Inserted /\ write.sync
      BY <1>1, <1>3, <3>2 DEF ServedSync
    <3> QED
      BY <1>1, <2>1, <3>1, <3>2
  <2> QED
    BY <1>1, <2>1, NoTypes DEF SyncInv, SyncedInv
<1>6. ViewInv'
  <2>1. DiskMeta.log <= logfile_number_
    <3>1. CASE ~Appended
      BY <1>1, <1>2, <3>1 DEF DurableInv, CurrentInv
    <3>2. CASE Appended
      <4>1. /\ DiskMeta = apply.edit
            /\ apply.by = "flush" \/ apply.by = "compact"
        BY <1>1, <3>2 DEF DurableInv, CurrentInv, Appended, TypeInv, Control,
                          ApplyControl, Typed, CallType
      <4>2. apply.edit.log = logfile_number_ \/ apply.edit.log = log_number_
        BY <4>1 DEF DurableInv, UpParts, CallsInv
      <4> QED
        BY <1>2, <4>1, <4>2, Numbers
    <3> QED
      BY <3>1, <3>2
  <2>2. DiskMeta' = DiskMeta
    BY <1>1, DiskSame
  <2>3. logfile_number_ >= DiskMeta.log
    <3>1. Readable
      BY <1>1 DEF DurableInv, DiskInv
    <3>2. DiskMeta.log \in Nat
      BY <3>1, DiskMetaType DEF DurableInv
    <3> QED
      BY <2>1, <3>2, Numbers
  <2>4. \A e \in ackedSync' : e \in ackedSync \/ InSyncedLog(e, DiskMeta.log)'
    BY <1>1, <1>2, <1>3, <2>2, <2>3 DEF InSyncedLog
  <2> QED
    BY <1>1, <2>4, ViewSame
<1> QED
  BY <1>5, <1>6 DEF SyncInv

-----------------------------------------------------------------------------
(* The background thread.                                                  *)

LEMMA BackgroundSync ==
  ASSUME TypeInv, TypeInv', DurableInv, DurableInv', SyncInv,
         \/ FlushBegin \/ FlushBuild \/ CompactBegin \/ CompactOpen \/ CompactFinish
         \/ CompactError \/ CompactInstall
  PROVE  SyncInv'
<1>1. /\ phase = "up" /\ phase' = "up" /\ apply.by = "none" /\ apply.step = "none"
      /\ UNCHANGED <<logs, mem_, imm_, logfile_number_, log_number_, version, write,
                     lost, ackedSync>>
  BY DEF FlushBegin, FlushBuild, CompactBegin, CompactOpen, CompactFinish,
         CompactError, CompactInstall, Merging, Free, TypeInv, Control, ApplyControl
<1>2. apply'.step # "sync"
  <2>1. CASE FlushBuild
    <3>1. \/ apply' = apply
          \/ apply' = StartApply("flush", {flush}, {}, logfile_number_,
                                 next_file_number_, last_sequence_)
      BY <2>1 DEF FlushBuild
    <3> QED
      BY <1>1, <3>1 DEF StartApply
  <2>2. CASE CompactInstall
    BY <2>2 DEF CompactInstall, StartApply
  <2>3. CASE ~FlushBuild /\ ~CompactInstall
    <3>1. apply' = apply
      BY <2>3 DEF FlushBegin, CompactBegin, CompactOpen, CompactFinish, CompactError
    <3> QED
      BY <1>1, <3>1
  <2> QED
    BY <2>1, <2>2, <2>3
<1>3. /\ version \subseteq DOMAIN tables
      /\ \A n \in version : n < next_file_number_ /\ (flush # 0 => n # flush)
      /\ \A n \in compact.outputs : n \notin version
      /\ compact.builder # 0 => compact.builder \in compact.outputs
  BY <1>1 DEF DurableInv, UpParts, TablesInv
<1>4. \A n \in version : n \in DOMAIN tables' /\ tables'[n] = tables[n]
  <2>1. CASE FlushBegin \/ CompactBegin \/ CompactError \/ CompactInstall
    BY <1>3, <2>1 DEF FlushBegin, CompactBegin, CompactError, CompactInstall
  <2>2. CASE FlushBuild
    BY <1>3, <2>2 DEF FlushBuild, With
  <2>3. CASE CompactOpen
    <3>1. next_file_number_ \notin version
      BY <1>3, Numbers
    <3> QED
      BY <1>3, <2>3, <3>1 DEF CompactOpen, With
  <2>4. CASE CompactFinish
    <3>1. compact.builder \notin version
      BY <1>3, <2>4 DEF CompactFinish
    <3> QED
      BY <1>3, <2>4, <3>1 DEF CompactFinish
  <2> QED
    BY <2>1, <2>2, <2>3, <2>4
<1>5. \A e : InTables(e, version) => InTables(e, version)'
  BY <1>1, <1>3, <1>4 DEF InTables
<1>6. SyncedInv'
  BY <1>1, <1>5, ServedFrame DEF SyncInv
<1>7. ViewInv'
  BY <1>1, <1>2, UpViews DEF DurableInv
<1> QED
  BY <1>6, <1>7 DEF SyncInv

\* DeleteObsoleteFiles() keeps the log files of mem_ and imm_ and the tables of current_.
LEMMA DeleteFileSync ==
  ASSUME TypeInv, TypeInv', DurableInv, DurableInv', SyncInv, DeleteFile
  PROVE  SyncInv'
<1>1. /\ phase = "up" /\ phase' = "up" /\ apply.step = "none"
      /\ UNCHANGED <<mem_, imm_, logfile_number_, log_number_, version, write, apply,
                     lost, ackedSync>>
  BY DEF DeleteFile, TypeInv, Control, ApplyControl, PhaseControl
<1>2. /\ version \subseteq DOMAIN tables /\ version' \subseteq DOMAIN tables'
      /\ logfile_number_' \in DOMAIN logs' /\ log_number_' \in DOMAIN logs'
  BY <1>1 DEF DurableInv, UpParts, TablesInv, LogsInv
<1>3. /\ DOMAIN logs' \subseteq DOMAIN logs /\ \A n \in DOMAIN logs' : logs'[n] = logs[n]
      /\ \A n \in DOMAIN tables' : tables'[n] = tables[n]
  BY DEF DeleteFile, Without
<1>4. \A e : InTables(e, version) => InTables(e, version)'
  BY <1>1, <1>2, <1>3 DEF InTables
<1>5. SyncedInv'
  <2>1. \A n \in DOMAIN logs' : logs'[n].synced \subseteq logs'[n].data
    BY <1>3 DEF SyncInv, SyncedInv
  <2>2. /\ logs'[logfile_number_'] = logs[logfile_number_]
        /\ logs'[log_number_'] = logs[log_number_]
    BY <1>1, <1>2, <1>3
  <2>3. \A e \in ackedSync' : ServedSync(e)'
    BY <1>1, <1>4, <2>2 DEF SyncInv, SyncedInv, ServedSync
  <2> QED
    BY <1>1, <2>1, <2>2, <2>3 DEF SyncInv, SyncedInv
<1>6. ViewInv'
  BY <1>1, UpViews DEF DurableInv
<1> QED
  BY <1>5, <1>6 DEF SyncInv

-----------------------------------------------------------------------------
(* The end of an incarnation.                                              *)

\* The process is gone; the log files and tables are what they were, and CURRENT's
\* MANIFEST too, when it can still be read.
LEMMA GoneSync ==
  ASSUME TypeInv, TypeInv', DurableInv, SyncInv, phase' = "down",
         UNCHANGED <<logs, tables, current, lost, ackedSync>>,
         Readable' => /\ Readable
                      /\ manifests'[current].edits = manifests[current].edits
                      /\ manifests'[current].synced = manifests[current].synced
  PROVE  SyncInv'
<1>1. SyncedInv'
  BY BeforeSync DEF SyncInv
<1>2. Readable => manifests[current].synced <= manifests[current].synced
  BY DEF TypeInv, Typed, DiskType, ManifestFile, Readable
<1>3. Readable' => /\ Readable
                   /\ manifests'[current].edits = manifests[current].edits
                   /\ manifests[current].synced <= manifests'[current].synced
  BY <1>2
<1>4. ViewInv'
  BY <1>3, ViewFrame
<1> QED
  BY <1>1, <1>4 DEF SyncInv

LEMMA CloseSync ==
  ASSUME TypeInv, TypeInv', DurableInv, SyncInv, Close \/ ProcessCrash
  PROVE  SyncInv'
<1>1. /\ phase' = "down"
      /\ UNCHANGED <<logs, tables, manifests, current, lost, ackedSync>>
  BY DEF Close, ProcessCrash, Stop, Fresh
<1>2. Readable' = Readable
  BY <1>1, DiskSame
<1> QED
  BY <1>1, <1>2, GoneSync

LEMMA TornCrashSync ==
  ASSUME TypeInv, TypeInv', DurableInv, SyncInv, TornCrash
  PROVE  SyncInv'
<1>1. /\ phase' = "down" /\ UNCHANGED <<logs, tables, current, lost, ackedSync>>
      /\ manifests' = [manifests EXCEPT ![manifest_file_number_].torn = TRUE]
  BY DEF TornCrash, Stop, Fresh
<1>2. /\ DOMAIN manifests' = DOMAIN manifests
      /\ \A n \in DOMAIN manifests : /\ manifests'[n].edits = manifests[n].edits
                                     /\ manifests'[n].synced = manifests[n].synced
                                     /\ manifests[n].torn => manifests'[n].torn
  BY <1>1 DEF TypeInv, Typed, DiskType, ManifestFile
<1>3. Readable' => Readable /\ current \in DOMAIN manifests
  BY <1>1, <1>2 DEF Readable
<1> QED
  BY <1>1, <1>2, <1>3, GoneSync

\* A MANIFEST of which only one cut can be read.
LEMMA OneView ==
  ASSUME TypeInv', DurableInv',
         Readable' =>
           /\ \A k \in manifests'[current'].synced..Len(manifests'[current'].edits) :
                \/ MetaEdits(View(k)') = {}
                \/ k = Len(manifests'[current'].edits)
           /\ \A e \in ackedSync' : \/ e \in lost' \/ InTables(e, DiskVersion)'
                                    \/ InSyncedLog(e, DiskMeta.log)'
  PROVE  ViewInv'
<1> SUFFICES ASSUME Readable',
                    NEW k \in manifests'[current'].synced..Len(manifests'[current'].edits),
                    MetaEdits(View(k)') # {}
             PROVE  GoodView(View(k))'
  BY DEF ViewInv
<1>0. PICK v : v = manifests'[current'].edits
  OBVIOUS
<1>1. v \in Seq(Edit) /\ MetaEdits(v) # {}
  BY <1>0 DEF Readable, TypeInv, Typed, DiskType, ManifestFile
<1>2. View(k)' = v
  BY <1>0, <1>1, SubSeqFull DEF View
<1>3. DiskMeta' = LastMeta(v) /\ DiskVersion' = LiveIn(v)
  BY <1>0 DEF DiskMeta, DiskVersion
<1>4. LastMeta(v).next \in Nat /\ LastMeta(v).log \in Nat
  BY <1>1, LastMetaIs DEF Edit
<1>5. /\ (current < LastMeta(v).next)' /\ LastMeta(v).log < LastMeta(v).next
      /\ LiveIn(v) \subseteq DOMAIN tables'
      /\ \A n \in LiveIn(v) : n < LastMeta(v).next
      /\ TablesUpTo(LiveIn(v), LastMeta(v).last)'
  BY <1>3 DEF DurableInv, DiskInv
<1>6. (LastMeta(v).next <= DiskMeta.next)' /\ (LastMeta(v).log <= DiskMeta.log)'
  BY <1>3, <1>4
<1>7. GoodView(v)'
  BY <1>3, <1>5, <1>6 DEF GoodView
<1> QED
  BY <1>2, <1>7

\* The machine stops: what is left of the MANIFEST is a view, the tables below its numbers
\* are there, and every record of a log file that was synced.
LEMMA MachineCrashParts ==
  ASSUME TypeInv, DurableInv, SyncInv, MachineCrash
  PROVE  /\ phase' = "down" /\ Fresh /\ ~ProcessOnly
         /\ UNCHANGED <<current, acked, ackedSync, lost>>
         /\ 0 \notin DOMAIN manifests'
         /\ DOMAIN logs' = DOMAIN logs /\ DOMAIN tables' = DOMAIN tables
         /\ \A n \in DOMAIN tables : tables'[n].data = tables[n].data
         /\ \A n \in DOMAIN logs : /\ logs'[n].synced = logs'[n].data
                                   /\ logs[n].synced \subseteq logs'[n].synced
         /\ Readable' =>
              /\ Readable /\ current \in DOMAIN manifests'
              /\ manifests'[current].synced \in
                   manifests[current].synced..Len(manifests[current].edits)
              /\ manifests'[current].edits = View(manifests'[current].synced)
<1>1. /\ phase' = "down" /\ Fresh /\ ~ProcessOnly /\ phase # "down"
      /\ UNCHANGED <<current, acked, ackedSync, lost>>
  BY DEF MachineCrash, Stop, Fresh, ProcessOnly
<1>2. PICK cut \in [DOMAIN logs -> 0..MaxWrites] :
        /\ \A n \in DOMAIN logs : Seqs(logs[n].synced) \subseteq 0..cut[n]
        /\ logs' = [n \in DOMAIN logs |->
                      LET kept == {e \in logs[n].data : e.seq <= cut[n]}
                      IN  [data |-> kept, synced |-> kept]]
  BY DEF MachineCrash
<1>3. PICK broken \in SUBSET {n \in DOMAIN tables : ~tables[n].synced} :
        tables' = [n \in DOMAIN tables |->
                     [data |-> tables[n].data, synced |-> TRUE,
                      damaged |-> tables[n].damaged \/ n \in broken]]
  BY DEF MachineCrash
<1>4. PICK torn \in SUBSET {n \in DOMAIN manifests : manifests[n].torn},
           left \in [DOMAIN manifests ->
                     0..Max({Len(manifests[n].edits) : n \in DOMAIN manifests})] :
        /\ \A n \in DOMAIN manifests :
             left[n] \in manifests[n].synced..Len(manifests[n].edits)
        /\ manifests' = [n \in DOMAIN manifests |->
                           [edits |-> SubSeq(manifests[n].edits, 1, left[n]),
                            synced |-> left[n], torn |-> n \in torn]]
  BY DEF MachineCrash
<1>5. /\ DOMAIN tables' = DOMAIN tables
      /\ \A n \in DOMAIN tables : tables'[n].data = tables[n].data
  BY <1>3
<1>6. /\ DOMAIN logs' = DOMAIN logs
      /\ \A n \in DOMAIN logs :
           /\ logs'[n].synced = {e \in logs[n].data : e.seq <= cut[n]}
           /\ logs'[n].data = {e \in logs[n].data : e.seq <= cut[n]}
  BY <1>2
<1>7. ASSUME NEW n \in DOMAIN logs, NEW e \in logs[n].synced
      PROVE  e \in logs'[n].synced
  <2>1. e \in logs[n].data
    BY DEF SyncInv, SyncedInv
  <2>2. e.seq \in 0..cut[n]
    BY <1>2 DEF Seqs
  <2>3. cut[n] \in Nat
    BY <1>2
  <2>4. e.seq <= cut[n]
    BY <2>2, <2>3
  <2> QED
    BY <1>6, <2>1, <2>4
<1>8. DOMAIN manifests' = DOMAIN manifests /\ 0 \notin DOMAIN manifests
  BY <1>4 DEF DurableInv, DiskInv
<1>9. ASSUME Readable'
      PROVE  /\ Readable /\ current \in DOMAIN manifests'
             /\ manifests'[current].synced \in
                  manifests[current].synced..Len(manifests[current].edits)
             /\ manifests'[current].edits = View(manifests'[current].synced)
  <2>1. current \in DOMAIN manifests' /\ current # 0
    BY <1>1, <1>8, <1>9 DEF Readable
  <2>2. Readable
    BY <1>1, <2>1 DEF DurableInv, DiskInv
  <2>3. /\ manifests'[current].synced = left[current]
        /\ manifests'[current].edits = SubSeq(manifests[current].edits, 1, left[current])
    BY <1>4, <1>8, <2>1
  <2> QED
    BY <1>4, <1>8, <2>1, <2>2, <2>3 DEF View
<1> QED
  BY <1>1, <1>5, <1>6, <1>7, <1>8, <1>9

LEMMA MachineCrashDurable ==
  ASSUME TypeInv, TypeInv', DurableInv, SyncInv, MachineCrash
  PROVE  DurableInv'
<1>1. /\ phase' = "down" /\ Fresh /\ ~ProcessOnly
      /\ UNCHANGED <<current, acked, ackedSync, lost>>
      /\ 0 \notin DOMAIN manifests'
      /\ DOMAIN logs' = DOMAIN logs /\ DOMAIN tables' = DOMAIN tables
      /\ \A n \in DOMAIN tables : tables'[n].data = tables[n].data
  BY MachineCrashParts
<1>2. DiskInv'
  <2>1. ASSUME Readable'
        PROVE  /\ current < DiskMeta'.next /\ DiskMeta'.log < DiskMeta'.next
               /\ DiskVersion' \subseteq DOMAIN tables
               /\ \A n \in DiskVersion' : n < DiskMeta'.next
               /\ TablesUpTo(DiskVersion', DiskMeta'.last)
    <3>1. PICK k : k = manifests'[current].synced
      OBVIOUS
    <3>2. /\ Readable /\ manifests'[current].edits = View(k)
          /\ k \in manifests[current].synced..Len(manifests[current].edits)
      BY <2>1, <3>1, MachineCrashParts
    <3>3. /\ DiskMeta' = LastMeta(View(k)) /\ DiskVersion' = LiveIn(View(k))
          /\ MetaEdits(View(k)) # {}
      BY <1>1, <2>1, <3>2 DEF DiskMeta, DiskVersion, Readable
    <3>4. GoodView(View(k))
      BY <3>2, <3>3, AnyView
    <3> QED
      BY <3>3, <3>4 DEF GoodView
  <2>2. TablesUpTo(DiskVersion', DiskMeta'.last) => TablesUpTo(DiskVersion, DiskMeta.last)'
    BY <1>1 DEF TablesUpTo
  <2>3. current = 0 => acked = {} /\ DOMAIN logs = {} /\ DOMAIN tables = {}
    BY DEF DurableInv, DiskInv
  <2> QED
    BY <1>1, <2>1, <2>2, <2>3 DEF DiskInv
<1>3. OpenInv' /\ ReplayInv'
  BY <1>1 DEF OpenInv, ReplayInv, Opening
<1>4. AckedInv'
  BY <1>1 DEF AckedInv
<1> QED
  BY <1>1, <1>2, <1>3, <1>4, BeforeApply DEF DurableInv, OpenParts

LEMMA MachineCrashSync ==
  ASSUME TypeInv, TypeInv', DurableInv, DurableInv', SyncInv, MachineCrash
  PROVE  SyncInv'
<1>1. /\ phase' = "down"
      /\ UNCHANGED <<current, ackedSync, lost>>
      /\ DOMAIN logs' = DOMAIN logs /\ DOMAIN tables' = DOMAIN tables
      /\ \A n \in DOMAIN tables : tables'[n].data = tables[n].data
      /\ \A n \in DOMAIN logs : /\ logs'[n].synced = logs'[n].data
                                /\ logs[n].synced \subseteq logs'[n].synced
  BY MachineCrashParts
<1>2. SyncedInv'
  BY <1>1 DEF SyncedInv
<1>3. ViewInv'
  <2>1. ASSUME Readable'
        PROVE  /\ \A k \in manifests'[current'].synced..Len(manifests'[current'].edits) :
                    k = Len(manifests'[current'].edits)
               /\ \A e \in ackedSync' : \/ e \in lost' \/ InTables(e, DiskVersion)'
                                        \/ InSyncedLog(e, DiskMeta.log)'
    <3>1. PICK c : c = manifests'[current].synced
      OBVIOUS
    <3>2. /\ Readable /\ manifests'[current].edits = View(c)
          /\ c \in manifests[current].synced..Len(manifests[current].edits)
      BY <2>1, <3>1, MachineCrashParts
    <3>3. /\ DiskMeta' = LastMeta(View(c)) /\ DiskVersion' = LiveIn(View(c))
          /\ MetaEdits(View(c)) # {}
      BY <1>1, <2>1, <3>2 DEF DiskMeta, DiskVersion, Readable
    <3>4. GoodView(View(c))
      BY <3>2, <3>3, AnyView
    <3>5. Len(manifests'[current'].edits) = c /\ c \in Nat
      BY <1>1, <3>2, ViewType
    <3>6. \A e \in ackedSync : \/ e \in lost \/ InTables(e, LiveIn(View(c)))
                               \/ InSyncedLog(e, LastMeta(View(c)).log)
      BY <3>4 DEF GoodView
    <3>7. ASSUME NEW e, InTables(e, LiveIn(View(c)))
          PROVE  InTables(e, DiskVersion)'
      BY <1>1, <3>3, <3>7 DEF InTables
    <3>8. ASSUME NEW e, InSyncedLog(e, LastMeta(View(c)).log)
          PROVE  InSyncedLog(e, DiskMeta.log)'
      BY <1>1, <3>3, <3>8 DEF InSyncedLog
    <3>9. \A k \in manifests'[current'].synced..Len(manifests'[current'].edits) :
            k = Len(manifests'[current'].edits)
      BY <1>1, <3>1, <3>5
    <3> QED
      BY <1>1, <3>6, <3>7, <3>8, <3>9
  <2> QED
    BY <2>1, OneView
<1> QED
  BY <1>2, <1>3 DEF SyncInv

-----------------------------------------------------------------------------
(* LogAndApply().                                                          *)

\* A step of the LogAndApply() of DB::Open that leaves CURRENT and its MANIFEST alone.
LEMMA OpenApplySync ==
  ASSUME TypeInv, TypeInv', DurableInv, SyncInv, phase = "apply", phase' = "apply",
         UNCHANGED <<logs, tables, current, version, lost, ackedSync>>,
         apply'.edit = apply.edit,
         current \in DOMAIN manifests, current \in DOMAIN manifests',
         manifests'[current] = manifests[current]
  PROVE  SyncInv'
<1>1. VersionAfter' = VersionAfter
  BY DEF VersionAfter
<1>2. \A e : InTables(e, VersionAfter)' <=> InTables(e, VersionAfter)
  BY <1>1 DEF InTables
<1>3. SyncedInv'
  BY <1>2 DEF SyncInv, SyncedInv
<1>4. Readable' = Readable
  BY DiskSameFile
<1>5. manifests[current].synced <= manifests'[current].synced
  BY DEF TypeInv, Typed, DiskType, ManifestFile
<1>6. ViewInv'
  BY <1>4, <1>5, ViewFrame
<1> QED
  BY <1>3, <1>6 DEF SyncInv

\* An error of the LogAndApply() of DB::Open.
LEMMA ApplyFailsSync ==
  ASSUME TypeInv, TypeInv', DurableInv, SyncInv, ApplyFails, phase = "apply",
         apply.step # "install", UNCHANGED <<logs, tables, current, ackedSync>>
  PROVE  SyncInv'
<1>1. /\ current \in DOMAIN manifests /\ current # manifest_file_number_
      /\ apply.by = "open"
  BY NewManifestNumber
<1>2. /\ phase' = "down" /\ lost' = lost
      /\ manifests' = Without(manifests, {manifest_file_number_})
  BY <1>1 DEF ApplyFails, OpenFails, Fresh
<1>3. current \in DOMAIN manifests' /\ manifests'[current] = manifests[current]
  BY <1>1, <1>2 DEF Without
<1>4. Readable' = Readable
  BY <1>1, <1>3, DiskSameFile
<1> QED
  BY <1>2, <1>3, <1>4, GoneSync

LEMMA ApplyCreateSync ==
  ASSUME TypeInv, TypeInv', DurableInv, SyncInv, ApplyCreate
  PROVE  SyncInv'
<1>1. /\ phase = "apply" /\ apply.step = "create"
      /\ UNCHANGED <<logs, tables, current, ackedSync>>
  BY DEF ApplyCreate, TypeInv, Control, ApplyControl
<1>2. current \in DOMAIN manifests /\ current # manifest_file_number_
  BY <1>1, NewManifestNumber
<1>3. CASE ApplyFails
  BY <1>1, <1>3, ApplyFailsSync
<1>4. CASE ~ApplyFails
  <2>1. /\ manifests' = With(manifests, manifest_file_number_,
                             [edits |-> <<SnapshotEdit>>, synced |-> 0, torn |-> FALSE])
        /\ apply' = [apply EXCEPT !.step = "append"]
        /\ UNCHANGED <<phase, version, lost>>
    BY <1>4 DEF ApplyCreate
  <2>2. apply'.edit = apply.edit
    BY <2>1 DEF TypeInv, Typed, CallType
  <2>3. current \in DOMAIN manifests' /\ manifests'[current] = manifests[current]
    BY <1>2, <2>1 DEF With
  <2> QED
    BY <1>1, <1>2, <2>1, <2>2, <2>3, OpenApplySync
<1> QED
  BY <1>3, <1>4

LEMMA SubSeqAppend ==
  ASSUME NEW S, NEW s \in Seq(S), NEW x \in S
  PROVE  SubSeq(Append(s, x), 1, Len(s)) = s
<1> DEFINE t == Append(s, x)
<1>1. Len(s) \in Nat /\ \A i \in 1..Len(s) : t[i] = s[i] /\ t[i] \in S
  BY AppendProperties
<1> HIDE DEF t
<1>2. /\ SubSeq(t, 1, Len(s)) \in Seq(S)
      /\ Len(SubSeq(t, 1, Len(s))) = IF 1 <= Len(s) THEN Len(s) - 1 + 1 ELSE 0
      /\ \A i \in 1..(Len(s) - 1 + 1) : SubSeq(t, 1, Len(s))[i] = t[1 + i - 1]
  BY <1>1, SubSeqProperties
<1>3. /\ Len(SubSeq(t, 1, Len(s))) = Len(s)
      /\ \A i \in 1..Len(s) : SubSeq(t, 1, Len(s))[i] = s[i]
  BY <1>1, <1>2
<1> QED
  BY <1>2, <1>3, SeqEqual DEF t

\* Of an open DB, the MANIFEST without the new record is still a good view.
LEMMA AppendDoneSync ==
  ASSUME TypeInv, TypeInv', DurableInv, DurableInv', SyncInv, AppendDone
  PROVE  SyncInv'
<1>1. /\ apply.step = "append"
      /\ manifests' = [manifests EXCEPT ![manifest_file_number_].edits =
                                          Append(@, apply.edit)]
      /\ apply' = [apply EXCEPT !.step = "sync"]
      /\ UNCHANGED <<phase, mem_, imm_, logfile_number_, log_number_,
                     manifest_file_number_, version, write, lost, logs, tables, current,
                     ackedSync>>
  BY DEF AppendDone
<1>2. /\ apply'.step = "sync" /\ apply'.by = apply.by /\ apply'.edit = apply.edit
      /\ apply.by # "none" /\ apply.edit \in Edit
  BY <1>1 DEF TypeInv, Typed, CallType, Control, ApplyControl
<1>3. CASE phase = "apply"
  <2>1. current \in DOMAIN manifests /\ current # manifest_file_number_
    BY <1>1, <1>3, NewManifestNumber
  <2>2. current \in DOMAIN manifests' /\ manifests'[current] = manifests[current]
    BY <1>1, <2>1
  <2> QED
    BY <1>1, <1>2, <1>3, <2>1, <2>2, OpenApplySync
<1>4. CASE phase # "apply"
  <2>1. /\ phase = "up" /\ phase' = "up"
        /\ apply.by = "flush" \/ apply.by = "compact"
    BY <1>1, <1>2, <1>4 DEF TypeInv, Control, ApplyControl, Typed, CallType
  <2>2. \A e : InTables(e, version) => InTables(e, version)'
    BY <1>1 DEF InTables
  <2>3. SyncedInv'
    BY <1>1, <2>1, <2>2, ServedFrame DEF SyncInv
  <2>4. ~Appended /\ Appended'
    BY <1>1, <1>2, <2>1 DEF Appended
  <2>5. /\ Readable /\ current = manifest_file_number_ /\ DiskMeta.log = log_number_
        /\ DiskMeta.next <= apply.edit.next
        /\ manifests[current].synced = Len(manifests[current].edits)
    BY <1>1, <1>2, <2>1, <2>4 DEF DurableInv, DiskInv, CurrentInv
  <2>6. current \in DOMAIN manifests /\ manifests[current].edits \in Seq(Edit)
    BY <2>5, DiskMetaType DEF DurableInv
  <2>7. PICK v : v = manifests[current].edits
    OBVIOUS
  <2>8. /\ manifests'[current].synced = Len(v)
        /\ manifests'[current].edits = Append(v, apply.edit)
    <3>1. manifests[current] \in ManifestFile
      BY <2>6 DEF TypeInv, Typed, DiskType
    <3>2. manifests'[current] = [manifests[current] EXCEPT !.edits =
                                   Append(manifests[current].edits, apply.edit)]
      BY <1>1, <2>5, <2>6
    <3> QED
      BY <2>5, <2>7, <3>1, <3>2 DEF ManifestFile
  <2>9. GoodView(v)
    BY <2>1, <2>7, FullView DEF SyncInv
  <2>10. DiskMeta' = apply.edit
    BY <1>2, <2>4 DEF DurableInv, CurrentInv
  <2>11. LastMeta(v) = DiskMeta
    BY <2>7 DEF DiskMeta
  <2>12. log_number_ <= apply.edit.log
    <3>1. log_number_ <= logfile_number_
      BY <2>1, Numbers DEF DurableInv, UpParts, LogsInv
    <3>2. apply.edit.log = logfile_number_ \/ apply.edit.log = log_number_
      BY <2>1 DEF DurableInv, UpParts, CallsInv
    <3> QED
      BY <3>1, <3>2, Numbers
  <2>13. GoodView(v)'
    <3>1. LastMeta(v).next <= DiskMeta'.next /\ LastMeta(v).log <= DiskMeta'.log
      BY <2>5, <2>10, <2>11, <2>12
    <3>2. /\ TablesUpTo(LiveIn(v), LastMeta(v).last)'
          /\ \A e : InTables(e, LiveIn(v))' <=> InTables(e, LiveIn(v))
          /\ \A e : InSyncedLog(e, LastMeta(v).log)' <=> InSyncedLog(e, LastMeta(v).log)
      BY <1>1, <2>9 DEF GoodView, TablesUpTo, InTables, InSyncedLog
    <3> QED
      BY <1>1, <2>9, <3>1, <3>2 DEF GoodView
  <2>14. ViewInv'
    <3> SUFFICES ASSUME NEW k, k < Len(manifests'[current].edits),
                        k \in manifests'[current].synced..Len(manifests'[current].edits)
                 PROVE  GoodView(View(k))'
      BY <1>1, <2>1 DEF ViewInv
    <3>1. Len(v) \in Nat /\ v \in Seq(Edit)
      BY <2>6, <2>7
    <3>2. Len(manifests'[current].edits) = Len(v) + 1
      BY <1>2, <2>8, <3>1
    <3>3. k = Len(v)
      BY <2>8, <3>1, <3>2
    <3>4. View(k)' = v
      <4>1. SubSeq(Append(v, apply.edit), 1, Len(v)) = v
        BY <1>2, <3>1, SubSeqAppend
      <4> QED
        BY <1>1, <2>8, <3>3, <4>1 DEF View
    <3> QED
      BY <2>13, <3>4
  <2> QED
    BY <2>3, <2>14 DEF SyncInv
<1> QED
  BY <1>3, <1>4

LEMMA OpenErrorSync ==
  ASSUME TypeInv, TypeInv', DurableInv, SyncInv, OpenError
  PROVE  SyncInv'
BY ApplyFailsSync DEF OpenError

LEMMA ApplyAppendSync ==
  ASSUME TypeInv, TypeInv', DurableInv, DurableInv', SyncInv, Straight, astray' = {},
         astray = {}, ApplyAppend
  PROVE  SyncInv'
BY AppendCases, AppendDoneSync, OpenErrorSync

LEMMA SyncDoneSync ==
  ASSUME TypeInv, TypeInv', DurableInv, DurableInv', SyncInv, SyncDone
  PROVE  SyncInv'
<1>1. /\ apply.step = "sync"
      /\ manifests' = [manifests EXCEPT ![manifest_file_number_].synced =
                                          Len(manifests[manifest_file_number_].edits)]
      /\ apply' = [apply EXCEPT !.step = AfterSync]
      /\ UNCHANGED <<phase, mem_, imm_, logfile_number_, log_number_,
                     manifest_file_number_, version, write, lost, logs, tables, current,
                     ackedSync>>
  BY DEF SyncDone
<1>2. /\ apply'.step = AfterSync /\ apply'.edit = apply.edit /\ apply.by # "none"
  BY <1>1 DEF TypeInv, Typed, CallType, Control, ApplyControl
<1>3. CASE phase = "apply"
  <2>1. current \in DOMAIN manifests /\ current # manifest_file_number_
    BY <1>1, <1>3, NewManifestNumber
  <2>2. current \in DOMAIN manifests' /\ manifests'[current] = manifests[current]
    BY <1>1, <2>1
  <2> QED
    BY <1>1, <1>2, <1>3, <2>1, <2>2, OpenApplySync
<1>4. CASE phase # "apply"
  <2>1. phase = "up" /\ phase' = "up" /\ apply'.step = "install"
    BY <1>1, <1>2, <1>4 DEF TypeInv, Control, ApplyControl, Typed, CallType, AfterSync
  <2>2. \A e : InTables(e, version) => InTables(e, version)'
    BY <1>1 DEF InTables
  <2>3. SyncedInv'
    BY <1>1, <2>1, <2>2, ServedFrame DEF SyncInv
  <2>4. ViewInv'
    BY <2>1, UpViews DEF DurableInv
  <2> QED
    BY <2>3, <2>4 DEF SyncInv
<1> QED
  BY <1>3, <1>4

LEMMA ApplySyncSync ==
  ASSUME TypeInv, TypeInv', DurableInv, DurableInv', SyncInv, astray' = {}, ApplySync
  PROVE  SyncInv'
BY SyncCases, SyncDoneSync, OpenErrorSync

\* The MANIFEST that CURRENT names now is synced and has every sync write in its tables.
LEMMA ApplyCurrentSync ==
  ASSUME TypeInv, TypeInv', DurableInv, DurableInv', SyncInv, ApplyCurrent
  PROVE  SyncInv'
<1>1. /\ phase = "apply" /\ apply.step = "current"
      /\ UNCHANGED <<logs, tables, ackedSync>>
  BY DEF ApplyCurrent, TypeInv, Control, ApplyControl
<1>2. CASE ApplyFails
  <2>1. phase' = "down"
    BY <1>1, <1>2, NewManifestNumber DEF ApplyFails, OpenFails
  <2>2. current' = current
    BY <1>1, <2>1 DEF ApplyCurrent
  <2> QED
    BY <1>1, <1>2, <2>2, ApplyFailsSync
<1>3. CASE ~ApplyFails
  <2>1. /\ current' = manifest_file_number_
        /\ apply' = [apply EXCEPT !.step = "install"]
        /\ UNCHANGED <<manifests, phase, version, lost>>
    BY <1>3 DEF ApplyCurrent
  <2>2. apply'.edit = apply.edit /\ apply'.step = "install"
    BY <2>1 DEF TypeInv, Typed, CallType
  <2>3. \A e : InTables(e, VersionAfter) => InTables(e, VersionAfter)'
    BY <1>1, <2>1, <2>2 DEF InTables, VersionAfter
  <2>4. \A e \in ackedSync' : e \in lost' \/ InTables(e, VersionAfter)'
    BY <1>1, <2>1, <2>3 DEF SyncInv, SyncedInv
  <2>5. SyncedInv'
    BY <1>1, <2>1, <2>4 DEF SyncInv, SyncedInv
  <2>6. Appended'
    BY <1>1, <2>1, <2>2 DEF Appended
  <2>7. /\ DiskVersion' = VersionAfter'
        /\ manifests'[current'].synced = Len(manifests'[current'].edits)
    BY <2>2, <2>6 DEF DurableInv, CurrentInv
  <2>8. ASSUME Readable'
        PROVE  \A k \in manifests'[current'].synced..Len(manifests'[current'].edits) :
                 k = Len(manifests'[current'].edits)
    <3>1. Len(manifests'[current'].edits) \in Nat
      BY <2>8 DEF TypeInv, Typed, DiskType, ManifestFile, Readable
    <3> QED
      BY <2>7, <3>1
  <2>9. \A e \in ackedSync' : e \in lost' \/ InTables(e, DiskVersion)'
    BY <2>4, <2>7
  <2>10. ViewInv'
    BY <2>8, <2>9, OneView
  <2> QED
    BY <2>5, <2>10 DEF SyncInv
<1> QED
  BY <1>2, <1>3

LEMMA ApplyInstallSync ==
  ASSUME TypeInv, TypeInv', DurableInv, DurableInv', SyncInv, ApplyInstall
  PROVE  SyncInv'
<1>1. /\ apply.step = "install" /\ apply.by # "none" /\ version' = VersionAfter
      /\ log_number_' = apply.edit.log /\ apply' = NoApply /\ phase' = "up"
      /\ UNCHANGED <<logs, tables, logfile_number_, write, lost, ackedSync>>
  BY DEF ApplyInstall, TypeInv, Control, ApplyControl
<1>2. ViewInv'
  <2>1. apply'.step = "none"
    BY <1>1, NoTypes
  <2> QED
    BY <1>1, <2>1, UpViews DEF DurableInv
<1>3. \A e : InTables(e, VersionAfter) => InTables(e, version)'
  BY <1>1 DEF InTables
<1>4. /\ phase = "apply" => write.step = "idle"
      /\ phase = "apply" \/ phase = "up"
  BY <1>1, NoTypes DEF TypeInv, Control, ApplyControl, PhaseControl, Typed, CallType
<1>5. \A e \in ackedSync : ServedSync(e)'
  <2>1. CASE apply.by = "open"
    <3>1. phase = "apply"
      BY <2>1 DEF TypeInv, Control, ApplyControl
    <3> QED
      BY <1>1, <1>3, <3>1 DEF SyncInv, SyncedInv, ServedSync
  <2>2. CASE apply.by = "flush"
    <3>1. phase = "up" /\ mem_' = mem_
      BY <2>2 DEF TypeInv, Control, ApplyControl, ApplyInstall
    <3>2. /\ apply.edit.add = {flush} /\ apply.edit.del = {}
          /\ flush \in DOMAIN tables /\ tables[flush].data = imm_
      BY <2>2 DEF DurableInv, UpParts, CallsInv
    <3>3. VersionAfter = version \cup {flush}
      BY <3>2 DEF VersionAfter
    <3>4. \A e : InTables(e, version) \/ e \in imm_ => InTables(e, VersionAfter)
      BY <3>2, <3>3 DEF InTables
    <3> QED
      BY <1>1, <1>3, <3>1, <3>4 DEF SyncInv, SyncedInv, ServedSync
  <2>3. CASE apply.by = "compact"
    <3>1. phase = "up" /\ mem_' = mem_ /\ imm_' = imm_
      BY <2>3 DEF TypeInv, Control, ApplyControl, ApplyInstall
    <3>2. /\ apply.edit.add = compact.outputs /\ apply.edit.del = compact.inputs
          /\ apply.edit.log = log_number_ /\ compact.todo = {}
          /\ \A n \in compact.inputs : ~tables[n].damaged
      BY <2>3 DEF DurableInv, UpParts, CallsInv
    <3>3. VersionAfter = (version \ compact.inputs) \cup compact.outputs
      BY <3>2 DEF VersionAfter
    <3>4. \A e : InTables(e, version) => InTables(e, VersionAfter)
      BY <3>2, <3>3 DEF InTables, DurableInv, UpParts, DataInv
    <3> QED
      BY <1>1, <1>3, <3>1, <3>2, <3>4 DEF SyncInv, SyncedInv, ServedSync
  <2> QED
    BY <1>1, <2>1, <2>2, <2>3 DEF TypeInv, Typed, CallType
<1>6. SyncedInv'
  BY <1>1, <1>4, <1>5 DEF SyncInv, SyncedInv
<1> QED
  BY <1>2, <1>6 DEF SyncInv

-----------------------------------------------------------------------------
(* DB::Open().                                                             *)

LEMMA NewDBSync ==
  ASSUME TypeInv, TypeInv', DurableInv, DurableInv', SyncInv, NewDB \/ NewDBCurrent
  PROVE  SyncInv'
<1>1. /\ phase \in {"down", "newdb"} /\ phase' \in {"newdb", "down", "recover"}
      /\ current = 0 /\ UNCHANGED <<logs, ackedSync>>
  BY DEF NewDB, NewDBCurrent, DurableInv, DiskInv
<1>2. SyncedInv'
  BY <1>1, BeforeSync DEF SyncInv
<1>3. ViewInv'
  <2>1. CASE current' = 0
    BY <2>1 DEF ViewInv, Readable, DurableInv, DiskInv
  <2>2. CASE current' # 0
    <3>1. NewDBCurrent /\ current' = 1 /\ manifests' = manifests /\ phase = "newdb"
      BY <1>1, <2>2 DEF NewDB, NewDBCurrent
    <3>2. ackedSync' = {} /\ manifests'[1] = FirstManifest
      BY <1>1, <3>1 DEF DurableInv, DiskInv, TypeInv, Typed, GhostType
    <3>3. manifests'[1].synced = 0 /\ Len(manifests'[1].edits) = 1
      BY <3>2 DEF FirstManifest
    <3>4. MetaEdits(View(0)') = {}
      BY <3>3, SubSeqEmpty DEF View, MetaEdits
    <3>5. \A k \in manifests'[current'].synced..Len(manifests'[current'].edits) :
            MetaEdits(View(k)') = {} \/ k = Len(manifests'[current'].edits)
      BY <3>1, <3>3, <3>4
    <3> QED
      BY <3>2, <3>5, OneView
  <2> QED
    BY <2>1, <2>2
<1> QED
  BY <1>2, <1>3 DEF SyncInv

\* Steps of Recover() that change no file.
LEMMA RecoverSync ==
  ASSUME TypeInv, TypeInv', DurableInv, SyncInv, RecoverManifest \/ ReplayLog \/ ReplayEnd
  PROVE  SyncInv'
<1>1. /\ phase' \in {"down", "replay", "read"}
      /\ UNCHANGED <<logs, tables, manifests, current, lost, ackedSync>>
  BY DEF RecoverManifest, ReplayLog, ReplayEnd, OpenFails, Fresh
<1>2. SyncedInv'
  BY <1>1, BeforeSync DEF SyncInv
<1>3. ViewInv'
  BY <1>1, ViewSame
<1> QED
  BY <1>2, <1>3 DEF SyncInv

\* A table of RecoverLogFile() has a number that no record of the MANIFEST has.
LEMMA ReplayTableSync ==
  ASSUME TypeInv, TypeInv', DurableInv, SyncInv, ReplayTable
  PROVE  SyncInv'
<1>1. /\ phase = "read" /\ phase' = "read"
      /\ UNCHANGED <<logs, manifests, current, lost, ackedSync>>
  BY DEF ReplayTable
<1>2. \/ \E data : tables' = With(tables, next_file_number_, NewTable(data, FALSE))
      \/ tables' = Without(tables, {next_file_number_})
  BY DEF ReplayTable
<1>3. \A n \in DOMAIN tables :
        n # next_file_number_ => n \in DOMAIN tables' /\ tables'[n] = tables[n]
  BY <1>2 DEF With, Without
<1>4. Readable /\ DiskMeta.next < next_file_number_
  BY <1>1 DEF DurableInv, DiskInv, OpenParts, OpenInv, Opening
<1>5. DiskMeta.next \in Nat
  BY <1>4, DiskMetaType DEF DurableInv
<1>6. \A n \in DOMAIN tables : n < DiskMeta.next => n # next_file_number_
  BY <1>4, <1>5, Numbers
<1>7. SyncedInv'
  BY <1>1, BeforeSync DEF SyncInv
<1>8. ViewInv'
  BY <1>1, <1>3, <1>6, ViewSame
<1> QED
  BY <1>7, <1>8 DEF SyncInv

\* The new tables have every synced record of the log files, up to what was passed over.
LEMMA OpenLogSync ==
  ASSUME TypeInv, TypeInv', DurableInv, SyncInv, OpenLog
  PROVE  SyncInv'
<1>1. /\ phase = "replay" /\ replay.logs = {} /\ replay.rest = {}
      /\ UNCHANGED <<tables, manifests, current, ackedSync>>
  BY DEF OpenLog, TypeInv, Control, PhaseControl
<1>2. CASE phase' # "apply"
  <2>1. phase' = "down" /\ logs' = logs /\ lost' = lost
    BY <1>2 DEF OpenLog, OpenFails, Fresh
  <2>2. Readable' = Readable
    BY <1>1, DiskSame
  <2> QED
    BY <1>1, <2>1, <2>2, GoneSync
<1>3. CASE phase' = "apply"
  <2>1. /\ logs' = With(logs, next_file_number_, [data |-> {}, synced |-> {}])
        /\ apply' = StartApply("open", replay.add, {}, next_file_number_,
                               next_file_number_ + 1, last_sequence_')
        /\ lost' = lost \cup replay.passed /\ version' = version
    BY <1>3 DEF OpenLog, OpenFails
  <2>2. Readable /\ version = DiskVersion /\ DiskMeta.next < next_file_number_
    BY <1>1 DEF DurableInv, DiskInv, OpenParts, OpenInv, Opening
  <2>3. \A n \in DiskLogs :
          /\ n < next_file_number_
          /\ \A e \in logs[n].data : e \in replay.passed \/ InTables(e, replay.add)
    BY <1>1 DEF DurableInv, OpenParts, ReplayInv
  <2>4. DiskLogs = {n \in DOMAIN logs : n >= DiskMeta.log}
    BY DEF DiskLogs, DiskMeta
  <2>5. next_file_number_ \notin DOMAIN logs
    <3>1. DiskMeta.next \in Nat /\ DiskMeta.log \in Nat /\ DiskMeta.log < DiskMeta.next
      BY <2>2, DiskMetaType DEF DurableInv, DiskInv
    <3>2. next_file_number_ >= DiskMeta.log
      BY <2>2, <3>1, Numbers
    <3> QED
      BY <2>3, <2>4, <3>2, Numbers
  <2>6. /\ \A n \in DOMAIN logs : n \in DOMAIN logs' /\ logs'[n] = logs[n]
        /\ \A n \in DOMAIN logs' :
             n \in DOMAIN logs \/ (logs'[n].synced = {} /\ logs'[n].data = {})
    BY <2>1, <2>5 DEF With
  <2>7. \A n \in DOMAIN logs : logs[n].synced \subseteq logs[n].data
    BY DEF SyncInv, SyncedInv
  <2>8. \A n \in DOMAIN logs' : logs'[n].synced \subseteq logs'[n].data
    BY <2>6, <2>7
  <2>9. VersionAfter' = version \cup replay.add
    <3>1. apply'.edit.add = replay.add /\ apply'.edit.del = {}
      BY <2>1 DEF StartApply
    <3> QED
      BY <2>1, <3>1 DEF VersionAfter
  <2>10. \A e : InTables(e, version) \/ InTables(e, replay.add)
                  => InTables(e, VersionAfter)'
    BY <1>1, <2>9 DEF InTables
  <2>11. GoodView(manifests[current].edits)
    BY <2>2, WholeView
  <2>12. ASSUME NEW e \in ackedSync
         PROVE  e \in lost' \/ InTables(e, VersionAfter)'
    <3>1. e \in lost \/ InTables(e, version) \/ InSyncedLog(e, DiskMeta.log)
      BY <2>2, <2>11 DEF GoodView, DiskMeta, DiskVersion
    <3>2. CASE InSyncedLog(e, DiskMeta.log)
      <4>1. PICK n \in DOMAIN logs : n >= DiskMeta.log /\ e \in logs[n].synced
        BY <3>2 DEF InSyncedLog
      <4>2. n \in DiskLogs /\ e \in logs[n].data
        BY <2>4, <2>7, <4>1
      <4> QED
        BY <2>1, <2>3, <2>10, <4>2
    <3> QED
      BY <2>1, <2>10, <3>1, <3>2
  <2>13. SyncedInv'
    BY <1>1, <1>3, <2>8, <2>12 DEF SyncedInv
  <2>14. ViewInv'
    BY <1>1, <2>1, <2>6, ViewSame
  <2> QED
    BY <2>13, <2>14 DEF SyncInv
<1> QED
  BY <1>2, <1>3

-----------------------------------------------------------------------------
(* The invariant of every kind of crash.                                   *)

LEMMA SyncInit == Init => SyncInv
<1> SUFFICES ASSUME Init PROVE SyncInv
  OBVIOUS
<1>1. DOMAIN logs = {} /\ phase = "down" /\ ~Readable
  BY DEF Init, Readable
<1> QED
  BY <1>1 DEF SyncInv, SyncedInv, ViewInv

LEMMA SyncStutter ==
  ASSUME TypeInv, TypeInv', DurableInv, SyncInv, UNCHANGED vars
  PROVE  SyncInv'
<1> USE DEF vars
<1>1. VersionAfter' = VersionAfter
  BY DEF VersionAfter
<1>2. \A e : /\ InTables(e, version)' <=> InTables(e, version)
             /\ InTables(e, VersionAfter)' <=> InTables(e, VersionAfter)
  BY <1>1 DEF InTables
<1>3. SyncedInv'
  BY <1>2 DEF SyncInv, SyncedInv, ServedSync
<1>4. ViewInv'
  BY ViewSame
<1> QED
  BY <1>3, <1>4 DEF SyncInv

LEMMA SyncNext ==
  ASSUME TypeInv, TypeInv', DurableInv, DurableInv', SyncInv, Straight, astray' = {},
         astray = {}, [Next]_vars
  PROVE  SyncInv'
<1>1. CASE UNCHANGED vars
  BY <1>1, SyncStutter
<1>2. CASE \/ WriteBegin \/ SwitchMemTable \/ WriteLog \/ WriteSync \/ WriteEnd
           \/ IterBegin \/ IterEnd \/ FlushBegin \/ FlushBuild
           \/ CompactBegin \/ CompactOpen \/ CompactFinish \/ CompactError
           \/ CompactInstall
  BY <1>2, WriteBeginSync, SwitchMemTableSync, WriteLogSync, WriteSyncSync, WriteEndSync,
     BackgroundSync
<1>3. CASE ApplyStep \/ DeleteFile
  BY <1>3, ApplyCreateSync, ApplyAppendSync, ApplySyncSync, ApplyCurrentSync,
     ApplyInstallSync, DeleteFileSync DEF ApplyStep
<1>4. CASE OpenStep
  BY <1>4, NewDBSync, RecoverSync, ReplayTableSync, OpenLogSync DEF OpenStep
<1>5. CASE Close \/ ProcessCrash \/ TornCrash \/ MachineCrash
  BY <1>5, CloseSync, TornCrashSync, MachineCrashSync
<1>6. Rest => UNCHANGED vars
  BY DEF Rest
<1> QED
  BY <1>1, <1>2, <1>3, <1>4, <1>5, <1>6 DEF Next

-----------------------------------------------------------------------------
(* The theorems.                                                           *)

LEMMA DurableInit == Init => DurableInv
<1> SUFFICES ASSUME Init PROVE DurableInv
  OBVIOUS
<1>1. /\ apply.by = "none" /\ apply.step = "none"
      /\ compact.todo = {} /\ compact.inputs = {}
  BY NoTypes DEF Init, NoCompaction
<1>2. DiskInv
  BY DEF Init, DiskInv, Readable
<1>3. OpenParts
  BY DEF Init, OpenParts, OpenInv, ReplayInv, ApplyOpenInv, Opening
<1>4. EditInv /\ CurrentInv
  BY <1>1 DEF Init, EditInv, CurrentInv, Appended
<1>5. UpParts
  BY <1>1 DEF Init, UpParts, TablesInv, CallsInv, DoomedInv, LogsInv, DataInv
<1>6. AckedInv
  BY DEF Init, AckedInv
<1> QED
  BY <1>2, <1>3, <1>4, <1>5, <1>6 DEF DurableInv

\* A step that changes nothing.
LEMMA DurableStutter ==
  ASSUME DurableInv, UNCHANGED vars
  PROVE  DurableInv'
<1> USE DEF vars
<1>1. /\ DiskVersion' = DiskVersion /\ DiskMeta' = DiskMeta /\ Readable' = Readable
      /\ DiskLogs' = DiskLogs /\ VersionAfter' = VersionAfter
      /\ SnapshotEdit' = SnapshotEdit
      /\ Opening' = Opening /\ Appended' = Appended
  BY DiskSame DEF DiskLogs, VersionAfter, SnapshotEdit, Opening, Appended
<1>2. \A e : OnDisk(e)' = OnDisk(e)
  BY OnDiskSame
<1>3. DiskInv'
  BY <1>1 DEF DurableInv, DiskInv, TablesUpTo
<1>4. OpenInv' /\ ReplayInv' /\ ApplyOpenInv'
  BY <1>1 DEF DurableInv, OpenParts, OpenInv, ReplayInv, ApplyOpenInv, TablesUpTo,
              InTables
<1>5. EditInv' /\ CurrentInv'
  BY <1>1 DEF DurableInv, EditInv, CurrentInv, TablesUpTo
<1>6. UpParts'
  BY DEF DurableInv, UpParts, TablesInv, CallsInv, DoomedInv, LogsInv, DataInv,
         TablesUpTo, InTables
<1>7. AckedInv'
  BY <1>1, <1>2 DEF DurableInv, AckedInv, InTables
<1> QED
  BY <1>3, <1>4, <1>5, <1>6, <1>7 DEF DurableInv, OpenParts

LEMMA DurableNext ==
  ASSUME TypeInv, TypeInv', DurableInv, SyncInv, Straight, astray' = {}, astray = {},
         [Next]_vars
  PROVE  DurableInv'
<1>1. CASE UNCHANGED vars
  BY <1>1, DurableStutter
<1>2. CASE \/ WriteBegin \/ SwitchMemTable \/ WriteLog \/ WriteSync \/ WriteEnd
           \/ IterBegin \/ IterEnd \/ FlushBegin \/ FlushBuild
           \/ CompactBegin \/ CompactOpen \/ CompactFinish \/ CompactError
           \/ CompactInstall
  BY <1>2, WriteBeginDurable, SwitchMemTableDurable, WriteLogDurable, WriteSyncDurable,
     WriteEndDurable, IterDurable, FlushBeginDurable, FlushBuildDurable,
     CompactBeginDurable, CompactOpenDurable, CompactFinishDurable,
     CompactErrorDurable, CompactInstallDurable
<1>3. CASE ApplyStep \/ DeleteFile
  BY <1>3, ApplyCreateDurable, ApplyAppendDurable, ApplySyncDurable,
     ApplyCurrentDurable, ApplyInstallDurable, DeleteFileDurable DEF ApplyStep
<1>4. CASE OpenStep
  BY <1>4, NewDBDurable, NewDBCurrentDurable, RecoverManifestDurable,
     ReplayLogDurable, ReplayTableDurable, ReplayEndDurable, OpenLogDurable
     DEF OpenStep
<1>5. CASE Close \/ ProcessCrash \/ TornCrash \/ MachineCrash
  BY <1>5, CloseDurable, TornCrashDurable, MachineCrashDurable
<1>6. Rest => UNCHANGED vars
  BY DEF Rest
<1> QED
  BY <1>1, <1>2, <1>3, <1>4, <1>5, <1>6 DEF Next

\* While no LogAndApply() of an open DB has failed to write or sync its record: at every
\* step of a write, a flush, a compaction, an open and a clean-up the directory is what
\* the fields of DBImpl and VersionSet say, or ahead of them by the edit of LogAndApply()
\* (version_set.cpp:732-808), and each cut of the MANIFEST and of the log files that a
\* crash of the machine may make leaves the tables, numbers and sync writes that
\* DB::Open() needs.
THEOREM DurableInvariant == Spec => [](astray = {} => DurableInv /\ SyncInv)
<1> DEFINE IInv == astray = {} => DurableInv /\ SyncInv
<1>1. Init => Straight /\ IInv
  BY DurableInit, SyncInit DEF Init, Straight
<1>2. TypeInv /\ [Next]_vars /\ Straight => Straight'
  BY AstrayGrows
<1>3. TypeInv /\ TypeInv' /\ Straight /\ IInv /\ [Next]_vars => IInv'
  <2> SUFFICES ASSUME TypeInv, TypeInv', Straight, IInv, [Next]_vars, astray' = {}
               PROVE  DurableInv' /\ SyncInv'
    OBVIOUS
  <2>1. astray = {}
    BY AstrayGrows
  <2>2. DurableInv'
    BY <2>1, DurableNext
  <2> QED
    BY <2>1, <2>2, SyncNext
<1> QED
  BY <1>1, <1>2, <1>3, RecoveryTypeInvariant, PTL DEF Spec

\* What the tables that can be read hold.
LEMMA DataIs ==
  ASSUME NEW S, NEW e
  PROVE  e \in DataOf(S) <=>
           \E n \in S \cap DOMAIN tables : ~tables[n].damaged /\ e \in tables[n].data
BY DEF DataOf, Damaged

\* What is in the files that DB::Open() reads: a table that can be read, or a log file.
LEMMA FilesHold ==
  ASSUME Readable, NEW e
  PROVE  e \in Recoverable \cup Unread <=>
           e \in DataOf(DiskVersion) \/ \E n \in DiskLogs : e \in logs[n].data
<1> DEFINE all == UNION {logs[n].data : n \in DiskLogs}
<1>a. Recoverable = IF Readable THEN DataOf(DiskVersion) \cup (all \ hidden) ELSE {}
  BY DEF Recoverable
<1>b. Unread = IF Readable THEN hidden \cap all ELSE {}
  BY DEF Unread
<1> HIDE DEF all
<1>0. Recoverable = DataOf(DiskVersion) \cup (all \ hidden)
  BY <1>a
<1>1. Unread = hidden \cap all
  BY <1>b
<1>2. e \in all <=> \E n \in DiskLogs : e \in logs[n].data
  BY Zenon DEF all
<1> QED
  BY <1>0, <1>1, <1>2

\* What DB::Open() would read, when nothing is damaged.
LEMMA RecoverableIs ==
  ASSUME ProcessOnly, DurableInv, current # 0, NEW e
  PROVE  e \in Recoverable \cup Unread <=> OnDisk(e)
<1>1. Readable /\ \A n \in DOMAIN tables : ~tables[n].damaged
  BY DEF DurableInv, DiskInv
<1>2. e \in DataOf(DiskVersion) <=> InTables(e, DiskVersion)
  BY <1>1, DataIs DEF InTables
<1> QED
  BY <1>1, <1>2, FilesHold DEF OnDisk

\* What an open DB serves of tables that can be read, DB::Open finds again, or it stands
\* in a log file behind a failed append.
LEMMA ServedRecoverable ==
  ASSUME TypeInv, DurableInv, phase = "up", NEW e \in Visible
  PROVE  e \in Recoverable \cup Unread
<1> USE DEF DurableInv, UpParts
<1>0. /\ Readable /\ logfile_number_ \in DOMAIN logs /\ log_number_ \in DOMAIN logs
      /\ log_number_ <= logfile_number_
      /\ mem_ \subseteq logs[logfile_number_].data
      /\ imm_ \subseteq logs[log_number_].data
  BY Numbers DEF DiskInv, LogsInv
<1>1. /\ DiskLogs = {n \in DOMAIN logs : n >= DiskMeta.log}
      /\ \A n \in DiskLogs : logs[n].data \subseteq Recoverable \cup Unread
      /\ DataOf(DiskVersion) \subseteq Recoverable
  <2>1. DiskLogs = {n \in DOMAIN logs : n >= DiskMeta.log}
    BY DEF DiskLogs, DiskMeta
  <2>2. \A n \in DiskLogs : logs[n].data \subseteq Recoverable \cup Unread
    BY <1>0, FilesHold
  <2>3. DataOf(DiskVersion) \subseteq Recoverable
    BY <1>0 DEF Recoverable
  <2> QED
    BY <2>1, <2>2, <2>3
<1>2. e \in mem_ \/ e \in imm_ \/ e \in DataOf(version)
  BY DEF Visible
<1>3. CASE ~Appended
  <2>1. DiskMeta.log = log_number_ /\ DiskVersion = version
    BY <1>3 DEF CurrentInv
  <2>2. log_number_ \in DiskLogs /\ logfile_number_ \in DiskLogs
    BY <1>0, <1>1, <2>1, Numbers
  <2> QED
    BY <1>0, <1>1, <1>2, <2>1, <2>2
<1>4. CASE Appended
  <2>1. /\ DiskMeta = apply.edit /\ DiskVersion = VersionAfter
        /\ apply.by = "flush" \/ apply.by = "compact"
    BY <1>4 DEF CurrentInv, Appended, TypeInv, Control, ApplyControl, Typed, CallType
  <2>2. CASE apply.by = "flush"
    <3>1. /\ apply.edit.add = {flush} /\ apply.edit.del = {}
          /\ apply.edit.log = logfile_number_
          /\ flush \in DOMAIN tables /\ tables[flush].data = imm_
          /\ ~tables[flush].damaged
      BY <2>2 DEF CallsInv
    <3>2. logfile_number_ \in DiskLogs
      BY <1>0, <1>1, <2>1, <3>1, Numbers
    <3>3. DiskVersion = version \cup {flush}
      BY <2>1, <3>1 DEF VersionAfter
    <3>4. e \in imm_ \/ e \in DataOf(version) => e \in DataOf(DiskVersion)
      BY <3>1, <3>3, DataIs
    <3> QED
      BY <1>0, <1>1, <1>2, <3>2, <3>4
  <2>3. CASE apply.by = "compact"
    <3>1. /\ apply.edit.add = compact.outputs /\ apply.edit.del = compact.inputs
          /\ apply.edit.log = log_number_ /\ compact.todo = {}
      BY <2>3 DEF CallsInv
    <3>2. log_number_ \in DiskLogs /\ logfile_number_ \in DiskLogs
      BY <1>0, <1>1, <2>1, <3>1, Numbers
    <3>3. DiskVersion = (version \ compact.inputs) \cup compact.outputs
      BY <2>1, <3>1 DEF VersionAfter
    <3>4. \A n \in compact.outputs : n \in DOMAIN tables /\ ~tables[n].damaged
      BY DEF TablesInv
    <3>5. \A n \in compact.inputs :
            tables[n].damaged \/ \A f \in tables[n].data : InTables(f, compact.outputs)
      BY <3>1 DEF DataInv
    <3>6. InTables(e, compact.outputs) => e \in DataOf(DiskVersion)
      BY <3>3, <3>4, DataIs DEF InTables
    <3>7. e \in DataOf(version) => e \in DataOf(DiskVersion)
      BY <3>3, <3>5, <3>6, DataIs
    <3> QED
      BY <1>0, <1>1, <1>2, <3>2, <3>7
  <2> QED
    BY <2>1, <2>2, <2>3
<1> QED
  BY <1>3, <1>4

\* Every table that the MANIFEST named by CURRENT lists is in the directory: a crash of
\* the process or the machine at any step of DeleteObsoleteFiles() (db_impl.cpp:203-250),
\* of a flush or of a compaction loses no table file that DB::Open() needs.  This is for
\* as long as no LogAndApply() of an open DB failed in AddRecord() or Sync() and no
\* process was killed inside that AddRecord(): afterwards the tables of its edit may be
\* missing (version_set.cpp:776-800).
THEOREM LiveTablesKept == Spec => [](astray = {} => LiveTablesExist)
<1>1. TypeInv /\ DurableInv => LiveTablesExist
  <2> SUFFICES ASSUME TypeInv, DurableInv PROVE LiveTablesExist
    OBVIOUS
  <2>1. TypeOK
    BY TypedIsTypeOK DEF TypeInv
  <2> QED
    BY <2>1 DEF LiveTablesExist, DurableInv, DiskInv
<1> QED
  BY <1>1, DurableInvariant, RecoveryTypeInvariant, PTL

\* A process crash at any moment, also in NewDB(), LogAndApply() or
\* DeleteObsoleteFiles(), leaves a CURRENT that names a MANIFEST which
\* VersionSet::Recover() accepts (version_set.cpp:810-923), unless an AddRecord() or
\* Sync() of the MANIFEST in use failed or was what the process was killed in.
THEOREM Reopens ==
  ASSUME ProcessOnly
  PROVE  Spec => []CanReopen
<1>1. (astray = {} => DurableInv /\ SyncInv) => CanReopen
  BY DEF DurableInv, DiskInv, CanReopen
<1> QED
  BY <1>1, DurableInvariant, PTL

\* No acknowledged write is lost when the process crashes, sync or not: at every step
\* the files that DB::Open() would read hold it, with the exceptions that the property
\* names: a record behind a failed append, what DB::Open() gave up, and a MANIFEST in use
\* that could not be written (leveldb/options.h:125-127, db_impl.cpp:252-423).
THEOREM AckedAreRecoverable ==
  ASSUME ProcessOnly
  PROVE  Spec => []AckedRecoverable
<1>1. TypeInv /\ (astray = {} => DurableInv /\ SyncInv) => AckedRecoverable
  <2> SUFFICES ASSUME TypeInv, DurableInv, NEW e \in acked, e \notin lost
               PROVE  e \in Recoverable \cup Unread
    BY DEF AckedRecoverable
  <2>1. current # 0
    BY DEF DurableInv, DiskInv
  <2>2. CASE phase = "up"
    <3>1. OnDisk(e)
      BY <2>2, ServedOnDisk DEF DurableInv, AckedInv
    <3> QED
      BY <2>1, <3>1, RecoverableIs
  <2>3. CASE phase # "up"
    <3>1. OnDisk(e)
      BY <2>3 DEF DurableInv, AckedInv
    <3> QED
      BY <2>1, <3>1, RecoverableIs
  <2> QED
    BY <2>2, <2>3
<1> QED
  BY <1>1, DurableInvariant, RecoveryTypeInvariant, PTL

\* An open DB serves every acknowledged write of every incarnation
\* (db_impl.cpp:942-987), up to what DB::Open() gave up and to a MANIFEST in use that
\* could not be written.
THEOREM AckedAreVisible ==
  ASSUME ProcessOnly
  PROVE  Spec => []AckedVisible
<1>1. (astray = {} => DurableInv /\ SyncInv) => AckedVisible
  <2> SUFFICES ASSUME DurableInv, phase = "up", NEW e \in acked, e \notin lost
               PROVE  e \in Visible
    BY DEF AckedVisible
  <2>1. /\ \A n \in DOMAIN tables : ~tables[n].damaged
        /\ e \in mem_ \cup imm_ \/ InTables(e, version)
    BY DEF DurableInv, DiskInv, AckedInv
  <2>2. InTables(e, version) => e \in DataOf(version)
    BY <2>1, DataIs DEF InTables
  <2> QED
    BY <2>1, <2>2 DEF Visible
<1> QED
  BY <1>1, DurableInvariant, PTL

\* What an open DB serves is in files that DB::Open() would read, so that a crash of the
\* process takes back nothing that a Get() returned (db_impl.cpp:1018-1078, 203-250);
\* also in a DB that was opened after a crash of the machine.  But for records behind a
\* failed append, and unless a MANIFEST in use could not be written.
THEOREM VisibleIsRecoverable == Spec => []VisibleRecoverable
<1>1. TypeInv /\ (astray = {} => DurableInv /\ SyncInv) => VisibleRecoverable
  BY ServedRecoverable DEF VisibleRecoverable
<1> QED
  BY <1>1, DurableInvariant, RecoveryTypeInvariant, PTL

\* A sync write that returned OK is in the files after any crash, also of the machine:
\* its fsynced record stays in a log file that DB::Open() reads, until a table that the
\* synced MANIFEST lists has it (db_impl.cpp:1048-1050, version_set.cpp:776-779).  It is
\* lost only with a table that the crash damaged, or by an error that DB::Open() passed;
\* it may stand behind a failed append; and a MANIFEST in use must have been written.
THEOREM SyncLossOnlyInTables == Spec => []SyncLossInTables
<1>1. TypeInv /\ (astray = {} => DurableInv /\ SyncInv) => SyncLossInTables
  <2> SUFFICES ASSUME TypeInv, DurableInv, SyncInv, Readable,
                      NEW e \in ackedSync, e \notin lost
               PROVE  \/ e \in Recoverable \cup Unread
                      \/ \E n \in Damaged(DiskVersion) : e \in tables[n].data
    BY DEF SyncLossInTables
  <2>1. InTables(e, DiskVersion) \/ InSyncedLog(e, DiskMeta.log)
    BY WholeView DEF GoodView, DiskVersion, DiskMeta
  <2>2. CASE InTables(e, DiskVersion)
    <3>1. PICK n \in DiskVersion \cap DOMAIN tables : e \in tables[n].data
      BY <2>2 DEF InTables
    <3>2. CASE tables[n].damaged
      BY <3>1, <3>2 DEF Damaged
    <3>3. CASE ~tables[n].damaged
      BY <3>1, <3>3, DataIs DEF Recoverable
    <3> QED
      BY <3>2, <3>3
  <2>3. CASE InSyncedLog(e, DiskMeta.log)
    <3>1. PICK n \in DOMAIN logs : n >= DiskMeta.log /\ e \in logs[n].synced
      BY <2>3 DEF InSyncedLog
    <3>2. n \in DiskLogs /\ e \in logs[n].data
      BY <3>1 DEF DiskLogs, DiskMeta, SyncInv, SyncedInv
    <3> QED
      BY <3>2, FilesHold
  <2> QED
    BY <2>1, <2>2, <2>3
<1> QED
  BY <1>1, DurableInvariant, RecoveryTypeInvariant, PTL

\* The tables of the current version, of a version an iterator holds, of a compaction's
\* inputs and outputs, and the log of mem_ stay in the directory while they are in use
\* (AddLiveFiles and pending_outputs_, db_impl.cpp:203-250), as long as no MANIFEST in
\* use could not be written.
THEOREM HeldFilesKept == Spec => [](astray = {} => HeldFilesExist)
<1>1. TypeInv /\ DurableInv => HeldFilesExist
  <2> SUFFICES ASSUME TypeInv, DurableInv PROVE HeldFilesExist
    OBVIOUS
  <2>1. CASE phase = "up"
    BY <2>1 DEF DurableInv, UpParts, TablesInv, LogsInv, HeldFilesExist
  <2>2. CASE phase # "up"
    <3>1. /\ held = {} /\ compact.base = {} /\ compact.outputs = {}
          /\ has_imm_ = FALSE /\ mem_ = {}
      BY <2>2 DEF TypeInv, Control, PhaseControl, NoCompaction
    <3>2. version \subseteq DOMAIN tables
      <4>1. CASE Opening
        <5>1. Readable
          BY <4>1 DEF Opening, DurableInv, DiskInv
        <5> QED
          BY <4>1, <5>1 DEF DurableInv, OpenParts, OpenInv, DiskInv
      <4>2. CASE phase = "apply" /\ apply.step = "install"
        BY <4>2 DEF DurableInv, OpenParts, ApplyOpenInv, EditInv, VersionAfter,
                    TypeInv, Control, ApplyControl
      <4>3. CASE phase \in {"down", "newdb", "recover"}
        BY <4>3 DEF TypeInv, Control, PhaseControl
      <4> QED
        BY <2>2, <4>1, <4>2, <4>3 DEF Opening, TypeInv, Typed, FieldType
    <3> QED
      BY <3>1, <3>2 DEF HeldFilesExist
  <2> QED
    BY <2>1, <2>2
<1> QED
  BY <1>1, DurableInvariant, RecoveryTypeInvariant, PTL

\* The sequence number of a new write is larger than every one in the files that
\* DB::Open() would read, after any number of crashes and after failed writes whose
\* record stayed in the log (db_impl.cpp:1058, 320-324); as long as no MANIFEST in use
\* could not be written.
THEOREM SequencesAreFresh == Spec => [](astray = {} => SequenceFresh)
<1>1. TypeInv /\ DurableInv => SequenceFresh
  <2> SUFFICES ASSUME TypeInv, DurableInv, phase = "up", write.step = "idle"
               PROVE  \A e \in Recoverable \cup mem_ \cup imm_ : e.seq <= last_sequence_
    BY DEF SequenceFresh
  <2> USE DEF DurableInv, UpParts
  <2>1. Readable
    BY DEF DiskInv
  <2>2. /\ logfile_number_ \in DOMAIN logs /\ log_number_ \in DOMAIN logs
        /\ \A e \in logs[logfile_number_].data : e.seq <= last_sequence_
        /\ \A e \in logs[log_number_].data : e.seq <= last_sequence_
        /\ log_number_ <= logfile_number_
        /\ mem_ \cup imm_ \subseteq
             logs[logfile_number_].data \cup logs[log_number_].data
    BY Numbers DEF LogsInv
  <2>3. log_number_ <= DiskMeta.log /\ TablesUpTo(DiskVersion, last_sequence_)
    <3>1. CASE ~Appended
      BY <3>1, Numbers DEF CurrentInv, DataInv
    <3>2. CASE Appended
      <4>1. /\ DiskMeta = apply.edit /\ DiskVersion = VersionAfter
            /\ apply.by \in {"flush", "compact"}
        BY <3>2 DEF CurrentInv, Appended, TypeInv, Control, ApplyControl, Typed, CallType
      <4>2. log_number_ <= DiskMeta.log
        BY <2>2, <4>1, Numbers DEF CallsInv
      <4>3. TablesUpTo(DiskVersion, last_sequence_)
        BY <4>1, Numbers, EntryNumbers DEF EditInv, TablesUpTo
      <4> QED
        BY <4>2, <4>3
    <3> QED
      BY <3>1, <3>2
  <2>4. \A n \in DiskLogs : n = log_number_ \/ n = logfile_number_
    <3>1. DiskMeta.log \in Nat
      BY <2>1, DiskMetaType
    <3>2. \A n \in DiskLogs : n \in DOMAIN logs /\ n >= DiskMeta.log
      BY DEF DiskLogs, DiskMeta
    <3> QED
      BY <2>3, <3>1, <3>2, Numbers DEF LogsInv
  <2>5. ASSUME NEW e, OnDisk(e)
        PROVE  e.seq <= last_sequence_
    BY <2>2, <2>3, <2>4, <2>5 DEF OnDisk, InTables, TablesUpTo
  <2>6. \A e \in Recoverable : OnDisk(e)
    BY <2>1, DataIs DEF Recoverable, OnDisk, InTables
  <2> QED
    BY <2>2, <2>5, <2>6
<1> QED
  BY <1>1, DurableInvariant, RecoveryTypeInvariant, PTL
=============================================================================
