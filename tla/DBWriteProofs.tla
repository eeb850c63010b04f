--------------------------- MODULE DBWriteProofs ---------------------------
(***************************************************************************)
(* Proofs about the write path, for any set of Write() calls and any value *)
(* of the limits.                                                          *)
(***************************************************************************)
EXTENDS DBWrite, FiniteSetTheorems, FunctionTheorems, TLAPS

(***************************************************************************)
(* The operations of a group of k writers are finitely many: each is a pair *)
(* of a queue position and an index bounded by MaxBatch.                   *)
(***************************************************************************)
LEMMA OpsFinite ==
  ASSUME TypeOK, NEW k \in 1..Len(writers_)
  PROVE  /\ IsFiniteSet(Ops(k))
         /\ Ops(k) \subseteq (1..k) \X (1..MaxBatch)
<1>1. \A j \in 1..k : writers_[j] \in Writer
  BY DEF TypeOK
<1>2. \A j \in 1..k : batch[writers_[j]] \in Int /\ batch[writers_[j]] <= MaxBatch
  <2>1. ASSUME NEW b \in Batches \cup {NullBatch} PROVE b \in Int /\ b <= MaxBatch
    BY SizesAssumption DEF NullBatch
  <2>2. \A w \in Writer : batch[w] \in Batches \cup {NullBatch}
    BY DEF TypeOK
  <2> QED
    BY <1>1, <2>1, <2>2
<1>3. Ops(k) \subseteq (1..k) \X (1..MaxBatch)
  BY <1>2, SizesAssumption DEF Ops
<1>4. k \in Int /\ MaxBatch \in Int
  BY SizesAssumption DEF TypeOK
<1>5. IsFiniteSet((1..k) \X (1..MaxBatch))
  <2>1. IsFiniteSet(1..k) /\ IsFiniteSet(1..MaxBatch)
    BY <1>4, FS_Interval
  <2> QED
    BY <2>1, FS_Product
<1> QED
  BY <1>3, <1>5, FS_Subset

(***************************************************************************)
(* The entries of a group are entries.                                     *)
(***************************************************************************)
LEMMA SequencedType ==
  ASSUME TypeOK, NEW k \in 1..Len(writers_)
  PROVE  /\ Sequenced(k, last_sequence) \in SUBSET Entry
         /\ Cardinality(Ops(k)) \in Nat
<1>1. ASSUME NEW o \in Ops(k)
      PROVE  Cardinality({p \in Ops(k) : Before(p, o)}) \in Nat
  <2>1. {p \in Ops(k) : Before(p, o)} \in SUBSET Ops(k)
    OBVIOUS
  <2>2. IsFiniteSet({p \in Ops(k) : Before(p, o)})
    BY <2>1, OpsFinite, FS_Subset
  <2> QED
    BY <2>2, FS_CardinalityType
<1>2. Cardinality(Ops(k)) \in Nat
  BY OpsFinite, FS_CardinalityType
<1>3. ASSUME NEW o \in Ops(k)
      PROVE  writers_[o[1]] \in Writer /\ o[2] \in Nat
  <2>1. o \in (1..k) \X (1..MaxBatch)
    BY OpsFinite
  <2>2. o[1] \in 1..k /\ o[2] \in 1..MaxBatch
    BY <2>1
  <2>3. \A j \in 1..Len(writers_) : writers_[j] \in Writer
    BY DEF TypeOK
  <2> QED
    BY <2>2, <2>3, SizesAssumption
<1>4. ASSUME NEW o \in Ops(k)
      PROVE  [seq |-> last_sequence + 1 + Cardinality({p \in Ops(k) : Before(p, o)}),
              w |-> writers_[o[1]], i |-> o[2]] \in Entry
  <2> DEFINE before == Cardinality({p \in Ops(k) : Before(p, o)})
  <2>1. before \in Nat /\ last_sequence \in Nat
    BY <1>1 DEF TypeOK
  <2> HIDE DEF before
  <2>2. last_sequence + 1 + before \in Nat
    BY <2>1
  <2> QED
    BY <1>3, <2>2 DEF Entry, before
<1> QED
  BY <1>2, <1>4 DEF Sequenced
-----------------------------------------------------------------------------
(* Type correctness.  TypeOK alone is not inductive: level0 stays a natural  *)
(* number because a compaction never has more inputs in level 0 than there   *)
(* are files (only the background thread removes files, a flush adds some).  *)

InputsPresent == inputs <= level0

\* A sequence stays one over the same set when it gets an element of it.
LEMMA AppendType ==
  ASSUME NEW S, NEW s \in Seq(S), NEW e \in S
  PROVE  Append(s, e) \in Seq(S)
OBVIOUS

\* An open DB with empty memtables, log file and queue has the types.
LEMMA InitType == Init => TypeOK
<1> SUFFICES ASSUME Init PROVE TypeOK
  OBVIOUS
<1>1. /\ mutex_ \in Writer \cup {"none", "background"}
      /\ pc \in [Writer -> Location]
      /\ batch \in [Writer -> Batches \cup {NullBatch}]
  BY DEF Init, Location
<1>2. /\ sync \in [Writer -> BOOLEAN]
      /\ done \in [Writer -> BOOLEAN]
      /\ status \in [Writer -> {"ok", "error"}]
      /\ force \in [Writer -> BOOLEAN]
      /\ allow_delay \in [Writer -> BOOLEAN]
      /\ tmp_batch_ \in BOOLEAN
  BY DEF Init
<1>3. /\ updates \in [Writer -> SUBSET Entry]
      /\ last_writer \in [Writer -> Writer]
      /\ seq \in [Writer -> Nat]
      /\ writers_ \in Seq(Writer)
      /\ log_ \in Seq(SUBSET Entry)
  BY DEF Init
<1>4. events \in 0..MaxEvents
  BY SizesAssumption DEF Init
<1> QED
  BY <1>1, <1>2, <1>3, <1>4 DEF Init, TypeOK

(***************************************************************************)
(* A step of a Write() call keeps the types.                               *)
(***************************************************************************)
LEMMA WriterType ==
  ASSUME TypeOK, NEW w \in Writer,
         Enqueue(w) \/ WriterStep(w) \/ SpuriousWake(w)
  PROVE  TypeOK'
<1> USE DEF TypeOK, Location, Holding, Logging, Waiting, Lock, Unlock, Locked,
            Spend, Outcome, queueVars, localVars, dataVars, bgVars, userVars
<1>1. CASE Enqueue(w)
  <2>1. PICK b \in Batches, s \in SyncOptions :
          /\ batch' = [batch EXCEPT ![w] = b]
          /\ sync' = [sync EXCEPT ![w] = s]
    BY <1>1 DEF Enqueue
  <2>2. batch' \in [Writer -> Batches \cup {NullBatch}]
    BY <2>1
  <2>3. s \in BOOLEAN
    BY SizesAssumption
  <2>4. sync' \in [Writer -> BOOLEAN]
    BY <2>1, <2>3
  <2> QED
    BY <1>1, <2>2, <2>4 DEF Enqueue
<1>2. CASE WaitTurn(w)
  <2>1. pc' = [pc EXCEPT ![w] = "cv_wait"] /\ mutex_' = "none"
    BY <1>2 DEF WaitTurn
  <2>2. UNCHANGED <<queueVars, localVars, dataVars, bgVars, userVars, events>>
    BY <1>2 DEF WaitTurn
  <2> QED
    BY <2>1, <2>2
<1>3. CASE Wake(w)
  BY <1>3 DEF Wake, ResumeAt
<1>4. CASE SpuriousWake(w)
  BY <1>4, SizesAssumption DEF SpuriousWake
<1>5. CASE ReturnDone(w)
  BY <1>5 DEF ReturnDone
<1>6. CASE Lead(w)
  BY <1>6 DEF Lead
<1>7. CASE BackgroundError(w)
  BY <1>7 DEF BackgroundError
<1>8. CASE Delay(w)
  BY <1>8 DEF Delay
<1>9. CASE DelayOver(w)
  BY <1>9 DEF DelayOver
<1>10. CASE Room(w)
  BY <1>10 DEF Room
<1>11. CASE WaitBackground(w)
  BY <1>11 DEF WaitBackground
<1>12. CASE SwitchMemTable(w)
  BY <1>12 DEF SwitchMemTable
<1>13. CASE SwitchFails(w)
  BY <1>13, SizesAssumption DEF SwitchFails
<1>14. CASE BuildBatchGroup(w)
  <2>1. PICK k \in 1..Len(writers_) :
          /\ last_writer' = [last_writer EXCEPT ![w] = writers_[k]]
          /\ updates' = [updates EXCEPT ![w] = Sequenced(k, last_sequence)]
          /\ seq' = [seq EXCEPT ![w] = last_sequence + Cardinality(Ops(k))]
          /\ tmp_batch_' = (tmp_batch_ \/ Appended(k))
    BY <1>14 DEF BuildBatchGroup
  <2>2. /\ Sequenced(k, last_sequence) \in SUBSET Entry
        /\ last_sequence + Cardinality(Ops(k)) \in Nat
        /\ writers_[k] \in Writer
    BY SequencedType
  <2>3. /\ last_writer' \in [Writer -> Writer]
        /\ updates' \in [Writer -> SUBSET Entry]
        /\ seq' \in [Writer -> Nat]
    BY <2>1, <2>2
  <2>4. tmp_batch_' \in BOOLEAN
    BY <2>1
  <2> QED
    BY <1>14, <2>3, <2>4 DEF BuildBatchGroup
<1>15. CASE AddRecord(w)
  <2>1. PICK ok \in BOOLEAN :
          /\ Outcome(ok)
          /\ log_' = Append(log_, updates[w]) \/ (~ok /\ log_' = log_)
          /\ status' = [status EXCEPT ![w] = IF ok THEN "ok" ELSE "error"]
          /\ pc' = [pc EXCEPT ![w] = AfterLog(w, ok)]
    BY <1>15 DEF AddRecord
  <2>2. AfterLog(w, ok) \in {"relock", "sync", "insert"}
    BY DEF AfterLog
  <2>3. log_' \in Seq(SUBSET Entry)
    <3>1. updates[w] \in SUBSET Entry /\ log_ \in Seq(SUBSET Entry)
      OBVIOUS
    <3>2. Append(log_, updates[w]) \in Seq(SUBSET Entry)
      BY <3>1, AppendType
    <3> QED
      BY <2>1, <3>1, <3>2
  <2>4. pc' \in [Writer -> Location]
    BY <2>1, <2>2
  <2>5. status' \in [Writer -> {"ok", "error"}] /\ events' \in 0..MaxEvents
    BY <2>1, SizesAssumption
  <2> QED
    BY <1>15, <2>3, <2>4, <2>5 DEF AddRecord
<1>16. CASE SyncLog(w)
  <2>1. synced' \in SUBSET Entry
    BY <1>16 DEF SyncLog
  <2>2. /\ status' \in [Writer -> {"ok", "error"}]
        /\ pc' \in [Writer -> Location]
        /\ events' \in 0..MaxEvents
    BY <1>16, SizesAssumption DEF SyncLog
  <2> QED
    BY <1>16, <2>1, <2>2 DEF SyncLog
<1>17. CASE Insert(w)
  BY <1>17 DEF Insert
<1>18. CASE InsertDone(w)
  BY <1>18 DEF InsertDone
<1>19. CASE Publish(w)
  <2>1. tmp_batch_' \in BOOLEAN /\ last_sequence' \in Nat
    BY <1>19 DEF Publish, TmpBatchAfter, LastSequenceAfter
  <2>2. pc' \in [Writer -> Location] /\ mutex_' \in Writer
    BY <1>19 DEF Publish
  <2> QED
    BY <1>19, <2>1, <2>2 DEF Publish
<1>20. CASE Pop(w)
  <2>1. PICK k \in 1..Len(writers_) :
          /\ writers_' = SubSeq(writers_, k + 1, Len(writers_))
          /\ done' = [x \in Writer |-> done[x] \/ x \in Members(w, k)]
          /\ status' = [x \in Writer |->
                          IF x \in Members(w, k) THEN status[w] ELSE status[x]]
          /\ pc' = [x \in Writer |->
                      IF x = w THEN "returned"
                      ELSE IF x \in Signalled(w, k) /\ pc[x] = "cv_wait"
                      THEN "cv_woken"
                      ELSE pc[x]]
    BY <1>20 DEF Pop
  <2>2. writers_' \in Seq(Writer)
    BY <2>1
  <2>3. done' \in [Writer -> BOOLEAN] /\ status' \in [Writer -> {"ok", "error"}]
    BY <2>1
  <2>4. pc' \in [Writer -> Location]
    BY <2>1
  <2> QED
    BY <1>20, <2>2, <2>3, <2>4 DEF Pop
<1> QED
  BY <1>1, <1>2, <1>3, <1>4, <1>5, <1>6, <1>7, <1>8, <1>9, <1>10, <1>11, <1>12,
     <1>13, <1>14, <1>15, <1>16, <1>17, <1>18, <1>19, <1>20 DEF WriterStep

(***************************************************************************)
(* A step of Get(), of the background thread or of ~DBImpl() keeps them.   *)
(***************************************************************************)
LEMMA OtherType ==
  ASSUME TypeOK, InputsPresent,
         \/ GetBegin
         \/ \E charged \in BOOLEAN : GetEnd(charged)
         \/ BackgroundStep
         \/ CloseBegin \/ CloseWoken
         \/ Quiescent
  PROVE  TypeOK' /\ InputsPresent'
<1> USE SizesAssumption
    DEF TypeOK, InputsPresent, Lock, Unlock, Critical, Spend, Outcome, queueVars,
        localVars, dataVars, bgVars, userVars
<1>1. CASE GetBegin
  BY <1>1 DEF GetBegin
<1>2. CASE \E charged \in BOOLEAN : GetEnd(charged)
  BY <1>2 DEF GetEnd, ShouldSchedule, Scheduled
<1>3. SignalAll(pc) \in [Writer -> Location]
  BY DEF SignalAll, Location, Waiting
<1>4. CASE BgFlush
  BY <1>4 DEF BgFlush
<1>5. CASE BgCompact
  BY <1>5 DEF BgCompact
<1>6. CASE BgNothing
  BY <1>6 DEF BgNothing
<1>7. CASE BgTableBuilt
  BY <1>3, <1>7 DEF BgTableBuilt, BgResumeMerge, BgFails, SignalClose
<1>8. CASE BgApplied
  <2>1. PICK ok \in BOOLEAN, big \in BOOLEAN :
          /\ Outcome(ok /\ ~big)
          /\ IF ok
             THEN /\ imm_' = {}
                  /\ has_imm_' = FALSE
                  /\ tables' = tables \cup imm_
                  /\ level0' \in IF imm_ = {} THEN {level0} ELSE {level0, level0 + 1}
                  /\ NewVersion(big)
             ELSE UNCHANGED <<imm_, has_imm_, tables, level0, seek, large, get>>
          /\ \/ merging /\ BgResumeMerge
             \/ ~merging /\ ok /\ Lock("background") /\ bg' = "finish"
                /\ UNCHANGED <<pc, close>>
             \/ ~merging /\ ~ok /\ BgFails
    BY <1>8 DEF BgApplied
  <2>2. /\ imm_' \in SUBSET Entry /\ tables' \in SUBSET Entry
        /\ has_imm_' \in BOOLEAN /\ seek' \in BOOLEAN /\ large' \in BOOLEAN
        /\ get' \in {"idle", "current", "old"}
    BY <2>1 DEF NewVersion
  <2>3. level0' \in Nat /\ level0 <= level0'
    BY <2>1
  <2>4. events' \in 0..MaxEvents
    BY <2>1
  <2>5. /\ mutex_' \in Writer \cup {"none", "background"}
        /\ pc' \in [Writer -> Location]
        /\ bg' \in {"merge", "finish", "sleep"}
        /\ close' \in {"open", "wait", "woken", "closed"}
    BY <1>3, <2>1 DEF BgResumeMerge, BgFails, SignalClose
  <2>6. UNCHANGED <<queueVars, localVars, last_sequence, log_, synced, mem_,
                    bg_compaction_scheduled_, bg_error_, merging, inputs,
                    shutting_down_>>
    BY <1>8 DEF BgApplied
  <2> QED
    BY <2>2, <2>3, <2>4, <2>5, <2>6
<1>9. CASE BgMerged
  <2>1. /\ mutex_' \in Writer \cup {"none", "background"}
        /\ pc' \in [Writer -> Location]
        /\ bg' \in {"install", "finish", "sleep"}
        /\ close' \in {"open", "wait", "woken", "closed"}
        /\ events' \in 0..MaxEvents
    BY <1>3, <1>9 DEF BgMerged, CompactionFails, BgFails, SignalClose
  <2>2. bg_error_' \in BOOLEAN /\ merging' \in BOOLEAN
    BY <1>9 DEF BgMerged, CompactionFails
  <2>3. inputs' \in Nat /\ inputs' <= level0
    BY <1>9 DEF BgMerged, CompactionFails
  <2>4. UNCHANGED <<queueVars, localVars, dataVars, level0, seek, large,
                    bg_compaction_scheduled_, get, shutting_down_>>
    BY <1>9 DEF BgMerged
  <2> QED
    BY <2>1, <2>2, <2>3, <2>4
<1>10. CASE BgInstalled
  <2>1. /\ mutex_' \in Writer \cup {"none", "background"}
        /\ pc' \in [Writer -> Location]
        /\ bg' \in {"finish", "sleep"}
        /\ close' \in {"open", "wait", "woken", "closed"}
        /\ events' \in 0..MaxEvents
    BY <1>3, <1>10 DEF BgInstalled, CompactionFails, BgFails, SignalClose
  <2>2. /\ bg_error_' \in BOOLEAN /\ merging' \in BOOLEAN
        /\ seek' \in BOOLEAN /\ large' \in BOOLEAN
        /\ get' \in {"idle", "current", "old"}
    BY <1>10 DEF BgInstalled, CompactionFails, NewVersion
  <2>3. level0' \in Nat /\ inputs' \in Nat /\ inputs' <= level0'
    BY <1>10 DEF BgInstalled, CompactionFails, Level0After
  <2>4. UNCHANGED <<queueVars, localVars, dataVars, bg_compaction_scheduled_,
                    shutting_down_>>
    BY <1>10 DEF BgInstalled
  <2> QED
    BY <2>1, <2>2, <2>3, <2>4
<1>11. CASE BgFinish
  BY <1>3, <1>11 DEF BgFinish, SignalClose, ShouldSchedule, Scheduled
<1>12. CASE CloseBegin
  BY <1>12 DEF CloseBegin
<1>13. CASE CloseWoken
  BY <1>13 DEF CloseWoken
<1>14. CASE Quiescent
  BY <1>14 DEF Quiescent, vars
<1>15. CASE BgSpin
  BY <1>15 DEF BgSpin
<1> QED
  BY <1>1, <1>2, <1>4, <1>5, <1>6, <1>7, <1>8, <1>9, <1>10, <1>11, <1>12,
     <1>13, <1>14, <1>15 DEF BackgroundStep

(***************************************************************************)
(* Every variable of the write path keeps its type; in particular level 0  *)
(* never has a negative number of files.                                   *)
(***************************************************************************)
THEOREM TypeCorrect == Spec => []TypeOK
<1>1. Init => TypeOK /\ InputsPresent
  BY InitType DEF Init, InputsPresent
<1>2. TypeOK /\ InputsPresent /\ [Next]_vars => TypeOK' /\ InputsPresent'
  <2> SUFFICES ASSUME TypeOK, InputsPresent, [Next]_vars
               PROVE  TypeOK' /\ InputsPresent'
    OBVIOUS
  <2>1. CASE \E w \in Writer : Enqueue(w) \/ WriterStep(w) \/ SpuriousWake(w)
    <3>1. PICK w \in Writer : Enqueue(w) \/ WriterStep(w) \/ SpuriousWake(w)
      BY <2>1
    <3>2. TypeOK'
      BY <3>1, WriterType
    <3>3. UNCHANGED bgVars
      BY <3>1 DEF WriterStep, Enqueue, SpuriousWake, WaitTurn, Wake, ReturnDone,
        Lead, BackgroundError, Delay, DelayOver, Room, WaitBackground,
        SwitchMemTable, SwitchFails, BuildBatchGroup, AddRecord, SyncLog, Insert,
        InsertDone, Publish, Pop
    <3> QED
      BY <3>2, <3>3 DEF InputsPresent, bgVars
  <2>2. CASE UNCHANGED vars
    BY <2>2 DEF vars, TypeOK, InputsPresent, queueVars, localVars, dataVars,
                bgVars, userVars
  <2> QED
    BY <2>1, <2>2, OtherType DEF Next
<1> QED
  BY <1>1, <1>2, PTL DEF Spec

-----------------------------------------------------------------------------
(* Only the writer at the front of the queue is past its turn.              *)

\* The queue invariant implies OneLogger: two leaders would be one front.
LEMMA QueueImpliesOneLogger == TypeOK /\ QueueInv => OneLogger
BY DEF TypeOK, QueueInv, OneLogger

\* The queue invariant holds of an empty queue and a free mutex_.
LEMMA QueueInit == Init => QueueInv
BY WriterAssumption
   DEF Init, QueueInv, InQueue, Leading, Holding, Logging

(***************************************************************************)
(* A step that keeps the queue, the done flags and mutex_ and moves no     *)
(* writer but from one wait to the wakeup of the same wait keeps QueueInv. *)
(***************************************************************************)
LEMMA QueueSignal ==
  ASSUME TypeOK, TypeOK', QueueInv,
         UNCHANGED <<writers_, done>>,
         \/ UNCHANGED mutex_
         \/ mutex_ \notin Writer /\ mutex_' \notin Writer,
         \A x \in Writer :
           \/ pc'[x] = pc[x]
           \/ pc[x] = "bg_wait" /\ pc'[x] = "bg_woken"
           \/ pc[x] = "cv_wait" /\ pc'[x] = "cv_woken"
  PROVE  QueueInv'
<1>1. \A x \in Writer : /\ pc'[x] \in Holding <=> pc[x] \in Holding
                        /\ Leading(x)' <=> Leading(x)
                        /\ pc'[x] \notin {"idle", "returned"} <=>
                             pc[x] \notin {"idle", "returned"}
  BY DEF Leading, Holding, Logging
<1>2. (\A x \in Writer : pc[x] \in Holding <=> mutex_ = x)'
  BY <1>1 DEF QueueInv
<1>3. \A x \in Writer : InQueue(x)' <=> InQueue(x)
  BY DEF InQueue
<1> QED
  BY <1>1, <1>2, <1>3 DEF QueueInv

(***************************************************************************)
(* A step of one writer that keeps the queue and the done flags, that moves *)
(* only this writer, between two places of the same kind (both before its  *)
(* turn, or both after it), and that hands mutex_ over as the places say.  *)
(***************************************************************************)
LEMMA QueueMove ==
  ASSUME TypeOK, TypeOK', QueueInv, NEW w \in Writer,
         UNCHANGED <<writers_, done>>,
         \A x \in Writer \ {w} : pc'[x] = pc[x],
         pc[w] \notin {"idle", "returned"}, pc'[w] \notin {"idle", "returned"},
         Leading(w)' => Leading(w) \/ (~done[w] /\ writers_ # << >> /\ writers_[1] = w),
         pc'[w] \in Holding => mutex_' = w,
         pc'[w] \notin Holding => mutex_' # w,
         \A x \in Writer \ {w} : mutex_' = x <=> mutex_ = x
  PROVE  QueueInv'
<1>1. (\A x \in Writer : pc[x] \in Holding <=> mutex_ = x)'
  BY DEF QueueInv
<1>2. (\A x \in Writer : InQueue(x) <=> pc[x] \notin {"idle", "returned"} /\ ~done[x])'
  <2>1. \A x \in Writer : InQueue(x)' <=> InQueue(x)
    BY DEF InQueue
  <2> QED
    BY <2>1 DEF QueueInv
<1>3. (\A x \in Writer :
         Leading(x) => ~done[x] /\ writers_ # << >> /\ writers_[1] = x)'
  <2>1. \A x \in Writer \ {w} : Leading(x)' <=> Leading(x)
    BY DEF Leading
  <2> QED
    BY <2>1 DEF QueueInv
<1> QED
  BY <1>1, <1>2, <1>3 DEF QueueInv
(***************************************************************************)
(* Joining the queue.                                                      *)
(***************************************************************************)
LEMMA QueueEnqueue ==
  ASSUME TypeOK, TypeOK', QueueInv, NEW w \in Writer, Enqueue(w)
  PROVE  QueueInv'
<1>1. /\ pc[w] = "idle" /\ pc' = [pc EXCEPT ![w] = "queue"]
      /\ mutex_ = "none" /\ mutex_' = w
      /\ done' = [done EXCEPT ![w] = FALSE]
      /\ writers_' = Append(writers_, w)
  BY DEF Enqueue, Lock
<1>2. /\ writers_ \in Seq(Writer)
      /\ Len(writers_') = Len(writers_) + 1
      /\ writers_'[Len(writers_) + 1] = w
      /\ \A i \in 1..Len(writers_) : writers_'[i] = writers_[i]
  BY <1>1 DEF TypeOK
<1>3. ~InQueue(w)
  BY <1>1 DEF QueueInv
<1>4. \A i, j \in 1..Len(writers_') : writers_'[i] = writers_'[j] => i = j
  BY <1>2, <1>3 DEF QueueInv, InQueue
<1>5. \A x \in Writer : pc'[x] \in Holding <=> mutex_' = x
  BY <1>1, WriterAssumption DEF QueueInv, TypeOK, Holding
<1>6. \A x \in Writer \ {w} : InQueue(x)' <=> InQueue(x)
  BY <1>2 DEF InQueue
<1>7. InQueue(w)'
  BY <1>2 DEF InQueue
<1>8. \A x \in Writer :
        InQueue(x)' <=> pc'[x] \notin {"idle", "returned"} /\ ~done'[x]
  BY <1>1, <1>6, <1>7 DEF QueueInv, TypeOK
<1>9. \A x \in Writer :
        Leading(x)' => ~done'[x] /\ writers_' # << >> /\ writers_'[1] = x
  <2> SUFFICES ASSUME NEW x \in Writer, Leading(x)'
               PROVE  ~done'[x] /\ writers_' # << >> /\ writers_'[1] = x
    OBVIOUS
  <2>1. x # w /\ Leading(x)
    BY <1>1 DEF Leading, Logging, TypeOK
  <2>2. ~done[x] /\ writers_ # << >> /\ writers_[1] = x
    BY <2>1 DEF QueueInv
  <2>3. 1 \in 1..Len(writers_) /\ writers_' # << >>
    BY <1>1, <1>2, <2>2
  <2>4. done'[x] = done[x] /\ writers_'[1] = writers_[1]
    BY <1>1, <1>2, <2>1, <2>3
  <2> QED
    BY <2>2, <2>3, <2>4
<1> QED
  BY <1>4, <1>5, <1>8, <1>9 DEF QueueInv

(***************************************************************************)
(* What is left of a sequence without its first k elements.                *)
(***************************************************************************)
LEMMA TailOfSeq ==
  ASSUME NEW S, NEW s \in Seq(S), NEW k \in 1..Len(s)
  PROVE  LET t == SubSeq(s, k + 1, Len(s))
         IN  /\ t \in Seq(S)
             /\ Len(t) = Len(s) - k
             /\ \A i \in 1..Len(t) : t[i] = s[i + k]
<1>1. Len(s) \in Nat /\ k \in Nat /\ k <= Len(s)
  OBVIOUS
<1>2. Len(SubSeq(s, k + 1, Len(s))) = Len(s) - k
  <2>1. CASE k + 1 <= Len(s)
    BY <1>1, <2>1
  <2>2. CASE k = Len(s)
    BY <1>1, <2>2
  <2> QED
    BY <1>1, <2>1, <2>2
<1>3. \A i \in 1..(Len(s) - k) : SubSeq(s, k + 1, Len(s))[i] = s[i + k]
  BY <1>1
<1>4. SubSeq(s, k + 1, Len(s)) \in Seq(S)
  BY <1>1
<1> QED
  BY <1>2, <1>3, <1>4

(***************************************************************************)
(* The leader pops its group and returns: nobody is past its turn then.    *)
(***************************************************************************)
LEMMA QueuePop ==
  ASSUME TypeOK, TypeOK', QueueInv, NEW w \in Writer, Pop(w)
  PROVE  QueueInv'
<1>1. PICK k \in 1..Len(writers_) :
        /\ writers_' = SubSeq(writers_, k + 1, Len(writers_))
        /\ done' = [x \in Writer |-> done[x] \/ x \in Members(w, k)]
        /\ pc' = [x \in Writer |->
                    IF x = w THEN "returned"
                    ELSE IF x \in Signalled(w, k) /\ pc[x] = "cv_wait"
                    THEN "cv_woken"
                    ELSE pc[x]]
  BY DEF Pop
<1>2. pc[w] = "pop" /\ mutex_ = w /\ mutex_' = "none"
  BY DEF Pop, Unlock
<1>3. writers_[1] = w /\ ~done[w]
  BY <1>2 DEF QueueInv, Leading
<1>4. /\ writers_ \in Seq(Writer)
      /\ Len(writers_') = Len(writers_) - k
      /\ \A i \in 1..Len(writers_') : writers_'[i] = writers_[i + k]
  <2>1. writers_ \in Seq(Writer)
    BY DEF TypeOK
  <2> QED
    BY <1>1, <2>1, TailOfSeq
<1>5. \A i, j \in 1..Len(writers_') : writers_'[i] = writers_'[j] => i = j
  BY <1>4 DEF QueueInv
<1>6. \A x \in Writer : InQueue(x)' <=> InQueue(x) /\ x # w /\ x \notin Members(w, k)
  <2>1. \A i \in 1..Len(writers_) : i \in 1..k \/ i - k \in 1..Len(writers_')
    BY <1>4
  <2>2. \A i, j \in 1..Len(writers_) : writers_[i] = writers_[j] => i = j
    BY DEF QueueInv
  <2> SUFFICES ASSUME NEW x \in Writer
               PROVE  InQueue(x)' <=> InQueue(x) /\ x # w /\ x \notin Members(w, k)
    OBVIOUS
  <2>3. ASSUME InQueue(x)' PROVE InQueue(x) /\ x # w /\ x \notin Members(w, k)
    <3>1. PICK i \in 1..Len(writers_') : writers_'[i] = x
      BY <2>3 DEF InQueue
    <3>2. i + k \in 1..Len(writers_) /\ writers_[i + k] = x /\ i + k > k
      BY <1>4, <3>1
    <3>3. \A j \in 1..k : writers_[j] # x
      BY <2>2, <3>2
    <3> QED
      BY <1>3, <3>2, <3>3 DEF InQueue, Members
  <2>4. ASSUME InQueue(x), x # w, x \notin Members(w, k) PROVE InQueue(x)'
    <3>1. PICK i \in 1..Len(writers_) : writers_[i] = x
      BY <2>4 DEF InQueue
    <3>2. i \notin 1..k
      BY <2>4, <3>1 DEF Members
    <3>3. i - k \in 1..Len(writers_') /\ writers_'[i - k] = x
      BY <1>4, <2>1, <3>1, <3>2
    <3> QED
      BY <3>3 DEF InQueue
  <2> QED
    BY <2>3, <2>4
<1>7. \A x \in Writer : ~Leading(x)'
  <2>1. \A x \in Writer : Leading(x) => x = w
    BY <1>3 DEF QueueInv
  <2> QED
    BY <1>1, <2>1 DEF Leading, Logging
<1>8. \A x \in Writer : pc'[x] \in Holding <=> mutex_' = x
  <2>1. \A x \in Writer : pc[x] \in Holding => x = w
    BY <1>2 DEF QueueInv
  <2>2. \A x \in Writer : mutex_' # x
    BY <1>2, WriterAssumption
  <2> QED
    BY <1>1, <2>1, <2>2 DEF Holding
<1>9. \A x \in Writer :
        InQueue(x)' <=> pc'[x] \notin {"idle", "returned"} /\ ~done'[x]
  <2> SUFFICES ASSUME NEW x \in Writer
               PROVE  InQueue(x)' <=> pc'[x] \notin {"idle", "returned"} /\ ~done'[x]
    OBVIOUS
  <2>1. InQueue(x) <=> pc[x] \notin {"idle", "returned"} /\ ~done[x]
    BY DEF QueueInv
  <2>2. x # w => (pc'[x] \notin {"idle", "returned"} <=>
                    pc[x] \notin {"idle", "returned"})
    BY <1>1
  <2>3. done'[x] <=> done[x] \/ x \in Members(w, k)
    BY <1>1
  <2>4. pc'[w] = "returned"
    BY <1>1
  <2> QED
    BY <1>6, <2>1, <2>2, <2>3, <2>4
<1> QED
  BY <1>5, <1>7, <1>8, <1>9 DEF QueueInv

(***************************************************************************)
(* Every other step of a Write() call.                                     *)
(***************************************************************************)
LEMMA QueueWriter ==
  ASSUME TypeOK, TypeOK', QueueInv, NEW w \in Writer, WriterStep(w)
  PROVE  QueueInv'
<1>0. /\ pc \in [Writer -> Location] /\ \A x \in Writer : x # "none"
      /\ pc[w] \in Holding <=> mutex_ = w
  BY WriterAssumption DEF TypeOK, QueueInv
<1>1. CASE WaitTurn(w)
  BY <1>0, <1>1, QueueMove
     DEF WaitTurn, Lock, Unlock, Locked, Leading, Holding, Logging, queueVars
<1>2. CASE Wake(w)
  <2>1. /\ UNCHANGED <<writers_, done>> /\ mutex_ = "none" /\ mutex_' = w
        /\ \A x \in Writer \ {w} : pc'[x] = pc[x]
    BY <1>0, <1>2 DEF Wake, Lock, queueVars
  <2>2. \/ pc[w] = "cv_woken" /\ pc'[w] = "queue"
        \/ pc[w] = "bg_woken" /\ pc'[w] = "room"
    BY <1>0, <1>2 DEF Wake, ResumeAt
  <2>3. Leading(w)' => Leading(w)
    BY <2>2 DEF Leading, Logging
  <2>4. /\ pc[w] \notin {"idle", "returned"} /\ pc'[w] \notin {"idle", "returned"}
        /\ pc'[w] \in Holding
    BY <2>2 DEF Holding
  <2>5. \A x \in Writer \ {w} : mutex_' = x <=> mutex_ = x
    BY <1>0, <2>1
  <2> QED
    BY <2>1, <2>3, <2>4, <2>5, QueueMove
<1>3. CASE Lead(w)
  <2>1. /\ pc[w] = "queue" /\ pc' = [pc EXCEPT ![w] = "room"]
        /\ ~done[w] /\ w = Head(writers_)
        /\ UNCHANGED <<writers_, done, mutex_>>
    BY <1>3 DEF Lead, Locked, queueVars
  <2>2. InQueue(w)
    BY <2>1 DEF QueueInv
  <2>3. writers_ \in Seq(Writer) /\ writers_ # << >>
    BY <2>2 DEF InQueue, TypeOK
  <2>4. writers_[1] = w
    BY <2>1, <2>3
  <2>5. /\ \A x \in Writer \ {w} : pc'[x] = pc[x]
        /\ pc'[w] = "room" /\ mutex_' = w
    BY <1>0, <2>1 DEF Holding
  <2> QED
    BY <2>1, <2>3, <2>4, <2>5, QueueMove DEF Holding
<1>4. CASE BackgroundError(w)
  BY <1>0, <1>4, QueueMove
     DEF BackgroundError, Lock, Unlock, Locked, Leading, Holding, Logging, queueVars
<1>5. CASE Delay(w)
  BY <1>0, <1>5, QueueMove
     DEF Delay, Lock, Unlock, Locked, Leading, Holding, Logging, queueVars
<1>6. CASE DelayOver(w)
  BY <1>0, <1>6, QueueMove
     DEF DelayOver, Lock, Unlock, Locked, Leading, Holding, Logging, queueVars
<1>7. CASE Room(w)
  BY <1>0, <1>7, QueueMove
     DEF Room, Lock, Unlock, Locked, Leading, Holding, Logging, queueVars
<1>8. CASE WaitBackground(w)
  BY <1>0, <1>8, QueueMove
     DEF WaitBackground, Lock, Unlock, Locked, Leading, Holding, Logging, queueVars
<1>9. CASE SwitchMemTable(w)
  BY <1>0, <1>9, QueueMove
     DEF SwitchMemTable, Lock, Unlock, Locked, Leading, Holding, Logging, queueVars
<1>10. CASE SwitchFails(w)
  BY <1>0, <1>10, QueueMove
     DEF SwitchFails, Lock, Unlock, Locked, Leading, Holding, Logging, queueVars
<1>11. CASE BuildBatchGroup(w)
  BY <1>0, <1>11, QueueMove
     DEF BuildBatchGroup, Lock, Unlock, Locked, Leading, Holding, Logging, queueVars
<1>12. CASE AddRecord(w)
  BY <1>0, <1>12, QueueMove
     DEF AddRecord, AfterLog, Lock, Unlock, Locked, Leading, Holding, Logging, queueVars
<1>13. CASE SyncLog(w)
  BY <1>0, <1>13, QueueMove
     DEF SyncLog, Lock, Unlock, Locked, Leading, Holding, Logging, queueVars
<1>14. CASE Insert(w)
  BY <1>0, <1>14, QueueMove
     DEF Insert, Lock, Unlock, Locked, Leading, Holding, Logging, queueVars
<1>15. CASE InsertDone(w)
  BY <1>0, <1>15, QueueMove
     DEF InsertDone, Lock, Unlock, Locked, Leading, Holding, Logging, queueVars
<1>16. CASE Publish(w)
  BY <1>0, <1>16, QueueMove
     DEF Publish, Lock, Unlock, Locked, Leading, Holding, Logging, queueVars
<1>17. CASE ReturnDone(w)
  BY <1>0, <1>17 DEF ReturnDone, Unlock, QueueInv, InQueue, Leading, Holding, Logging,
                  queueVars
<1>18. CASE Pop(w)
  BY <1>18, QueuePop
<1> QED
  BY <1>1, <1>2, <1>3, <1>4, <1>5, <1>6, <1>7, <1>8, <1>9, <1>10, <1>11, <1>12, <1>13, <1>14, <1>15, <1>16, <1>17, <1>18 DEF WriterStep

\* Get(), the background thread and ~DBImpl() do no more than wake writers.
LEMMA QueueOther ==
  ASSUME TypeOK, TypeOK', QueueInv,
         \/ \E w \in Writer : SpuriousWake(w)
         \/ GetBegin
         \/ \E charged \in BOOLEAN : GetEnd(charged)
         \/ BackgroundStep
         \/ CloseBegin \/ CloseWoken
         \/ Quiescent
  PROVE  QueueInv'
<1>1. CASE \E w \in Writer : SpuriousWake(w)
  BY <1>1, QueueSignal DEF SpuriousWake, TypeOK, queueVars
<1>2. CASE ~\E w \in Writer : SpuriousWake(w)
  <2> USE DEF Lock, Unlock, Critical, queueVars
  <2>1. UNCHANGED <<writers_, done>>
    BY <1>2 DEF GetBegin, GetEnd, BackgroundStep, BgFlush, BgCompact, BgNothing,
      BgTableBuilt, BgApplied, BgMerged, BgSpin, BgInstalled, BgFinish, CloseBegin,
      CloseWoken, Quiescent, vars
  <2>2. \/ UNCHANGED mutex_
        \/ mutex_ \notin Writer /\ mutex_' \notin Writer
    BY <1>2, WriterAssumption DEF GetBegin, GetEnd, BackgroundStep, BgFlush,
      BgCompact, BgNothing, BgTableBuilt, BgApplied, BgMerged, BgSpin, BgInstalled,
      BgFinish, CloseBegin, CloseWoken, Quiescent, vars, BgResumeMerge, BgFails,
      CompactionFails
  <2>3. pc' = pc \/ pc' = SignalAll(pc)
    BY <1>2 DEF GetBegin, GetEnd, BackgroundStep, BgFlush, BgCompact, BgNothing,
      BgTableBuilt, BgApplied, BgMerged, BgSpin, BgInstalled, BgFinish, CloseBegin,
      CloseWoken, Quiescent, vars, BgResumeMerge, BgFails, CompactionFails
  <2>4. \A x \in Writer :
          \/ pc'[x] = pc[x]
          \/ pc[x] = "bg_wait" /\ pc'[x] = "bg_woken"
    BY <2>3 DEF SignalAll
  <2> QED
    BY <2>1, <2>2, <2>4, QueueSignal
<1> QED
  BY <1>1, <1>2

(***************************************************************************)
(* The queue invariant holds in every state of the write path.             *)
(***************************************************************************)
THEOREM QueueDiscipline == Spec => []QueueInv
<1>1. TypeOK /\ TypeOK' /\ QueueInv /\ [Next]_vars => QueueInv'
  <2> SUFFICES ASSUME TypeOK, TypeOK', QueueInv, [Next]_vars PROVE QueueInv'
    OBVIOUS
  <2>1. CASE UNCHANGED vars
    BY <2>1, QueueSignal DEF vars, queueVars
  <2> QED
    BY <2>1, QueueEnqueue, QueueWriter, QueueOther DEF Next
<1> QED
  BY <1>1, QueueInit, TypeCorrect, PTL DEF Spec

(***************************************************************************)
(* At most one writer is past its turn, and it is the front of the queue:  *)
(* no two writers log or insert into mem_ at the same time.                *)
(***************************************************************************)
THEOREM ExclusiveLogger == Spec => []OneLogger
BY QueueDiscipline, TypeCorrect, QueueImpliesOneLogger, PTL

-----------------------------------------------------------------------------
(* Write-ahead logging.                                                    *)

\* What the current log file holds.
Logged == UNION {log_[r] : r \in DOMAIN log_}

\* AddRecord() adds its record to what the log file holds, and keeps the rest.
LEMMA LoggedAppend ==
  ASSUME NEW s \in Seq(SUBSET Entry), NEW e \in SUBSET Entry
  PROVE  UNION {Append(s, e)[r] : r \in DOMAIN Append(s, e)}
           = e \cup UNION {s[r] : r \in DOMAIN s}
<1> DEFINE t == Append(s, e)
<1>1. /\ DOMAIN s = 1..Len(s) /\ Len(s) \in Nat
      /\ DOMAIN t = 1..(Len(s) + 1)
      /\ t[Len(s) + 1] = e
      /\ \A r \in 1..Len(s) : t[r] = s[r]
  OBVIOUS
<1> HIDE DEF t
<1>2. \A r \in 1..(Len(s) + 1) : r \in 1..Len(s) \/ r = Len(s) + 1
  BY <1>1
<1>3. Len(s) + 1 \in DOMAIN t /\ DOMAIN s \subseteq DOMAIN t
  BY <1>1
<1>4. ASSUME NEW x \in UNION {t[r] : r \in DOMAIN t}
      PROVE  x \in e \cup UNION {s[r] : r \in DOMAIN s}
  BY <1>1, <1>2
<1>5. ASSUME NEW x \in e \cup UNION {s[r] : r \in DOMAIN s}
      PROVE  x \in UNION {t[r] : r \in DOMAIN t}
  BY <1>1, <1>3
<1> QED
  BY <1>4, <1>5 DEF t

\* An empty memtable is logged.
LEMMA LogInit == Init => LogInv
BY DEF Init, LogInv, MemTableLogged

(***************************************************************************)
(* A step that keeps mem_, log_ and the groups and brings no writer to the *)
(* sync or the insertion of a group keeps LogInv.                          *)
(***************************************************************************)
LEMMA LogFrame ==
  ASSUME LogInv, UNCHANGED <<mem_, log_, updates>>,
         \A x \in Writer : pc'[x] \in {"sync", "insert"} => pc[x] \in {"sync", "insert"}
  PROVE  LogInv'
BY DEF LogInv, MemTableLogged

\* A step of a Write() call keeps LogInv: AddRecord() comes before Insert().
LEMMA LogWriter ==
  ASSUME TypeOK, TypeOK', OneLogger, LogInv, NEW w \in Writer, WriterStep(w)
  PROVE  LogInv'
<1>0. pc \in [Writer -> Location] /\ updates \in [Writer -> SUBSET Entry]
  BY DEF TypeOK
<1>1. CASE \/ WaitTurn(w) \/ Wake(w) \/ ReturnDone(w) \/ Lead(w)
           \/ BackgroundError(w) \/ Delay(w) \/ DelayOver(w) \/ Room(w)
           \/ WaitBackground(w) \/ SwitchFails(w) \/ SyncLog(w) \/ InsertDone(w)
           \/ Publish(w)
  <2>1. UNCHANGED <<mem_, log_, updates>>
    BY <1>1 DEF WaitTurn, Wake, ReturnDone, Lead, BackgroundError, Delay, DelayOver,
      Room, WaitBackground, SwitchFails, SyncLog, InsertDone, Publish, localVars,
      dataVars
  <2>2. \A x \in Writer : pc'[x] \in {"sync", "insert"} => pc[x] \in {"sync", "insert"}
    BY <1>0, <1>1 DEF WaitTurn, Wake, ResumeAt, ReturnDone, Lead, BackgroundError,
      Delay, DelayOver, Room, WaitBackground, SwitchFails, SyncLog, InsertDone,
      Publish
  <2> QED
    BY <2>1, <2>2, LogFrame
<1>2. CASE Pop(w)
  <2>1. UNCHANGED <<mem_, log_, updates>>
    BY <1>2 DEF Pop, localVars, dataVars
  <2>2. \A x \in Writer : pc'[x] \in {"sync", "insert"} => pc[x] \in {"sync", "insert"}
    BY <1>2 DEF Pop
  <2> QED
    BY <2>1, <2>2, LogFrame
<1>3. CASE SwitchMemTable(w)
  \* The writer in MakeRoomForWrite is the only one past its turn.
  <2>1. \A x \in Writer : pc[x] \notin {"sync", "insert"}
    BY <1>3 DEF SwitchMemTable, OneLogger, Leading, Logging
  <2>2. mem_' = {} /\ pc' = pc
    BY <1>3 DEF SwitchMemTable
  <2> QED
    BY <2>1, <2>2 DEF LogInv, MemTableLogged
<1>4. CASE BuildBatchGroup(w)
  <2>1. UNCHANGED <<mem_, log_>> /\ pc' = [pc EXCEPT ![w] = "log"]
    BY <1>4 DEF BuildBatchGroup, dataVars
  <2>2. \A x \in Writer \ {w} : updates'[x] = updates[x]
    BY <1>0, <1>4 DEF BuildBatchGroup
  <2> QED
    BY <1>0, <2>1, <2>2 DEF LogInv, MemTableLogged
<1>5. CASE AddRecord(w)
  <2>1. /\ UNCHANGED <<mem_, updates>>
        /\ log_' = Append(log_, updates[w]) \/ (log_' = log_ /\ pc'[w] = "relock")
        /\ \A x \in Writer \ {w} : pc'[x] = pc[x]
    BY <1>0, <1>5 DEF AddRecord, AfterLog, localVars, dataVars
  <2>2. CASE log_' = Append(log_, updates[w])
    <3>1. Logged' = updates[w] \cup Logged
      <4>1. log_ \in Seq(SUBSET Entry) /\ updates[w] \in SUBSET Entry
        BY <1>0 DEF TypeOK
      <4>2. UNION {Append(log_, updates[w])[r] : r \in DOMAIN Append(log_, updates[w])}
              = updates[w] \cup UNION {log_[r] : r \in DOMAIN log_}
        BY <4>1, LoggedAppend
      <4> QED
        BY <2>2, <4>2 DEF Logged
    <3>2. mem_' \subseteq Logged'
      BY <2>1, <3>1 DEF LogInv, MemTableLogged, Logged
    <3>3. \A x \in Writer : pc'[x] \in {"sync", "insert"} => updates'[x] \subseteq Logged'
      BY <2>1, <3>1 DEF LogInv, Logged
    <3> QED
      BY <3>2, <3>3 DEF LogInv, MemTableLogged, Logged
  <2>3. CASE log_' = log_ /\ pc'[w] = "relock"
    BY <2>1, <2>3, LogFrame
  <2> QED
    BY <2>1, <2>2, <2>3
<1>6. CASE Insert(w)
  <2>1. /\ UNCHANGED <<log_, updates, pc>>
        /\ mem_' \subseteq mem_ \cup updates[w] /\ pc[w] = "insert"
    BY <1>6 DEF Insert, localVars
  <2> QED
    BY <2>1 DEF LogInv, MemTableLogged
<1> QED
  BY <1>1, <1>2, <1>3, <1>4, <1>5, <1>6 DEF WriterStep

(***************************************************************************)
(* The current log file has what the memtable holds and what the leader is *)
(* about to insert.                                                        *)
(***************************************************************************)
THEOREM LogCovers == Spec => []LogInv
<1>1. TypeOK /\ TypeOK' /\ OneLogger /\ LogInv /\ [Next]_vars => LogInv'
  <2> SUFFICES ASSUME TypeOK, TypeOK', OneLogger, LogInv, [Next]_vars PROVE LogInv'
    OBVIOUS
  <2>0. pc \in [Writer -> Location]
    BY DEF TypeOK
  <2>1. ASSUME NEW w \in Writer, Enqueue(w) \/ SpuriousWake(w) PROVE LogInv'
    <3>1. UNCHANGED <<mem_, log_, updates>>
      BY <2>1 DEF Enqueue, SpuriousWake, localVars, dataVars
    <3>2. \A x \in Writer : pc'[x] \in {"sync", "insert"} => pc[x] \in {"sync", "insert"}
      BY <2>0, <2>1 DEF Enqueue, SpuriousWake
    <3> QED
      BY <3>1, <3>2, LogFrame
  <2>2. ASSUME \/ GetBegin
               \/ \E charged \in BOOLEAN : GetEnd(charged)
               \/ BackgroundStep
               \/ CloseBegin \/ CloseWoken
               \/ Quiescent
               \/ UNCHANGED vars
        PROVE  LogInv'
    <3>1. UNCHANGED <<mem_, log_, updates>>
      BY <2>2 DEF GetBegin, GetEnd, BackgroundStep, BgFlush, BgCompact, BgNothing,
        BgTableBuilt, BgApplied, BgMerged, BgSpin, BgInstalled, BgFinish, CloseBegin,
        CloseWoken, Quiescent, vars, localVars, dataVars
    <3>2. pc' = pc \/ pc' = SignalAll(pc)
      BY <2>2 DEF GetBegin, GetEnd, BackgroundStep, BgFlush, BgCompact, BgNothing,
        BgTableBuilt, BgApplied, BgMerged, BgSpin, BgInstalled, BgFinish, CloseBegin,
        CloseWoken, Quiescent, vars, BgResumeMerge, BgFails, CompactionFails
    <3>3. \A x \in Writer : pc'[x] \in {"sync", "insert"} => pc[x] \in {"sync", "insert"}
      BY <3>2 DEF SignalAll
    <3> QED
      BY <3>1, <3>3, LogFrame
  <2> QED
    BY <2>1, <2>2, LogWriter DEF Next
<1> QED
  BY <1>1, LogInit, TypeCorrect, ExclusiveLogger, PTL DEF Spec

(***************************************************************************)
(* What the memtable holds is in the current log file.                     *)
(***************************************************************************)
THEOREM WriteAhead == Spec => []MemTableLogged
<1>1. LogInv => MemTableLogged
  BY DEF LogInv
<1> QED
  BY <1>1, LogCovers, PTL

-----------------------------------------------------------------------------
(* tmp_batch_ and the end of background work.                               *)

(***************************************************************************)
(* tmp_batch_ holds operations only while a writer is logging.             *)
(***************************************************************************)
THEOREM TmpBatch == Spec => []TmpBatchOwned
<1>1. Init => TmpBatchOwned
  BY DEF Init, TmpBatchOwned
<1>2. TypeOK /\ TmpBatchOwned /\ [Next]_vars => TmpBatchOwned'
  <2> SUFFICES ASSUME TypeOK, TmpBatchOwned, [Next]_vars, tmp_batch_'
               PROVE  \E w \in Writer : pc'[w] \in Logging
    BY DEF TmpBatchOwned
  <2>0. pc \in [Writer -> Location]
    BY DEF TypeOK
  <2>1. ASSUME NEW w \in Writer, BuildBatchGroup(w)
        PROVE  pc'[w] \in Logging
    BY <2>0, <2>1 DEF BuildBatchGroup, Logging
  <2>2. ASSUME NEW w \in Writer, Publish(w) PROVE FALSE
    BY <2>2 DEF Publish, TmpBatchAfter
  <2>3. ASSUME NEW w \in Writer, Enqueue(w) \/ WriterStep(w) \/ SpuriousWake(w),
               ~BuildBatchGroup(w), ~Publish(w)
        PROVE  /\ tmp_batch_' = tmp_batch_
               /\ \A x \in Writer : pc[x] \in Logging => pc'[x] \in Logging
    <3>1. CASE Pop(w)
      BY <3>1 DEF Pop, localVars, Logging
    <3>2. CASE AddRecord(w)
      BY <2>0, <3>2 DEF AddRecord, AfterLog, localVars, Logging
    <3>3. CASE ~Pop(w) /\ ~AddRecord(w)
      BY <2>0, <2>3, <3>3 DEF WriterStep, Enqueue, SpuriousWake, WaitTurn, Wake,
        ResumeAt, ReturnDone, Lead, BackgroundError, Delay, DelayOver, Room,
        WaitBackground, SwitchMemTable, SwitchFails, SyncLog, Insert, InsertDone,
        localVars, Logging
    <3> QED
      BY <3>1, <3>2, <3>3
  <2>4. ASSUME \/ GetBegin
               \/ \E charged \in BOOLEAN : GetEnd(charged)
               \/ BackgroundStep
               \/ CloseBegin \/ CloseWoken
               \/ Quiescent
               \/ UNCHANGED vars
        PROVE  /\ tmp_batch_' = tmp_batch_
               /\ \A x \in Writer : pc[x] \in Logging => pc'[x] \in Logging
    <3>1. /\ tmp_batch_' = tmp_batch_
          /\ pc' = pc \/ pc' = SignalAll(pc)
      BY <2>4 DEF GetBegin, GetEnd, BackgroundStep, BgFlush, BgCompact, BgNothing,
        BgTableBuilt, BgApplied, BgMerged, BgSpin, BgInstalled, BgFinish, CloseBegin,
        CloseWoken, Quiescent, vars, localVars, BgResumeMerge, BgFails,
        CompactionFails
    <3> QED
      BY <3>1 DEF SignalAll, Logging
  <2> QED
    BY <2>1, <2>2, <2>3, <2>4 DEF Next, TmpBatchOwned
<1> QED
  BY <1>1, <1>2, TypeCorrect, PTL DEF Spec

(***************************************************************************)
(* When ~DBImpl() goes on past its wait, no background call is running or  *)
(* queued, and none will be.                                               *)
(***************************************************************************)
THEOREM QuietClose == Spec => []NoWorkAfterClose
<1>1. Init => CloseInv
  BY DEF Init, CloseInv, NoWorkAfterClose
<1>2. TypeOK /\ CloseInv /\ [Next]_vars => CloseInv'
  <2> SUFFICES ASSUME TypeOK, CloseInv, [Next]_vars PROVE CloseInv'
    OBVIOUS
  <2> USE DEF CloseInv, NoWorkAfterClose
  <2>1. ASSUME NEW w \in Writer, Enqueue(w) \/ WriterStep(w) \/ SpuriousWake(w)
        PROVE  CloseInv'
    <3>1. UNCHANGED <<bgVars, userVars>>
      BY <2>1 DEF WriterStep, Enqueue, SpuriousWake, WaitTurn, Wake, ReturnDone,
        Lead, BackgroundError, Delay, DelayOver, Room, WaitBackground,
        SwitchMemTable, SwitchFails, BuildBatchGroup, AddRecord, SyncLog, Insert,
        InsertDone, Publish, Pop
    <3> QED
      BY <3>1 DEF bgVars, userVars
  <2>2. CASE GetBegin
    BY <2>2 DEF GetBegin, bgVars
  <2>3. CASE \E charged \in BOOLEAN : GetEnd(charged)
    BY <2>3 DEF GetEnd, ShouldSchedule, Scheduled, TypeOK
  <2>4. CASE BgFlush \/ BgCompact \/ BgNothing \/ BgSpin
    BY <2>4 DEF BgFlush, BgCompact, BgNothing, BgSpin, userVars
  <2>5. CASE BgTableBuilt \/ BgApplied \/ BgMerged \/ BgInstalled
    <3>1. /\ bg # "idle" /\ bg' # "idle"
          /\ UNCHANGED <<bg_compaction_scheduled_, shutting_down_>>
          /\ close' = close \/ (close = "wait" /\ close' = "woken")
      BY <2>5 DEF BgTableBuilt, BgApplied, BgMerged, BgInstalled, BgResumeMerge,
        BgFails, CompactionFails, SignalClose
    <3> QED
      BY <3>1 DEF TypeOK
  <2>6. CASE BgFinish
    <3>1. /\ bg # "idle" /\ UNCHANGED shutting_down_
          /\ close' = close \/ (close = "wait" /\ close' = "woken")
          /\ bg_compaction_scheduled_' <=> bg' # "idle"
      BY <2>6 DEF BgFinish, SignalClose, Scheduled
    <3> QED
      BY <3>1 DEF TypeOK
  <2>7. CASE CloseBegin \/ CloseWoken
    BY <2>7 DEF CloseBegin, CloseWoken, bgVars
  <2>8. CASE Quiescent \/ UNCHANGED vars
    BY <2>8 DEF Quiescent, vars, bgVars, userVars
  <2> QED
    BY <2>1, <2>2, <2>3, <2>4, <2>5, <2>6, <2>7, <2>8 DEF Next, BackgroundStep
<1>3. CloseInv => NoWorkAfterClose
  BY DEF CloseInv
<1> QED
  BY <1>1, <1>2, <1>3, TypeCorrect, PTL DEF Spec

-----------------------------------------------------------------------------
(***************************************************************************)
(* The write path implements AtomicWrites; its log files are ordered and   *)
(* its acknowledgements durable.                                           *)
(*                                                                         *)
(* The argument: a Write() call is in one group at most, because it leaves *)
(* the queue with the group that served it.  The leader gives the group's  *)
(* operations sequence numbers above LastSequence(), so that nothing it    *)
(* writes shows before Publish, and only Publish, whatever the status,     *)
(* moves LastSequence().  What is kept in the log, on disk and in the      *)
(* memtables therefore comes from calls that are over and from the one     *)
(* leader, and each operation is kept as one entry.                        *)
(***************************************************************************)

\* The entries of the memtables and the tables, and those found anywhere.
Stored == mem_ \cup imm_ \cup tables
Kept == Stored \cup synced \cup Logged

\* The call is over for the caller, or the leader of its group says so.
Over(x) == pc[x] = "returned" \/ done[x]

\* The group of a leader: the queue up to its last_writer.
Group(w) ==
  {x \in Writer : \E i, j \in 1..Len(writers_) :
                    i <= j /\ writers_[i] = x /\ writers_[j] = last_writer[w]}

\* Some entries have every operation of a call.
Covers(entries, x) == \A i \in 1..batch[x] : \E e \in entries : e.w = x /\ e.i = i

\* The entries of a group under construction: one for each operation of each
\* member, numbered without gaps above LastSequence() and up to the local
\* last_sequence of the leader; no member asks for a sync the leader does not do.
GroupWritten(w) ==
  /\ \A e \in updates[w] : last_sequence < e.seq /\ e.seq <= seq[w]
  /\ \A x \in Group(w) : Covers(updates[w], x) /\ (sync[x] => sync[w])
  /\ \A e, f \in updates[w] :
       /\ e.seq = f.seq => e = f
       /\ e.w = f.w => e.seq - f.seq = e.i - f.i
  /\ last_sequence <= seq[w]

\* What the caller of x may rely on when its status is OK, and when it is an error.
Served(x) == Covers(Visible, x) /\ (sync[x] => Covers(synced, x))
Refused(x) == \A e \in Stored : e.w # x

\* A leader and its group: last_writer waits in the queue, a group that is not
\* built is empty, one that is built holds operations of its members only.
LeaderInv ==
  \A w \in Writer :
    /\ Leading(w) => InQueue(last_writer[w])
    /\ pc[w] \in {"room", "delay", "bg_wait", "bg_woken", "build"} => last_writer[w] = w
    /\ pc[w] \notin Logging \cup {"pop", "returned"} => updates[w] = {}
    /\ pc[w] \in Logging \cup {"pop"} =>
         \A e \in updates[w] : e.w \in Group(w) /\ e.i \in 1..batch[e.w]
    /\ pc[w] \in Logging => GroupWritten(w)
    /\ pc[w] = "idle" => ~done[w]

\* How far the leader is, and what is known of the calls that are over.
ProgressInv ==
  \A w \in Writer :
    /\ pc[w] \in {"sync", "insert"} => status[w] = "ok"
    /\ pc[w] \in {"insert", "relock"} /\ status[w] = "ok" /\ sync[w] =>
         updates[w] \subseteq synced
    /\ pc[w] = "relock" /\ status[w] = "ok" => updates[w] \subseteq mem_
    /\ pc[w] = "pop" => \A x \in Group(w) :
                          /\ status[w] = "ok" => Served(x)
                          /\ status[w] = "error" => Refused(x)
    /\ Over(w) => /\ status[w] = "ok" => Served(w)
                  /\ status[w] = "error" => Refused(w)

\* Who wrote what is kept: each operation of a batch is kept as one entry.
KeptInv ==
  /\ \A e \in Kept :
       \/ Over(e.w)
       \/ \E w \in Writer : pc[w] \in {"sync", "insert", "relock", "pop"} /\ e \in updates[w]
  /\ \A e \in Kept : e.i \in 1..batch[e.w]
  /\ \A e, f \in Kept : e.w = f.w /\ e.i = f.i => e = f

\* Nothing has a number above LastSequence() but the group of the leader.
NumberInv ==
  /\ \A e \in Stored :
       \/ e.seq <= last_sequence
       \/ \E w \in Writer : pc[w] \in {"insert", "relock"} /\ status[w] = "ok" /\ e \in updates[w]
  /\ \A e \in Logged :
       \/ e.seq <= last_sequence
       \/ \E w \in Writer : pc[w] \in {"sync", "insert", "relock"} /\ e \in updates[w]
  /\ LogOrdered
  /\ ~has_imm_ => imm_ = {}

\* The inductive invariant, beside those above.
AtomicInv == LeaderInv /\ ProgressInv /\ KeptInv /\ NumberInv

-----------------------------------------------------------------------------
(* SetSequence: the numbers of a group.                                     *)

\* The number of operations of the group that come before operation o.
Rank(k, o) == Cardinality({p \in Ops(k) : Before(p, o)})

\* Operations of the group are pairs of a queue position and an index in its batch.
LEMMA OpsShape ==
  ASSUME TypeOK, NEW k \in 1..Len(writers_)
  PROVE  /\ \A o \in Ops(k) : /\ o[1] \in 1..k /\ o[2] \in 1..batch[writers_[o[1]]]
                              /\ o = <<o[1], o[2]>>
                              /\ o[1] \in Int /\ o[2] \in Int
         /\ \A j \in 1..k : \A i \in 1..batch[writers_[j]] : <<j, i>> \in Ops(k)
         /\ \A j \in 1..k : writers_[j] \in Writer /\ batch[writers_[j]] \in Int
<1>1. \A j \in 1..k : writers_[j] \in Writer
  BY DEF TypeOK
<1>2. \A j \in 1..k : batch[writers_[j]] \in Int
  <2>1. ASSUME NEW b \in Batches \cup {NullBatch} PROVE b \in Int
    BY SizesAssumption DEF NullBatch
  <2>2. \A w \in Writer : batch[w] \in Batches \cup {NullBatch}
    BY DEF TypeOK
  <2> QED
    BY <1>1, <2>1, <2>2
<1>3. ASSUME NEW o \in Ops(k)
      PROVE  /\ o[1] \in 1..k /\ o[2] \in 1..batch[writers_[o[1]]]
             /\ o = <<o[1], o[2]>>
             /\ o[1] \in Int /\ o[2] \in Int
  <2>1. PICK j \in 1..k : o \in {<<j, i>> : i \in 1..batch[writers_[j]]}
    BY DEF Ops
  <2>2. PICK i \in 1..batch[writers_[j]] : o = <<j, i>>
    BY <2>1
  <2> QED
    BY <1>2, <2>2
<1>4. \A j \in 1..k : \A i \in 1..batch[writers_[j]] : <<j, i>> \in Ops(k)
  BY DEF Ops
<1> QED
  BY <1>1, <1>2, <1>3, <1>4

\* A later operation has a larger rank, and every rank is below the group's count.
LEMMA RankOrder ==
  ASSUME TypeOK, NEW k \in 1..Len(writers_), NEW o \in Ops(k)
  PROVE  /\ Rank(k, o) \in Nat
         /\ Rank(k, o) < Cardinality(Ops(k))
         /\ \A q \in Ops(k) : Before(o, q) => Rank(k, o) < Rank(k, q)
<1> DEFINE P(q) == {p \in Ops(k) : Before(p, q)}
<1>1. /\ IsFiniteSet(Ops(k)) /\ Cardinality(Ops(k)) \in Nat
  BY OpsFinite, FS_CardinalityType
<1>2. \A q \in Ops(k) : IsFiniteSet(P(q)) /\ Cardinality(P(q)) \in Nat
  <2> TAKE q \in Ops(k)
  <2>1. P(q) \in SUBSET Ops(k)
    OBVIOUS
  <2>2. IsFiniteSet(P(q))
    BY <1>1, <2>1, FS_Subset
  <2> QED
    BY <2>2, FS_CardinalityType
<1>3. o \notin P(o)
  BY OpsShape DEF Before
<1>4. /\ IsFiniteSet(P(o) \cup {o})
      /\ Cardinality(P(o) \cup {o}) = Cardinality(P(o)) + 1
  BY <1>2, <1>3, FS_AddElement
<1>5. Cardinality(P(o)) + 1 <= Cardinality(Ops(k))
  <2>1. P(o) \cup {o} \in SUBSET Ops(k)
    OBVIOUS
  <2>2. Cardinality(P(o) \cup {o}) <= Cardinality(Ops(k))
    BY <1>1, <2>1, FS_Subset
  <2> QED
    BY <1>4, <2>2
<1>6. ASSUME NEW q \in Ops(k), Before(o, q)
      PROVE  Cardinality(P(o)) + 1 <= Cardinality(P(q))
  <2>1. \A p \in Ops(k) : Before(p, o) => Before(p, q)
    BY <1>6, OpsShape DEF Before
  <2>2. P(o) \cup {o} \in SUBSET P(q)
    BY <1>6, <2>1
  <2>3. Cardinality(P(o) \cup {o}) <= Cardinality(P(q))
    BY <1>2, <2>2, FS_Subset
  <2> QED
    BY <1>4, <2>3
<1>7. /\ Rank(k, o) = Cardinality(P(o))
      /\ \A q \in Ops(k) : Rank(k, q) = Cardinality(P(q))
  BY DEF Rank
<1> HIDE DEF P
<1> QED
  BY <1>1, <1>2, <1>5, <1>6, <1>7

\* The operations of one batch have consecutive ranks.
LEMMA RankInBatch ==
  ASSUME TypeOK, NEW k \in 1..Len(writers_), NEW o \in Ops(k), NEW q \in Ops(k),
         o[1] = q[1]
  PROVE  Rank(k, o) - Rank(k, q) = o[2] - q[2]
<1> DEFINE j == o[1]
           A == {p \in Ops(k) : p[1] < j}
           B(n) == {<<j, i>> : i \in 1..n}
<1>1. /\ IsFiniteSet(A) /\ Cardinality(A) \in Nat
  <2>1. A \in SUBSET Ops(k) /\ IsFiniteSet(Ops(k))
    BY OpsFinite
  <2>2. IsFiniteSet(A)
    BY <2>1, FS_Subset
  <2> QED
    BY <2>2, FS_CardinalityType
<1>2. ASSUME NEW n \in Nat PROVE IsFiniteSet(B(n)) /\ Cardinality(B(n)) = n
  <2>1. IsFiniteSet(1..n) /\ Cardinality(1..n) = n
    BY FS_Interval
  <2>2. [i \in 1..n |-> <<j, i>>] \in Bijection(1..n, B(n))
    BY DEF Bijection, Injection, Surjection, IsInjective
  <2>3. ExistsBijection(1..n, B(n))
    BY <2>2 DEF ExistsBijection
  <2> QED
    BY <2>1, <2>3, FS_Bijection
<1>3. ASSUME NEW p \in Ops(k), p[1] = j
      PROVE  Rank(k, p) = Cardinality(A) + p[2] - 1
  <2>1. /\ p[2] \in 1..batch[writers_[j]] /\ j \in 1..k /\ p = <<j, p[2]>>
        /\ j \in Int /\ batch[writers_[j]] \in Int
    BY <1>3, OpsShape
  <2>2. p[2] - 1 \in Nat
    BY <2>1
  <2>3. ASSUME NEW r \in Ops(k), Before(r, p), ~(r[1] < j)
        PROVE  r \in B(p[2] - 1)
    <3>1. r[1] = j /\ r[2] < p[2] /\ r = <<j, r[2]>> /\ r[2] \in 1..batch[writers_[j]]
      BY <1>3, <2>3, <2>1, OpsShape DEF Before
    <3>2. r[2] \in 1..(p[2] - 1)
      BY <2>1, <3>1
    <3> QED
      BY <3>1, <3>2
  <2>4. ASSUME NEW r \in B(p[2] - 1) PROVE r \in Ops(k) /\ Before(r, p)
    <3>1. PICK i \in 1..(p[2] - 1) : r = <<j, i>>
      OBVIOUS
    <3>2. i \in 1..batch[writers_[j]] /\ i < p[2]
      BY <2>1
    <3>3. <<j, i>> \in Ops(k)
      BY <2>1, <3>2, OpsShape
    <3> QED
      BY <1>3, <3>1, <3>2, <3>3 DEF Before
  <2>5. \A r \in A : Before(r, p)
    BY <1>3 DEF Before
  <2>6. {r \in Ops(k) : Before(r, p)} = A \cup B(p[2] - 1)
    <3>1. ASSUME NEW r \in {x \in Ops(k) : Before(x, p)} PROVE r \in A \cup B(p[2] - 1)
      BY <2>3
    <3>2. ASSUME NEW r \in A \cup B(p[2] - 1) PROVE r \in {x \in Ops(k) : Before(x, p)}
      BY <2>4, <2>5
    <3> HIDE DEF A, B
    <3> QED
      BY <3>1, <3>2
  <2>7. A \cap B(p[2] - 1) = {}
    BY <2>1
  <2>8. Cardinality(A \cup B(p[2] - 1)) = Cardinality(A) + (p[2] - 1)
    <3>1. /\ IsFiniteSet(B(p[2] - 1)) /\ Cardinality(B(p[2] - 1)) = p[2] - 1
      BY <1>2, <2>2
    <3> HIDE DEF A, B
    <3>2. Cardinality(A \cup B(p[2] - 1))
            = Cardinality(A) + Cardinality(B(p[2] - 1)) - Cardinality(A \cap B(p[2] - 1))
      BY <1>1, <3>1, FS_Union
    <3>3. Cardinality(A \cap B(p[2] - 1)) = 0
      BY <2>7, FS_EmptySet
    <3> QED
      BY <1>1, <2>2, <3>1, <3>2, <3>3
  <2> HIDE DEF A, B
  <2> QED
    BY <1>1, <2>1, <2>6, <2>8 DEF Rank
<1>4. /\ Rank(k, o) = Cardinality(A) + o[2] - 1
      /\ Rank(k, q) = Cardinality(A) + q[2] - 1
  BY <1>3
<1>5. o[2] \in Int /\ q[2] \in Int
  BY OpsShape
<1> HIDE DEF A
<1> QED
  BY <1>1, <1>4, <1>5

(***************************************************************************)
(* What SetSequence() gives the operations of the first k writers: one     *)
(* number each, without gaps from s + 1 on, in the order of the group.     *)
(***************************************************************************)
LEMMA SequencedFacts ==
  ASSUME TypeOK, QueueInv, NEW k \in 1..Len(writers_), NEW s \in Nat
  PROVE  LET U == Sequenced(k, s)
         IN  /\ \A e \in U : /\ \E j \in 1..k : e.w = writers_[j]
                             /\ e.i \in 1..batch[e.w]
                             /\ s < e.seq /\ e.seq <= s + Cardinality(Ops(k))
             /\ \A j \in 1..k : Covers(U, writers_[j])
             /\ \A e, f \in U : /\ e.seq = f.seq => e = f
                                /\ e.w = f.w => e.seq - f.seq = e.i - f.i
<1> DEFINE U == Sequenced(k, s)
           Number(o) == [seq |-> s + 1 + Rank(k, o), w |-> writers_[o[1]], i |-> o[2]]
<1>1. U = {Number(o) : o \in Ops(k)}
  BY DEF Sequenced, Rank
<1>2. Cardinality(Ops(k)) \in Nat
  BY OpsFinite, FS_CardinalityType
<1>3. \A o \in Ops(k) : /\ Number(o).seq = s + 1 + Rank(k, o)
                        /\ Number(o).w = writers_[o[1]]
                        /\ Number(o).i = o[2]
  OBVIOUS
<1> HIDE DEF U, Number
<1>4. ASSUME NEW e \in U
      PROVE  /\ \E j \in 1..k : e.w = writers_[j]
             /\ e.i \in 1..batch[e.w]
             /\ s < e.seq /\ e.seq <= s + Cardinality(Ops(k))
  <2>1. PICK o \in Ops(k) : e = Number(o)
    BY <1>1
  <2>2. o[1] \in 1..k /\ o[2] \in 1..batch[writers_[o[1]]]
    BY OpsShape
  <2>3. Rank(k, o) \in Nat /\ Rank(k, o) < Cardinality(Ops(k))
    BY RankOrder
  <2> QED
    BY <1>2, <1>3, <2>1, <2>2, <2>3
<1>5. ASSUME NEW j \in 1..k, NEW i \in 1..batch[writers_[j]]
      PROVE  \E e \in U : e.w = writers_[j] /\ e.i = i
  <2>1. <<j, i>> \in Ops(k)
    BY OpsShape
  <2>2. Number(<<j, i>>) \in U
    BY <1>1, <2>1
  <2> QED
    BY <1>3, <2>1, <2>2
<1>6. ASSUME NEW e \in U, NEW f \in U
      PROVE  /\ e.seq = f.seq => e = f
             /\ e.w = f.w => e.seq - f.seq = e.i - f.i
  <2>1. PICK o \in Ops(k), q \in Ops(k) : e = Number(o) /\ f = Number(q)
    BY <1>1
  <2>2. Rank(k, o) \in Nat /\ Rank(k, q) \in Nat
    BY RankOrder
  <2>3. ASSUME e.seq = f.seq PROVE e = f
    <3>1. Rank(k, o) = Rank(k, q)
      BY <1>3, <2>1, <2>2, <2>3
    <3>2. ~Before(o, q) /\ ~Before(q, o)
      BY <2>2, <3>1, RankOrder
    <3>3. o[1] = q[1] /\ o[2] = q[2] /\ o = <<o[1], o[2]>> /\ q = <<q[1], q[2]>>
      BY <3>2, OpsShape DEF Before
    <3> QED
      BY <2>1, <3>3
  <2>4. ASSUME e.w = f.w PROVE e.seq - f.seq = e.i - f.i
    <3>1. o[1] \in 1..k /\ q[1] \in 1..k /\ o[2] \in Int /\ q[2] \in Int
      BY OpsShape
    <3>2. o[1] = q[1]
      BY <1>3, <2>1, <2>4, <3>1 DEF QueueInv
    <3>3. Rank(k, o) - Rank(k, q) = o[2] - q[2]
      BY <3>2, RankInBatch
    <3> QED
      BY <1>3, <2>1, <2>2, <3>1, <3>3
  <2> QED
    BY <2>3, <2>4
<1> QED
  BY <1>4, <1>5, <1>6 DEF Covers, U

-----------------------------------------------------------------------------
(* Facts about the leader and its group.                                    *)

\* The leader's locations after its record may be in the log file.
Keeping == {"sync", "insert", "relock", "pop"}
\* Before a call's turn, and in MakeRoomForWrite.
Early == {"queue", "cv_wait", "cv_woken"}
Making == {"room", "delay", "bg_wait", "bg_woken", "build"}

\* At most one writer is past its turn.
LEMMA SoleLeader ==
  ASSUME TypeOK, QueueInv, NEW w \in Writer, NEW x \in Writer, Leading(w), Leading(x)
  PROVE  x = w
BY DEF QueueInv

\* The places past a call's turn are those of MakeRoomForWrite and of the group.
LEMMA LeadingAt ==
  ASSUME NEW w \in Writer
  PROVE  pc[w] \in Making \cup Logging \cup Keeping <=> Leading(w)
BY DEF Leading, Making, Logging, Keeping

\* A member of a group waits in the queue: its call is neither over nor yet to come.
LEMMA GroupWaits ==
  ASSUME TypeOK, QueueInv, NEW w \in Writer, NEW x \in Group(w)
  PROVE  x \in Writer /\ InQueue(x) /\ ~Over(x) /\ pc[x] # "idle"
<1>1. x \in Writer /\ InQueue(x)
  BY DEF Group, InQueue
<1> QED
  BY <1>1 DEF QueueInv, Over

\* The leader is the first of its group.
LEMMA LeaderInGroup ==
  ASSUME TypeOK, QueueInv, LeaderInv, NEW w \in Writer, Leading(w)
  PROVE  w \in Group(w)
<1>1. writers_ # << >> /\ writers_[1] = w /\ writers_ \in Seq(Writer)
  BY DEF QueueInv, TypeOK
<1>2. PICK j \in 1..Len(writers_) : writers_[j] = last_writer[w]
  BY DEF LeaderInv, InQueue
<1>3. 1 \in 1..Len(writers_) /\ 1 <= j
  BY <1>1, <1>2
<1> QED
  BY <1>1, <1>2, <1>3 DEF Group

\* Whatever is kept of a member of the leader's group is part of this group.
LEMMA GroupKept ==
  ASSUME TypeOK, QueueInv, AtomicInv, NEW w \in Writer, Leading(w),
         NEW e \in Kept, e.w \in Group(w)
  PROVE  e \in updates[w] /\ pc[w] \in Keeping
<1>1. ~Over(e.w)
  BY GroupWaits
<1>2. PICK x \in Writer : pc[x] \in Keeping /\ e \in updates[x]
  BY <1>1 DEF AtomicInv, KeptInv, Keeping
<1>3. Leading(x)
  BY <1>2, LeadingAt
<1> QED
  BY <1>2, <1>3, SoleLeader

\* What is kept are entries.
LEMMA KeptEntries ==
  ASSUME TypeOK
  PROVE  /\ Kept \subseteq Entry /\ Stored \subseteq Entry /\ Logged \subseteq Entry
         /\ \A w \in Writer : updates[w] \subseteq Entry
         /\ \A e \in Entry : e.seq \in Nat /\ e.w \in Writer /\ e.i \in Nat
<1>1. \A r \in DOMAIN log_ : log_[r] \subseteq Entry
  BY DEF TypeOK
<1>2. Logged \subseteq Entry
  BY <1>1 DEF Logged
<1> QED
  BY <1>2 DEF Kept, Stored, TypeOK, Entry

-----------------------------------------------------------------------------
(* Frames: what a step must leave alone for a part of the invariant to hold. *)

\* The queue, the groups and their numbers stay; a call moves inside one stage.
LEMMA LeaderFrame ==
  ASSUME LeaderInv,
         UNCHANGED <<writers_, last_writer, updates, batch, sync, seq,
                     last_sequence, done>>,
         \A x \in Writer : \/ pc'[x] = pc[x]
                           \/ pc[x] \in Early /\ pc'[x] \in Early
                           \/ pc[x] \in Making /\ pc'[x] \in Making
                           \/ pc[x] \in Logging /\ pc'[x] \in Logging
  PROVE  LeaderInv' /\ \A x \in Writer : Group(x)' = Group(x)
<1>1. \A x \in Writer : Group(x)' = Group(x)
  BY DEF Group
<1>2. \A x \in Writer : Covers(updates[x], x)' <=> Covers(updates[x], x)
  BY DEF Covers
<1>3. \A x \in Writer : GroupWritten(x)' <=> GroupWritten(x)
  BY <1>1 DEF GroupWritten, Covers
<1>4. \A x \in Writer : /\ InQueue(last_writer[x])' <=> InQueue(last_writer[x])
                        /\ Leading(x)' <=> Leading(x)
                        /\ pc'[x] \in Making <=> pc[x] \in Making
                        /\ pc'[x] \in Logging <=> pc[x] \in Logging
                        /\ pc'[x] \in Logging \cup {"pop"} <=> pc[x] \in Logging \cup {"pop"}
                        /\ pc'[x] \notin Logging \cup {"pop", "returned"} =>
                             pc[x] \notin Logging \cup {"pop", "returned"}
                        /\ pc'[x] = "idle" => pc[x] = "idle"
  BY DEF InQueue, Leading, Early, Making, Logging
<1> QED
  BY <1>1, <1>3, <1>4 DEF LeaderInv, Making

\* Nothing new is kept; a call that was over is over, a leader past AddRecord() is
\* past it.
LEMMA KeptFrame ==
  ASSUME TypeOK, KeptInv, Kept' \subseteq Kept, UNCHANGED batch,
         \A x \in Writer :
           /\ Over(x) => Over(x)'
           /\ pc[x] \in Keeping => pc'[x] \in Keeping /\ updates'[x] = updates[x]
  PROVE  KeptInv'
<1>1. \A e \in Kept : e.w \in Writer
  BY KeptEntries
<1>2. ASSUME NEW e \in Kept'
      PROVE  \/ Over(e.w)'
             \/ \E w \in Writer : pc'[w] \in Keeping /\ e \in updates'[w]
  <2>1. e \in Kept /\ e.w \in Writer
    BY <1>1
  <2>2. CASE Over(e.w)
    BY <2>1, <2>2
  <2>3. CASE \E w \in Writer : pc[w] \in Keeping /\ e \in updates[w]
    BY <2>3
  <2> QED
    BY <2>1, <2>2, <2>3 DEF KeptInv, Keeping
<1>3. \A e \in Kept' : e.i \in 1..batch'[e.w]
  BY DEF KeptInv
<1>4. \A e, f \in Kept' : e.w = f.w /\ e.i = f.i => e = f
  BY DEF KeptInv
<1> QED
  BY <1>2, <1>3, <1>4 DEF KeptInv, Keeping

\* What is stored and visible stays, what is synced stays synced.
LEMMA OutcomeFrame ==
  ASSUME NEW x \in Writer,
         Visible \subseteq Visible', synced \subseteq synced',
         \A e \in Stored' : e.w = x => e \in Stored,
         batch'[x] = batch[x], sync'[x] = sync[x]
  PROVE  (Served(x) => Served(x)') /\ (Refused(x) => Refused(x)')
BY DEF Served, Refused, Covers

\* A step that moves calls inside their stages and loses no data, although it may
\* drop a log file or move entries from a memtable into a table.
LEMMA AtomicFrame ==
  ASSUME TypeOK, TypeOK', QueueInv, AtomicInv,
         UNCHANGED <<writers_, last_writer, updates, batch, sync, seq, done,
                     last_sequence, synced>>,
         Stored' = Stored, Logged' \subseteq Logged, LogOrdered',
         ~has_imm_' => imm_' = {},
         \A x \in Writer : pc[x] \in Logging => mem_ \subseteq mem_',
         \A x \in Writer : \/ pc'[x] = pc[x] /\ status'[x] = status[x]
                           \/ pc[x] \in Early /\ pc'[x] \in Early /\ status'[x] = status[x]
                           \/ pc[x] \in Making /\ pc'[x] \in Making
  PROVE  AtomicInv'
<1>1. LeaderInv' /\ \A x \in Writer : Group(x)' = Group(x)
  BY LeaderFrame DEF AtomicInv
<1>2. /\ Kept' \subseteq Kept /\ Visible' = Visible
      /\ \A x \in Writer : Over(x)' <=> Over(x)
  <2>1. Visible = {e \in Stored : e.seq <= last_sequence}
    BY DEF Visible, Stored
  <2>2. Visible' = {e \in Stored' : e.seq <= last_sequence'}
    BY DEF Visible, Stored
  <2> QED
    BY <2>1, <2>2 DEF Kept, Over, Early, Making
<1>3. KeptInv'
  BY <1>2, KeptFrame DEF AtomicInv, Keeping, Early, Making
<1>5. \A x \in Writer : (Served(x) => Served(x)') /\ (Refused(x) => Refused(x)')
  BY <1>2, OutcomeFrame
<1>6. \A x \in Writer : pc[x] \in Making => ~Over(x)
  BY LeadingAt DEF QueueInv, Over, Making
<1>7. ProgressInv'
  <2>1. \A x \in Writer :
          /\ pc'[x] \in Keeping => pc'[x] = pc[x] /\ status'[x] = status[x]
          /\ Over(x) => status'[x] = status[x]
    BY <1>6 DEF Early, Making, Keeping
  <2>2. \A w \in Writer : pc'[w] = "pop" =>
          \A x \in Group(w)' :
            /\ status'[w] = "ok" => Served(x)'
            /\ status'[w] = "error" => Refused(x)'
    <3> SUFFICES ASSUME NEW w \in Writer, pc'[w] = "pop", NEW x \in Group(w)
                 PROVE  /\ status'[w] = "ok" => Served(x)'
                        /\ status'[w] = "error" => Refused(x)'
      BY <1>1
    <3>1. x \in Writer /\ pc[w] = "pop" /\ status'[w] = status[w]
      BY <2>1 DEF Keeping, Group
    <3>2. (status[w] = "ok" => Served(x)) /\ (status[w] = "error" => Refused(x))
      BY <3>1 DEF AtomicInv, ProgressInv
    <3> QED
      BY <1>5, <3>1, <3>2
  <2>3. \A w \in Writer : Over(w)' =>
          /\ status'[w] = "ok" => Served(w)'
          /\ status'[w] = "error" => Refused(w)'
    BY <1>2, <1>5, <2>1 DEF AtomicInv, ProgressInv
  <2>4. \A w \in Writer :
          /\ pc'[w] \in {"sync", "insert"} => status'[w] = "ok"
          /\ pc'[w] \in {"insert", "relock"} /\ status'[w] = "ok" /\ sync'[w] =>
               updates'[w] \subseteq synced'
          /\ pc'[w] = "relock" /\ status'[w] = "ok" => updates'[w] \subseteq mem_'
    BY <2>1 DEF AtomicInv, ProgressInv, Keeping, Logging
  <2> QED
    BY <2>2, <2>3, <2>4 DEF ProgressInv
<1>8. NumberInv'
  BY <1>2 DEF AtomicInv, NumberInv, Early, Making
<1> QED
  BY <1>1, <1>3, <1>7, <1>8 DEF AtomicInv

-----------------------------------------------------------------------------
(* Steps that move calls, wake them, or flush a memtable.                   *)

\* Waiting, waking up and the waits of MakeRoomForWrite.
LEMMA AtomicWaits ==
  ASSUME TypeOK, TypeOK', QueueInv, AtomicInv, NEW w \in Writer,
         \/ WaitTurn(w) \/ Wake(w) \/ SpuriousWake(w) \/ Delay(w) \/ DelayOver(w)
         \/ WaitBackground(w) \/ (Room(w) /\ batch[w] # NullBatch)
  PROVE  AtomicInv'
<1>0. pc \in [Writer -> Location] /\ status \in [Writer -> {"ok", "error"}]
  BY DEF TypeOK
<1>1. /\ UNCHANGED <<writers_, last_writer, updates, batch, sync, seq, done>>
      /\ UNCHANGED dataVars
  BY DEF WaitTurn, Wake, SpuriousWake, Delay, DelayOver, WaitBackground, Room,
         queueVars, localVars
<1>2. \A x \in Writer : \/ pc'[x] = pc[x] /\ status'[x] = status[x]
                        \/ pc[x] \in Early /\ pc'[x] \in Early /\ status'[x] = status[x]
                        \/ pc[x] \in Making /\ pc'[x] \in Making
  BY <1>0 DEF WaitTurn, Wake, ResumeAt, SpuriousWake, Delay, DelayOver,
         WaitBackground, Room, queueVars, Early, Making
<1>3. Stored' = Stored /\ Logged' = Logged /\ LogOrdered' /\ (~has_imm_' => imm_' = {})
  BY <1>1 DEF dataVars, Stored, Logged, LogOrdered, AtomicInv, NumberInv
<1> QED
  BY <1>1, <1>2, <1>3, AtomicFrame DEF dataVars

\* Get(), ~DBImpl() and the background thread.
LEMMA AtomicOther ==
  ASSUME TypeOK, TypeOK', QueueInv, AtomicInv,
         \/ GetBegin
         \/ \E charged \in BOOLEAN : GetEnd(charged)
         \/ BackgroundStep
         \/ CloseBegin \/ CloseWoken
         \/ Quiescent
         \/ UNCHANGED vars
  PROVE  AtomicInv'
<1>1. /\ UNCHANGED <<writers_, last_writer, updates, batch, sync, seq, done, status>>
      /\ UNCHANGED <<last_sequence, log_, synced, mem_>>
  BY DEF GetBegin, GetEnd, BackgroundStep, BgFlush, BgCompact, BgNothing,
    BgTableBuilt, BgApplied, BgMerged, BgSpin, BgInstalled, BgFinish, CloseBegin,
    CloseWoken, Quiescent, vars, queueVars, localVars, dataVars
<1>2. pc' = pc \/ pc' = SignalAll(pc)
  BY DEF GetBegin, GetEnd, BackgroundStep, BgFlush, BgCompact, BgNothing,
    BgTableBuilt, BgApplied, BgMerged, BgSpin, BgInstalled, BgFinish, CloseBegin,
    CloseWoken, Quiescent, vars, BgResumeMerge, BgFails, CompactionFails
<1>3. \A x \in Writer : pc'[x] = pc[x] \/ (pc[x] \in Making /\ pc'[x] \in Making)
  BY <1>2 DEF SignalAll, Making
<1>4. \/ UNCHANGED <<has_imm_, imm_, tables>>
      \/ imm_' = {} /\ tables' = tables \cup imm_
  BY DEF GetBegin, GetEnd, BackgroundStep, BgFlush, BgCompact, BgNothing,
    BgTableBuilt, BgApplied, BgMerged, BgSpin, BgInstalled, BgFinish, CloseBegin,
    CloseWoken, Quiescent, vars, dataVars
<1>5. Stored' = Stored /\ (~has_imm_' => imm_' = {})
  BY <1>1, <1>4 DEF Stored, AtomicInv, NumberInv
<1>6. Logged' = Logged /\ LogOrdered'
  BY <1>1 DEF Logged, LogOrdered, AtomicInv, NumberInv
<1> QED
  BY <1>1, <1>3, <1>5, <1>6, AtomicFrame

\* Nobody is logging while the front of the queue switches memtable and log file.
LEMMA AtomicSwitch ==
  ASSUME TypeOK, TypeOK', QueueInv, AtomicInv, NEW w \in Writer, SwitchMemTable(w)
  PROVE  AtomicInv'
<1>1. /\ UNCHANGED <<pc, writers_, last_writer, updates, batch, sync, seq, done, status>>
      /\ UNCHANGED <<last_sequence, synced, tables>>
      /\ log_' = << >> /\ imm_' = mem_ /\ has_imm_' /\ mem_' = {}
      /\ ~has_imm_ /\ pc[w] = "room"
  BY DEF SwitchMemTable, MaySwitch, queueVars
<1>2. Stored' = Stored
  BY <1>1 DEF Stored, AtomicInv, NumberInv
<1>3. Logged' = {} /\ LogOrdered'
  BY <1>1 DEF Logged, LogOrdered
<1>4. \A x \in Writer : pc[x] \notin Logging
  <2>1. Leading(w) /\ \A x \in Writer : pc[x] \in Logging => Leading(x)
    BY <1>1 DEF Leading
  <2> QED
    BY <1>1, <2>1, SoleLeader DEF Logging
<1> QED
  BY <1>1, <1>2, <1>3, <1>4, AtomicFrame

\* What is kept belongs to a call that has begun.
LEMMA KeptBegun ==
  ASSUME TypeOK, QueueInv, AtomicInv, NEW e \in Kept
  PROVE  e.w \in Writer /\ pc[e.w] # "idle"
<1>1. e.w \in Writer
  BY KeptEntries
<1>2. CASE Over(e.w)
  BY <1>1, <1>2 DEF Over, AtomicInv, LeaderInv
<1>3. CASE \E w \in Writer : pc[w] \in Keeping /\ e \in updates[w]
  <2>1. PICK w \in Writer : pc[w] \in Keeping /\ e \in updates[w]
    BY <1>3
  <2>2. e.w \in Group(w)
    BY <2>1 DEF AtomicInv, LeaderInv, Keeping, Logging
  <2> QED
    BY <1>1, <2>2, GroupWaits
<1> QED
  BY <1>1, <1>2, <1>3 DEF AtomicInv, KeptInv, Keeping

-----------------------------------------------------------------------------
(* The steps of the queue.                                                  *)

\* A call joins the queue: nothing of it is kept, and the group of the leader, which
\* lies before it, stays what it was.
LEMMA AtomicEnqueue ==
  ASSUME TypeOK, TypeOK', QueueInv, AtomicInv, NEW w \in Writer, Enqueue(w)
  PROVE  AtomicInv'
<1>1. /\ pc[w] = "idle" /\ pc' = [pc EXCEPT ![w] = "queue"]
      /\ done' = [done EXCEPT ![w] = FALSE]
      /\ writers_' = Append(writers_, w)
      /\ UNCHANGED <<status, last_writer, updates, seq>>
      /\ UNCHANGED dataVars
  BY DEF Enqueue, localVars
<1>2. /\ \A x \in Writer \ {w} : /\ pc'[x] = pc[x] /\ done'[x] = done[x]
                                 /\ batch'[x] = batch[x] /\ sync'[x] = sync[x]
      /\ pc'[w] = "queue" /\ ~done'[w]
  BY <1>1 DEF Enqueue, TypeOK
<1>3. /\ writers_ \in Seq(Writer)
      /\ Len(writers_') = Len(writers_) + 1
      /\ writers_'[Len(writers_) + 1] = w
      /\ \A i \in 1..Len(writers_) : writers_'[i] = writers_[i]
      /\ Len(writers_) \in Nat
  BY <1>1 DEF TypeOK
<1>4. ~InQueue(w)
  BY <1>1 DEF QueueInv
<1>5. \A x \in Writer \ {w} : InQueue(last_writer[x]) =>
                               Group(x)' = Group(x) /\ InQueue(last_writer[x])'
  <2> SUFFICES ASSUME NEW x \in Writer \ {w}, InQueue(last_writer[x])
               PROVE  Group(x)' = Group(x) /\ InQueue(last_writer[x])'
    OBVIOUS
  <2>1. /\ last_writer'[x] = last_writer[x] /\ last_writer[x] # w
        /\ \A i \in 1..Len(writers_') : i \in 1..Len(writers_) \/ i = Len(writers_) + 1
        /\ \A i \in 1..Len(writers_) : i \in 1..Len(writers_')
    BY <1>1, <1>3, <1>4
  <2>2. \A j \in 1..Len(writers_') :
          writers_'[j] = last_writer[x] => j \in 1..Len(writers_) /\ writers_[j] = last_writer[x]
    BY <1>3, <2>1
  <2>3. InQueue(last_writer[x])'
    BY <1>3, <2>1 DEF InQueue
  <2>4. ASSUME NEW y \in Group(x)' PROVE y \in Group(x)
    <3>1. PICK i \in 1..Len(writers_'), j \in 1..Len(writers_') :
            i <= j /\ writers_'[i] = y /\ writers_'[j] = last_writer[x]
      BY <2>1 DEF Group
    <3>2. j \in 1..Len(writers_) /\ writers_[j] = last_writer[x]
      BY <2>2, <3>1
    <3>3. i \in 1..Len(writers_) /\ writers_[i] = y
      BY <1>3, <3>1, <3>2
    <3> QED
      BY <3>1, <3>2, <3>3 DEF Group
  <2>5. ASSUME NEW y \in Group(x) PROVE y \in Group(x)'
    BY <1>3, <2>1 DEF Group
  <2> QED
    BY <2>3, <2>4, <2>5
<1>6. \A x \in Writer : Leading(x)' => x # w /\ Leading(x)
  BY <1>2 DEF Leading, Logging
<1>7. \A x \in Writer : Leading(x) => \A y \in Group(x) : y \in Writer \ {w}
  BY <1>1, GroupWaits
<1>8. \A x \in Writer : Leading(x)' =>
        /\ x # w /\ Leading(x) /\ pc'[x] = pc[x] /\ Group(x)' = Group(x)
        /\ InQueue(last_writer[x])'
        /\ \A y \in Group(x) : y \in Writer /\ batch'[y] = batch[y] /\ sync'[y] = sync[y]
        /\ sync'[x] = sync[x]
  BY <1>2, <1>5, <1>6, <1>7 DEF AtomicInv, LeaderInv
<1>9. LeaderInv'
  <2> SUFFICES ASSUME NEW x \in Writer
               PROVE  /\ Leading(x)' => InQueue(last_writer[x])'
                      /\ pc'[x] \in Making => last_writer'[x] = x
                      /\ pc'[x] \notin Logging \cup {"pop", "returned"} => updates'[x] = {}
                      /\ pc'[x] \in Logging \cup {"pop"} =>
                           \A e \in updates'[x] : e.w \in Group(x)' /\ e.i \in 1..batch'[e.w]
                      /\ pc'[x] \in Logging => GroupWritten(x)'
                      /\ pc'[x] = "idle" => ~done'[x]
    BY DEF LeaderInv, Making
  <2>1. pc'[x] \in Making => last_writer'[x] = x
    BY <1>1, <1>2 DEF AtomicInv, LeaderInv, Making
  <2>2. pc'[x] \notin Logging \cup {"pop", "returned"} => updates'[x] = {}
    BY <1>1, <1>2 DEF AtomicInv, LeaderInv, Logging
  <2>3. pc'[x] \in Logging \cup {"pop"} => Leading(x)'
    BY DEF Leading
  <2>4. pc'[x] \in Logging \cup {"pop"} =>
          \A e \in updates'[x] : e.w \in Group(x)' /\ e.i \in 1..batch'[e.w]
    BY <1>1, <1>8, <2>3 DEF AtomicInv, LeaderInv
  <2>5. ASSUME pc'[x] \in Logging PROVE GroupWritten(x)'
    <3>1. /\ Leading(x)' /\ pc[x] \in Logging /\ GroupWritten(x)
          /\ \A y \in Group(x) : batch'[y] = batch[y] /\ sync'[y] = sync[y]
          /\ Group(x)' = Group(x) /\ sync'[x] = sync[x]
      BY <1>8, <2>3, <2>5 DEF AtomicInv, LeaderInv
    <3> QED
      BY <1>1, <3>1 DEF GroupWritten, Covers, dataVars
  <2> QED
    BY <1>2, <1>8, <2>1, <2>2, <2>4, <2>5 DEF AtomicInv, LeaderInv
<1>10. /\ Stored' = Stored /\ Logged' = Logged /\ Kept' = Kept /\ Visible' = Visible
       /\ synced' = synced
  BY <1>1 DEF dataVars, Stored, Logged, Kept, Visible
<1>11. \A e \in Kept : e.w \in Writer /\ e.w # w
  BY <1>1, KeptBegun
<1>12. \A x \in Writer : Over(x)' <=> Over(x) /\ x # w
  BY <1>2, <1>1 DEF Over, AtomicInv, LeaderInv
<1>13. KeptInv'
  <2>1. \A x \in Writer : pc[x] \in Keeping => pc'[x] \in Keeping /\ updates'[x] = updates[x]
    BY <1>1, <1>2 DEF Keeping
  <2>2. ASSUME NEW e \in Kept
        PROVE  \/ Over(e.w)'
               \/ \E x \in Writer : pc'[x] \in Keeping /\ e \in updates'[x]
    BY <1>11, <1>12, <2>1 DEF AtomicInv, KeptInv, Keeping
  <2>3. \A e \in Kept : e.i \in 1..batch'[e.w]
    BY <1>2, <1>11 DEF AtomicInv, KeptInv
  <2> QED
    BY <1>10, <2>2, <2>3 DEF AtomicInv, KeptInv, Keeping
<1>14. \A x \in Writer \ {w} : (Served(x) => Served(x)') /\ (Refused(x) => Refused(x)')
  BY <1>2, <1>10, OutcomeFrame
<1>15. ProgressInv'
  <2>1. \A x \in Writer : pc'[x] \in Keeping => x # w /\ pc[x] \in Keeping /\ pc'[x] = pc[x]
    BY <1>2 DEF Keeping
  <2>2. \A x \in Writer : pc'[x] = "pop" =>
          \A y \in Group(x)' :
            /\ status'[x] = "ok" => Served(y)'
            /\ status'[x] = "error" => Refused(y)'
    <3> SUFFICES ASSUME NEW x \in Writer, pc'[x] = "pop", NEW y \in Group(x)'
                 PROVE  /\ status'[x] = "ok" => Served(y)'
                        /\ status'[x] = "error" => Refused(y)'
      OBVIOUS
    <3>1. pc[x] = "pop" /\ y \in Group(x) /\ y \in Writer \ {w}
      BY <1>7, <1>8, <2>1 DEF Keeping, Leading
    <3>2. (status[x] = "ok" => Served(y)) /\ (status[x] = "error" => Refused(y))
      BY <3>1 DEF AtomicInv, ProgressInv
    <3> QED
      BY <1>1, <1>14, <3>1, <3>2
  <2>3. \A x \in Writer : Over(x)' =>
          /\ status'[x] = "ok" => Served(x)'
          /\ status'[x] = "error" => Refused(x)'
    BY <1>1, <1>12, <1>14 DEF AtomicInv, ProgressInv
  <2>4. \A x \in Writer :
          /\ pc'[x] \in {"sync", "insert"} => status'[x] = "ok"
          /\ pc'[x] \in {"insert", "relock"} /\ status'[x] = "ok" /\ sync'[x] =>
               updates'[x] \subseteq synced'
          /\ pc'[x] = "relock" /\ status'[x] = "ok" => updates'[x] \subseteq mem_'
    BY <1>1, <1>2, <1>10, <2>1 DEF AtomicInv, ProgressInv, Keeping, dataVars
  <2> QED
    BY <2>2, <2>3, <2>4 DEF ProgressInv
<1>16. NumberInv'
  BY <1>1, <1>2, <1>10 DEF AtomicInv, NumberInv, LogOrdered, dataVars
<1> QED
  BY <1>9, <1>13, <1>15, <1>16 DEF AtomicInv

\* The front of the queue begins: it is its own last_writer.
LEMMA AtomicLead ==
  ASSUME TypeOK, TypeOK', QueueInv, AtomicInv, NEW w \in Writer, Lead(w)
  PROVE  AtomicInv'
<1>1. /\ pc[w] = "queue" /\ ~done[w] /\ pc' = [pc EXCEPT ![w] = "room"]
      /\ last_writer' = [last_writer EXCEPT ![w] = w]
      /\ UNCHANGED <<writers_, batch, sync, done, status, updates, seq>>
      /\ UNCHANGED dataVars
  BY DEF Lead, queueVars
<1>2. /\ \A x \in Writer \ {w} : pc'[x] = pc[x] /\ last_writer'[x] = last_writer[x]
      /\ pc'[w] = "room" /\ last_writer'[w] = w
  BY <1>1 DEF TypeOK
<1>3. InQueue(w)
  BY <1>1 DEF QueueInv
<1>4. \A x \in Writer \ {w} : Group(x)' = Group(x)
  BY <1>1, <1>2 DEF Group
<1>5. LeaderInv'
  <2>1. \A x \in Writer \ {w} : /\ InQueue(last_writer[x])' <=> InQueue(last_writer[x])
                                /\ Leading(x)' <=> Leading(x)
    BY <1>1, <1>2 DEF InQueue, Leading
  <2>2. InQueue(last_writer[w])'
    BY <1>1, <1>2, <1>3 DEF InQueue
  <2>3. \A x \in Writer \ {w} : GroupWritten(x)' <=> GroupWritten(x)
    BY <1>1, <1>4 DEF GroupWritten, Covers, dataVars
  <2>4. updates'[w] = {}
    BY <1>1 DEF AtomicInv, LeaderInv, Logging
  <2> QED
    BY <1>1, <1>2, <1>4, <2>1, <2>2, <2>3, <2>4 DEF AtomicInv, LeaderInv, Logging
<1>6. /\ Stored' = Stored /\ Logged' = Logged /\ Kept' = Kept /\ Visible' = Visible
      /\ synced' = synced
  BY <1>1 DEF dataVars, Stored, Logged, Kept, Visible
<1>7. \A x \in Writer : Over(x)' <=> Over(x)
  BY <1>1, <1>2 DEF Over
<1>8. KeptInv'
  BY <1>1, <1>2, <1>6, <1>7, KeptFrame DEF AtomicInv, Keeping
<1>9. \A x \in Writer : (Served(x) => Served(x)') /\ (Refused(x) => Refused(x)')
  BY <1>1, <1>6, OutcomeFrame
<1>10. ProgressInv'
  <2>1. \A x \in Writer : pc'[x] = "pop" =>
          \A y \in Group(x)' :
            /\ status'[x] = "ok" => Served(y)'
            /\ status'[x] = "error" => Refused(y)'
    <3> SUFFICES ASSUME NEW x \in Writer, pc'[x] = "pop", NEW y \in Group(x)'
                 PROVE  /\ status'[x] = "ok" => Served(y)'
                        /\ status'[x] = "error" => Refused(y)'
      OBVIOUS
    <3>1. pc[x] = "pop" /\ x # w
      BY <1>2
    <3>2. y \in Group(x) /\ y \in Writer
      BY <1>4, <3>1 DEF Group
    <3>3. (status[x] = "ok" => Served(y)) /\ (status[x] = "error" => Refused(y))
      BY <3>1, <3>2 DEF AtomicInv, ProgressInv
    <3> QED
      BY <1>1, <1>9, <3>2, <3>3
  <2>2. \A x \in Writer : Over(x)' =>
          /\ status'[x] = "ok" => Served(x)'
          /\ status'[x] = "error" => Refused(x)'
    BY <1>1, <1>7, <1>9 DEF AtomicInv, ProgressInv
  <2>3. \A x \in Writer :
          /\ pc'[x] \in {"sync", "insert"} => status'[x] = "ok"
          /\ pc'[x] \in {"insert", "relock"} /\ status'[x] = "ok" /\ sync'[x] =>
               updates'[x] \subseteq synced'
          /\ pc'[x] = "relock" /\ status'[x] = "ok" => updates'[x] \subseteq mem_'
    BY <1>1, <1>2, <1>6 DEF AtomicInv, ProgressInv, dataVars
  <2> QED
    BY <2>1, <2>2, <2>3 DEF ProgressInv
<1>11. NumberInv'
  BY <1>1, <1>2, <1>6 DEF AtomicInv, NumberInv, LogOrdered, dataVars
<1> QED
  BY <1>5, <1>8, <1>10, <1>11 DEF AtomicInv

\* The leader is the writer to look at: nobody else is past its turn, and the calls
\* that are over are not in its group.
LEMMA ProgressOfLeader ==
  ASSUME TypeOK, TypeOK', QueueInv, AtomicInv, NEW w \in Writer, Leading(w),
         \A x \in Writer \ {w} : pc'[x] = pc[x] /\ status'[x] = status[x],
         pc'[w] # "returned",
         UNCHANGED <<batch, sync, done>>,
         Visible \subseteq Visible', synced \subseteq synced',
         \A e \in Stored' : e \in Stored \/ e.w \in Group(w),
         pc'[w] \in {"sync", "insert"} => status'[w] = "ok",
         pc'[w] \in {"insert", "relock"} /\ status'[w] = "ok" /\ sync'[w] =>
           updates'[w] \subseteq synced',
         pc'[w] = "relock" /\ status'[w] = "ok" => updates'[w] \subseteq mem_',
         pc'[w] = "pop" => \A x \in Group(w)' :
                             /\ status'[w] = "ok" => Served(x)'
                             /\ status'[w] = "error" => Refused(x)'
  PROVE  ProgressInv'
<1>1. \A x \in Writer \ {w} : ~Leading(x)
  BY SoleLeader
<1>2. \A x \in Writer \ {w} : pc'[x] \notin Keeping
  BY <1>1 DEF Leading, Keeping, Logging
<1>3. ~Over(w)'
  BY DEF Over, QueueInv
<1>4. ASSUME NEW x \in Writer, Over(x)'
      PROVE  /\ status'[x] = "ok" => Served(x)'
             /\ status'[x] = "error" => Refused(x)'
  <2>1. x # w /\ Over(x) /\ status'[x] = status[x]
    BY <1>3, <1>4 DEF Over
  <2>2. \A e \in Stored' : e.w = x => e \in Stored
    BY <2>1, GroupWaits
  <2>3. (Served(x) => Served(x)') /\ (Refused(x) => Refused(x)')
    BY <2>2, OutcomeFrame
  <2> QED
    BY <2>1, <2>3 DEF AtomicInv, ProgressInv
<1> QED
  BY <1>2, <1>4 DEF ProgressInv, Keeping

\* The leader's group is the queue up to its last writer.
LEMMA GroupIsPrefix ==
  ASSUME TypeOK, QueueInv, NEW w \in Writer, NEW k \in 1..Len(writers_),
         writers_[k] = last_writer[w]
  PROVE  Group(w) = {writers_[j] : j \in 1..k}
<1>1. \A j \in 1..Len(writers_) : writers_[j] = last_writer[w] => j = k
  BY DEF QueueInv
<1>2. \A j \in 1..k : writers_[j] \in Writer /\ j \in 1..Len(writers_) /\ j <= k
  BY DEF TypeOK
<1>3. ASSUME NEW x \in Group(w) PROVE x \in {writers_[j] : j \in 1..k}
  <2>1. PICK i \in 1..Len(writers_), j \in 1..Len(writers_) :
          i <= j /\ writers_[i] = x /\ writers_[j] = last_writer[w]
    BY DEF Group
  <2>2. i \in 1..k
    BY <1>1, <2>1
  <2> QED
    BY <2>1, <2>2
<1>4. ASSUME NEW j \in 1..k PROVE writers_[j] \in Group(w)
  BY <1>2 DEF Group
<1> QED
  BY <1>3, <1>4

\* MakeRoomForWrite() failed, or a NULL batch needs no more: the group is the
\* leader alone, and nothing of it is kept.
LEMMA AtomicGiveUp ==
  ASSUME TypeOK, TypeOK', QueueInv, AtomicInv, NEW w \in Writer,
         BackgroundError(w) \/ SwitchFails(w) \/ (Room(w) /\ batch[w] = NullBatch)
  PROVE  AtomicInv'
<1>0. pc \in [Writer -> Location] /\ status \in [Writer -> {"ok", "error"}]
  BY DEF TypeOK
<1>1. /\ pc[w] = "room" /\ pc' = [pc EXCEPT ![w] = "pop"]
      /\ \A x \in Writer \ {w} : pc'[x] = pc[x] /\ status'[x] = status[x]
      /\ status'[w] = "error" \/ batch[w] = NullBatch
      /\ UNCHANGED <<writers_, last_writer, updates, batch, sync, seq, done>>
      /\ UNCHANGED dataVars
  <2>1. pc[w] = "room" /\ pc' = [pc EXCEPT ![w] = "pop"]
    BY DEF BackgroundError, SwitchFails, Room
  <2>2. PICK r \in {"ok", "error"} :
          /\ status' = [status EXCEPT ![w] = r]
          /\ r = "error" \/ batch[w] = NullBatch
    BY DEF BackgroundError, SwitchFails, Room
  <2>3. UNCHANGED <<batch, sync, done, writers_, localVars, dataVars>>
    <3>1. CASE BackgroundError(w)
      BY <3>1 DEF BackgroundError
    <3>2. CASE SwitchFails(w)
      BY <3>2 DEF SwitchFails
    <3>3. CASE Room(w)
      BY <3>3 DEF Room
    <3> QED
      BY <3>1, <3>2, <3>3
  <2>4. \A x \in Writer \ {w} : pc'[x] = pc[x] /\ status'[x] = status[x]
    BY <1>0, <2>1, <2>2
  <2>5. status'[w] = "error" \/ batch[w] = NullBatch
    BY <1>0, <2>2
  <2> QED
    BY <2>1, <2>3, <2>4, <2>5 DEF localVars
<1>2. /\ Leading(w) /\ pc'[w] = "pop" /\ last_writer[w] = w
      /\ updates[w] = {} /\ InQueue(last_writer[w])
  BY <1>0, <1>1 DEF Leading, AtomicInv, LeaderInv, Logging
<1>3. \A x \in Writer : Group(x)' = Group(x)
  BY <1>1 DEF Group
<1>4. Group(w) \subseteq {w}
  <2>1. writers_[1] = w /\ 1 \in 1..Len(writers_)
    BY <1>2 DEF QueueInv, TypeOK
  <2>2. Group(w) = {writers_[j] : j \in 1..1}
    BY <1>2, <2>1, GroupIsPrefix
  <2> QED
    BY <2>1, <2>2
<1>5. /\ Stored' = Stored /\ Logged' = Logged /\ Kept' = Kept /\ Visible' = Visible
      /\ synced' = synced
  BY <1>1 DEF dataVars, Stored, Logged, Kept, Visible
<1>6. Refused(w)
  <2> SUFFICES ASSUME NEW e \in Stored, e.w = w PROVE FALSE
    BY DEF Refused
  <2>1. e \in Kept /\ w \in Group(w)
    BY <1>2, LeaderInGroup DEF Kept, AtomicInv
  <2> QED
    BY <1>2, <2>1, GroupKept
<1>7. batch[w] = NullBatch => Served(w)
  BY DEF NullBatch, Served, Covers
<1>8. (Served(w) => Served(w)') /\ (Refused(w) => Refused(w)')
  BY <1>1, <1>5, OutcomeFrame
<1>9. ProgressInv'
  <2>1. \A x \in Group(w)' : /\ status'[w] = "ok" => Served(x)'
                             /\ status'[w] = "error" => Refused(x)'
    BY <1>1, <1>3, <1>4, <1>6, <1>7, <1>8
  <2> QED
    BY <1>1, <1>2, <1>5, <2>1, ProgressOfLeader
<1>10. LeaderInv'
  <2>1. \A x \in Writer \ {w} : /\ InQueue(last_writer[x])' <=> InQueue(last_writer[x])
                                /\ Leading(x)' <=> Leading(x)
    BY <1>1 DEF InQueue, Leading
  <2>2. InQueue(last_writer[w])'
    BY <1>1, <1>2 DEF InQueue
  <2>3. \A x \in Writer : GroupWritten(x)' <=> GroupWritten(x)
    BY <1>1, <1>3 DEF GroupWritten, Covers, dataVars
  <2> QED
    BY <1>1, <1>2, <1>3, <2>1, <2>2, <2>3 DEF AtomicInv, LeaderInv, Logging
<1>11. KeptInv'
  <2>1. \A x \in Writer : Over(x)' <=> Over(x)
    BY <1>1, <1>2 DEF Over
  <2> QED
    BY <1>1, <1>2, <1>5, <2>1, KeptFrame DEF AtomicInv, Keeping
<1>12. NumberInv'
  BY <1>1, <1>2, <1>5 DEF AtomicInv, NumberInv, LogOrdered, dataVars
<1> QED
  BY <1>9, <1>10, <1>11, <1>12 DEF AtomicInv

\* A member of a group returns what the leader left it.
LEMMA AtomicReturnDone ==
  ASSUME TypeOK, TypeOK', QueueInv, AtomicInv, NEW w \in Writer, ReturnDone(w)
  PROVE  AtomicInv'
<1>1. /\ pc[w] = "queue" /\ done[w] /\ pc' = [pc EXCEPT ![w] = "returned"]
      /\ UNCHANGED <<writers_, last_writer, updates, batch, sync, seq, done, status>>
      /\ UNCHANGED dataVars
  BY DEF ReturnDone, queueVars, localVars
<1>2. /\ \A x \in Writer \ {w} : pc'[x] = pc[x]
      /\ pc'[w] = "returned"
  BY <1>1 DEF TypeOK
<1>3. /\ \A x \in Writer : Group(x)' = Group(x)
      /\ \A x \in Writer : Over(x)' <=> Over(x)
  BY <1>1, <1>2 DEF Group, Over
<1>4. /\ Stored' = Stored /\ Logged' = Logged /\ Kept' = Kept /\ Visible' = Visible
      /\ synced' = synced
  BY <1>1 DEF dataVars, Stored, Logged, Kept, Visible
<1>5. LeaderInv'
  <2>1. \A x \in Writer : /\ InQueue(last_writer[x])' <=> InQueue(last_writer[x])
                          /\ Leading(x)' => Leading(x)
    BY <1>1, <1>2 DEF InQueue, Leading, Logging
  <2>2. \A x \in Writer : GroupWritten(x)' <=> GroupWritten(x)
    BY <1>1, <1>3 DEF GroupWritten, Covers, dataVars
  <2> QED
    BY <1>1, <1>2, <1>3, <2>1, <2>2 DEF AtomicInv, LeaderInv, Logging
<1>6. KeptInv'
  BY <1>1, <1>2, <1>3, <1>4, KeptFrame DEF AtomicInv, Keeping
<1>7. \A x \in Writer : (Served(x) => Served(x)') /\ (Refused(x) => Refused(x)')
  BY <1>1, <1>4, OutcomeFrame
<1>8. ProgressInv'
  <2>1. \A x \in Writer : pc'[x] = "pop" =>
          \A y \in Group(x)' :
            /\ status'[x] = "ok" => Served(y)'
            /\ status'[x] = "error" => Refused(y)'
    <3> SUFFICES ASSUME NEW x \in Writer, pc'[x] = "pop", NEW y \in Group(x)'
                 PROVE  /\ status'[x] = "ok" => Served(y)'
                        /\ status'[x] = "error" => Refused(y)'
      OBVIOUS
    <3>1. pc[x] = "pop" /\ y \in Group(x) /\ y \in Writer
      BY <1>2, <1>3 DEF Group
    <3>2. (status[x] = "ok" => Served(y)) /\ (status[x] = "error" => Refused(y))
      BY <3>1 DEF AtomicInv, ProgressInv
    <3> QED
      BY <1>1, <1>7, <3>1, <3>2
  <2>2. \A x \in Writer : Over(x)' =>
          /\ status'[x] = "ok" => Served(x)'
          /\ status'[x] = "error" => Refused(x)'
    BY <1>1, <1>3, <1>7 DEF AtomicInv, ProgressInv
  <2>3. \A x \in Writer :
          /\ pc'[x] \in {"sync", "insert"} => status'[x] = "ok"
          /\ pc'[x] \in {"insert", "relock"} /\ status'[x] = "ok" /\ sync'[x] =>
               updates'[x] \subseteq synced'
          /\ pc'[x] = "relock" /\ status'[x] = "ok" => updates'[x] \subseteq mem_'
    BY <1>1, <1>2, <1>4 DEF AtomicInv, ProgressInv, dataVars
  <2> QED
    BY <2>1, <2>2, <2>3 DEF ProgressInv
<1>9. NumberInv'
  BY <1>1, <1>2, <1>4 DEF AtomicInv, NumberInv, LogOrdered, dataVars
<1> QED
  BY <1>5, <1>6, <1>8, <1>9 DEF AtomicInv

-----------------------------------------------------------------------------
(* The steps of the group: build, log, sync, insert, publish, pop.          *)

\* While a leader is in its first step of logging, nothing above LastSequence() is
\* stored or logged; in general only its own group is.
LEMMA NumbersOfLeader ==
  ASSUME TypeOK, QueueInv, AtomicInv, NEW w \in Writer, Leading(w)
  PROVE  /\ \A e \in Stored : \/ e.seq <= last_sequence
                              \/ /\ pc[w] \in {"insert", "relock"} /\ status[w] = "ok"
                                 /\ e \in updates[w]
         /\ \A e \in Logged : \/ e.seq <= last_sequence
                              \/ /\ pc[w] \in {"sync", "insert", "relock"}
                                 /\ e \in updates[w]
<1>1. \A x \in Writer : pc[x] \in {"sync", "insert", "relock"} => x = w
  BY SoleLeader DEF Leading, Logging
<1> QED
  BY <1>1 DEF AtomicInv, NumberInv

\* BuildBatchGroup: the group is a prefix of the queue, numbered by SetSequence.
LEMMA AtomicBuild ==
  ASSUME TypeOK, TypeOK', QueueInv, QueueInv', AtomicInv, NEW w \in Writer,
         BuildBatchGroup(w)
  PROVE  AtomicInv'
<1>0. /\ pc \in [Writer -> Location] /\ updates \in [Writer -> SUBSET Entry]
      /\ last_writer \in [Writer -> Writer] /\ seq \in [Writer -> Nat]
      /\ last_sequence \in Nat /\ writers_ \in Seq(Writer)
  BY DEF TypeOK
<1>1. /\ pc[w] = "build" /\ pc' = [pc EXCEPT ![w] = "log"]
      /\ UNCHANGED <<writers_, batch, sync, done, status>>
      /\ UNCHANGED dataVars
  BY DEF BuildBatchGroup, queueVars
<1>2. PICK k \in 1..Len(writers_) :
        /\ GroupEnds(k)
        /\ last_writer' = [last_writer EXCEPT ![w] = writers_[k]]
        /\ updates' = [updates EXCEPT ![w] = Sequenced(k, last_sequence)]
        /\ seq' = [seq EXCEPT ![w] = last_sequence + Cardinality(Ops(k))]
  BY DEF BuildBatchGroup
<1>3. /\ pc'[w] = "log" /\ last_writer'[w] = writers_[k]
      /\ updates'[w] = Sequenced(k, last_sequence)
      /\ seq'[w] = last_sequence + Cardinality(Ops(k))
      /\ \A x \in Writer \ {w} :
           /\ pc'[x] = pc[x] /\ last_writer'[x] = last_writer[x]
           /\ updates'[x] = updates[x] /\ seq'[x] = seq[x]
  BY <1>0, <1>1, <1>2
<1>4. /\ Leading(w) /\ writers_[1] = w /\ writers_ # << >>
  BY <1>1 DEF Leading, QueueInv
<1>5. \A x \in Writer \ {w} : Group(x)' = Group(x)
  BY <1>1, <1>3 DEF Group
<1>6. Group(w)' = {writers_[j] : j \in 1..k}
  <2>1. writers_' = writers_ /\ writers_'[k] = last_writer'[w] /\ k \in 1..Len(writers_')
    BY <1>1, <1>3
  <2>2. ASSUME NEW i \in 1..Len(writers_'), writers_'[i] = last_writer'[w]
        PROVE  i = k
    BY <2>1, <2>2 DEF QueueInv
  <2>3. Group(w)' = {x \in Writer : \E i, j \in 1..Len(writers_) :
                       i <= j /\ writers_[i] = x /\ writers_[j] = writers_[k]}
    BY <1>3, <2>1 DEF Group
  <2>4. ASSUME NEW x \in Group(w)' PROVE x \in {writers_[j] : j \in 1..k}
    <3>1. PICK i \in 1..Len(writers_), j \in 1..Len(writers_) :
            i <= j /\ writers_[i] = x /\ writers_[j] = writers_[k]
      BY <2>3
    <3>2. j = k
      BY <3>1 DEF QueueInv
    <3>3. i \in 1..k
      BY <3>1, <3>2
    <3> QED
      BY <3>1, <3>3
  <2>5. ASSUME NEW j \in 1..k PROVE writers_[j] \in Group(w)'
    <3>1. j \in 1..Len(writers_) /\ j <= k /\ writers_[j] \in Writer
      BY <1>0
    <3> QED
      BY <2>3, <3>1
  <2> QED
    BY <2>4, <2>5
<1>7. LET U == Sequenced(k, last_sequence)
      IN  /\ \A e \in U : /\ \E j \in 1..k : e.w = writers_[j]
                          /\ e.i \in 1..batch[e.w]
                          /\ last_sequence < e.seq
                          /\ e.seq <= last_sequence + Cardinality(Ops(k))
          /\ \A j \in 1..k : Covers(U, writers_[j])
          /\ \A e, f \in U : /\ e.seq = f.seq => e = f
                             /\ e.w = f.w => e.seq - f.seq = e.i - f.i
  BY <1>0, SequencedFacts
<1>8. \A j \in 1..k : sync[writers_[j]] => sync[w]
  <2> SUFFICES ASSUME NEW j \in 1..k, sync[writers_[j]], j # 1 PROVE sync[w]
    BY <1>4
  <2>1. j \in 2..k
    OBVIOUS
  <2> QED
    BY <1>2, <1>4, <2>1 DEF GroupEnds, Joins
<1>9. GroupWritten(w)'
  <2>1. \A e \in updates'[w] : last_sequence' < e.seq /\ e.seq <= seq'[w]
    BY <1>1, <1>3, <1>7 DEF dataVars
  <2>2. \A x \in Group(w)' : Covers(updates[w], x)'
    BY <1>1, <1>3, <1>6, <1>7 DEF Covers
  <2>3. \A x \in Group(w)' : sync'[x] => sync'[w]
    BY <1>1, <1>6, <1>8
  <2>4. \A e, f \in updates'[w] : /\ e.seq = f.seq => e = f
                                  /\ e.w = f.w => e.seq - f.seq = e.i - f.i
    BY <1>3, <1>7
  <2>5. last_sequence' <= seq'[w]
    <3>1. Cardinality(Ops(k)) \in Nat
      BY OpsFinite, FS_CardinalityType
    <3> QED
      BY <1>0, <1>1, <1>3, <3>1 DEF dataVars
  <2> QED
    BY <2>1, <2>2, <2>3, <2>4, <2>5 DEF GroupWritten
<1>10. LeaderInv'
  <2> SUFFICES ASSUME NEW x \in Writer
               PROVE  /\ Leading(x)' => InQueue(last_writer[x])'
                      /\ pc'[x] \in Making => last_writer'[x] = x
                      /\ pc'[x] \notin Logging \cup {"pop", "returned"} => updates'[x] = {}
                      /\ pc'[x] \in Logging \cup {"pop"} =>
                           \A e \in updates'[x] : e.w \in Group(x)' /\ e.i \in 1..batch'[e.w]
                      /\ pc'[x] \in Logging => GroupWritten(x)'
                      /\ pc'[x] = "idle" => ~done'[x]
    BY DEF LeaderInv, Making
  <2>1. CASE x = w
    <3>1. InQueue(last_writer[w])'
      BY <1>1, <1>3 DEF InQueue
    <3>2. \A e \in updates'[w] : e.w \in Group(w)' /\ e.i \in 1..batch'[e.w]
      BY <1>1, <1>3, <1>6, <1>7
    <3> QED
      BY <1>3, <1>9, <2>1, <3>1, <3>2 DEF Making, Logging
  <2>2. CASE x # w
    <3>1. ~Leading(x) /\ ~Leading(x)' /\ pc'[x] = pc[x] /\ pc'[x] \notin Logging \cup {"pop"}
      BY <1>3, <1>4, <2>2, SoleLeader DEF Leading
    <3>2. pc'[x] \notin Making
      BY <3>1 DEF Leading, Making
    <3> QED
      BY <1>1, <1>3, <2>2, <3>1, <3>2 DEF AtomicInv, LeaderInv
  <2> QED
    BY <2>1, <2>2
<1>11. /\ Stored' = Stored /\ Logged' = Logged /\ Kept' = Kept /\ Visible' = Visible
       /\ synced' = synced
  BY <1>1 DEF dataVars, Stored, Logged, Kept, Visible
<1>12. KeptInv'
  <2>1. \A x \in Writer : Over(x)' <=> Over(x)
    BY <1>1, <1>3 DEF Over
  <2> QED
    BY <1>1, <1>3, <1>11, <2>1, KeptFrame DEF AtomicInv, Keeping
<1>13. ProgressInv'
  BY <1>1, <1>3, <1>4, <1>11, ProgressOfLeader
<1>14. NumberInv'
  <2>1. /\ \A e \in Stored' : e.seq <= last_sequence'
        /\ \A e \in Logged' : e.seq <= last_sequence'
    BY <1>1, <1>4, <1>11, NumbersOfLeader DEF dataVars
  <2> QED
    BY <1>1, <2>1 DEF AtomicInv, NumberInv, LogOrdered, dataVars
<1> QED
  BY <1>10, <1>12, <1>13, <1>14 DEF AtomicInv

\* What the steps between AddRecord() and Publish have in common.
LEMMA LoggingStep ==
  ASSUME TypeOK, TypeOK', QueueInv, AtomicInv, NEW w \in Writer,
         AddRecord(w) \/ SyncLog(w) \/ Insert(w) \/ InsertDone(w)
  PROVE  /\ pc[w] \in Logging /\ pc'[w] \in Logging /\ Leading(w)
         /\ \A x \in Writer \ {w} : pc'[x] = pc[x] /\ status'[x] = status[x]
         /\ UNCHANGED <<writers_, last_writer, updates, batch, sync, seq, done,
                        last_sequence, has_imm_, imm_, tables>>
         /\ LeaderInv' /\ \A x \in Writer : Group(x)' = Group(x)
         /\ \A x \in Writer : Over(x)' <=> Over(x)
<1>0. pc \in [Writer -> Location] /\ status \in [Writer -> {"ok", "error"}]
  BY DEF TypeOK
<1>1. /\ UNCHANGED <<writers_, last_writer, updates, batch, sync, seq, done>>
      /\ UNCHANGED <<last_sequence, has_imm_, imm_, tables>>
  BY DEF AddRecord, SyncLog, Insert, InsertDone, queueVars, localVars, dataVars
<1>2. /\ pc[w] \in Logging /\ pc'[w] \in Logging /\ Leading(w)
      /\ \A x \in Writer \ {w} : pc'[x] = pc[x]
  BY <1>0 DEF AddRecord, AfterLog, SyncLog, Insert, InsertDone, Logging, Leading
<1>3. \A x \in Writer \ {w} : status'[x] = status[x]
  BY <1>0 DEF AddRecord, SyncLog, Insert, InsertDone, queueVars
<1>4. LeaderInv' /\ \A x \in Writer : Group(x)' = Group(x)
  <2>1. \A x \in Writer : pc'[x] = pc[x] \/ (pc[x] \in Logging /\ pc'[x] \in Logging)
    BY <1>2
  <2> QED
    BY <1>1, <2>1, LeaderFrame DEF AtomicInv
<1>5. \A x \in Writer : Over(x)' <=> Over(x)
  BY <1>1, <1>2 DEF Over, Logging
<1> QED
  BY <1>1, <1>2, <1>3, <1>4, <1>5

\* The record is appended after everything in the file and has larger numbers.
LEMMA AtomicAddRecord ==
  ASSUME TypeOK, TypeOK', QueueInv, AtomicInv, NEW w \in Writer, AddRecord(w)
  PROVE  AtomicInv'
<1>0. /\ pc \in [Writer -> Location] /\ status \in [Writer -> {"ok", "error"}]
      /\ log_ \in Seq(SUBSET Entry) /\ updates[w] \in SUBSET Entry
      /\ last_sequence \in Nat
  BY DEF TypeOK
<1>1. /\ pc[w] = "log" /\ pc'[w] \in {"sync", "insert", "relock"}
      /\ pc'[w] \in {"sync", "insert"} <=> status'[w] = "ok"
      /\ pc'[w] = "insert" => ~sync[w]
      /\ log_' = Append(log_, updates[w]) \/ log_' = log_
      /\ UNCHANGED <<synced, mem_>>
  BY <1>0 DEF AddRecord, AfterLog
<1>2. /\ Leading(w)
      /\ \A x \in Writer \ {w} : pc'[x] = pc[x] /\ status'[x] = status[x]
      /\ UNCHANGED <<writers_, last_writer, updates, batch, sync, seq, done,
                     last_sequence, has_imm_, imm_, tables>>
      /\ LeaderInv' /\ \A x \in Writer : Group(x)' = Group(x)
      /\ \A x \in Writer : Over(x)' <=> Over(x)
  BY LoggingStep
<1>3. /\ \A e \in updates[w] : /\ e.w \in Group(w) /\ e.i \in 1..batch[e.w]
                               /\ last_sequence < e.seq
      /\ \A e, f \in updates[w] : /\ e.seq = f.seq => e = f
                                  /\ e.w = f.w => e.seq - f.seq = e.i - f.i
  BY <1>1 DEF AtomicInv, LeaderInv, GroupWritten, Logging
<1>4. \A e \in Kept : e.w \notin Group(w)
  BY <1>1, <1>2, GroupKept DEF Keeping
<1>5. Logged' \subseteq Logged \cup updates[w]
  <2>1. CASE log_' = Append(log_, updates[w])
    <3>1. UNION {Append(log_, updates[w])[r] : r \in DOMAIN Append(log_, updates[w])}
            = updates[w] \cup UNION {log_[r] : r \in DOMAIN log_}
      BY <1>0, LoggedAppend
    <3> QED
      BY <2>1, <3>1 DEF Logged
  <2>2. CASE log_' = log_
    BY <2>2 DEF Logged
  <2> QED
    BY <1>1, <2>1, <2>2
<1>6. /\ Stored' = Stored /\ Visible' = Visible /\ synced' = synced
      /\ Kept' \subseteq Kept \cup updates[w]
  BY <1>1, <1>2, <1>5 DEF Stored, Visible, Kept
<1>7. KeptInv'
  <2>1. ASSUME NEW e \in Kept'
        PROVE  \/ Over(e.w)'
               \/ \E x \in Writer : pc'[x] \in Keeping /\ e \in updates'[x]
    <3>1. CASE e \in updates[w]
      BY <1>1, <1>2, <3>1 DEF Keeping
    <3>2. CASE e \in Kept
      <4>1. \A x \in Writer : pc[x] \in Keeping => pc'[x] \in Keeping /\ x # w
        BY <1>1, <1>2 DEF Keeping
      <4>2. e.w \in Writer
        BY <3>2, KeptEntries
      <4> QED
        BY <1>2, <3>2, <4>1, <4>2 DEF AtomicInv, KeptInv, Keeping
    <3> QED
      BY <1>6, <3>1, <3>2
  <2>2. \A e \in Kept' : e.i \in 1..batch'[e.w]
    BY <1>2, <1>3, <1>6 DEF AtomicInv, KeptInv
  <2>3. ASSUME NEW e \in Kept', NEW f \in Kept', e.w = f.w, e.i = f.i PROVE e = f
    <3>1. CASE e \in updates[w] /\ f \in updates[w]
      <4>1. e.seq - f.seq = e.i - f.i /\ e.seq \in Int /\ f.seq \in Int /\ e.i \in Int
        BY <1>0, <1>3, <2>3, <3>1 DEF Entry
      <4>2. e.seq = f.seq
        BY <2>3, <4>1
      <4> QED
        BY <1>3, <3>1, <4>2
    <3>2. CASE e \in Kept /\ f \in Kept
      BY <2>3, <3>2 DEF AtomicInv, KeptInv
    <3> QED
      BY <1>3, <1>4, <1>6, <2>3, <3>1, <3>2
  <2> QED
    BY <2>1, <2>2, <2>3 DEF KeptInv, Keeping
<1>8. ProgressInv'
  BY <1>1, <1>2, <1>6, ProgressOfLeader
<1>9. LogOrdered'
  <2>1. CASE log_' = Append(log_, updates[w])
    <3>1. /\ Len(log_) \in Nat /\ DOMAIN log_ = 1..Len(log_)
          /\ DOMAIN log_' = 1..(Len(log_) + 1)
          /\ log_'[Len(log_) + 1] = updates[w]
          /\ \A r \in 1..Len(log_) : log_'[r] = log_[r]
      BY <1>0, <2>1
    <3>2. \A e \in Logged : e.seq <= last_sequence /\ e.seq \in Nat
      BY <1>1, <1>2, NumbersOfLeader, KeptEntries
    <3>3. ASSUME NEW r1 \in DOMAIN log_', NEW r2 \in DOMAIN log_', r1 < r2,
                 NEW e \in log_'[r1], NEW f \in log_'[r2]
          PROVE  e.seq < f.seq
      <4>1. r1 \in 1..Len(log_) /\ e \in log_[r1]
        BY <3>1, <3>3
      <4>2. CASE r2 \in 1..Len(log_)
        BY <3>1, <3>3, <4>1, <4>2 DEF AtomicInv, NumberInv, LogOrdered
      <4>3. CASE r2 = Len(log_) + 1
        <5>1. f \in updates[w] /\ last_sequence < f.seq /\ f.seq \in Nat
          BY <1>0, <1>3, <3>1, <3>3, <4>3 DEF Entry
        <5>2. e \in Logged
          BY <3>1, <4>1 DEF Logged
        <5> QED
          BY <1>0, <3>2, <5>1, <5>2
      <4> QED
        BY <3>1, <4>2, <4>3
    <3> QED
      BY <3>3 DEF LogOrdered
  <2>2. CASE log_' = log_
    BY <2>2 DEF AtomicInv, NumberInv, LogOrdered
  <2> QED
    BY <1>1, <2>1, <2>2
<1>10. NumberInv'
  <2>1. \A e \in Stored' : e.seq <= last_sequence'
    BY <1>1, <1>2, <1>6, NumbersOfLeader
  <2>2. \A e \in Logged' : e.seq <= last_sequence' \/ e \in updates'[w]
    BY <1>1, <1>2, <1>5, NumbersOfLeader
  <2> QED
    BY <1>1, <1>2, <1>9, <2>1, <2>2 DEF AtomicInv, NumberInv
<1> QED
  BY <1>2, <1>7, <1>8, <1>10 DEF AtomicInv

\* An fsync covers the leader's record with the rest of the file.
LEMMA AtomicSyncLog ==
  ASSUME TypeOK, TypeOK', QueueInv, LogInv, AtomicInv, NEW w \in Writer, SyncLog(w)
  PROVE  AtomicInv'
<1>0. pc \in [Writer -> Location] /\ status \in [Writer -> {"ok", "error"}]
  BY DEF TypeOK
<1>1. /\ pc[w] = "sync" /\ pc'[w] \in {"insert", "relock"}
      /\ pc'[w] = "insert" <=> status'[w] = "ok"
      /\ synced' = (IF status'[w] = "ok" THEN synced \cup Logged ELSE synced)
      /\ UNCHANGED <<log_, mem_>>
  BY <1>0 DEF SyncLog, Logged
<1>2. /\ Leading(w)
      /\ \A x \in Writer \ {w} : pc'[x] = pc[x] /\ status'[x] = status[x]
      /\ UNCHANGED <<writers_, last_writer, updates, batch, sync, seq, done,
                     last_sequence, has_imm_, imm_, tables>>
      /\ LeaderInv' /\ \A x \in Writer : Group(x)' = Group(x)
      /\ \A x \in Writer : Over(x)' <=> Over(x)
  BY LoggingStep
<1>3. updates[w] \subseteq Logged
  BY <1>1 DEF LogInv, Logged
<1>4. /\ Stored' = Stored /\ Logged' = Logged /\ Visible' = Visible
      /\ Kept' = Kept /\ synced \subseteq synced'
  BY <1>1, <1>2 DEF Stored, Visible, Kept, Logged
<1>5. KeptInv'
  BY <1>1, <1>2, <1>4, KeptFrame DEF AtomicInv, Keeping
<1>6. ProgressInv'
  BY <1>1, <1>2, <1>3, <1>4, ProgressOfLeader
<1>7. NumberInv'
  <2>1. \A e \in Stored' : e.seq <= last_sequence'
    BY <1>1, <1>2, <1>4, NumbersOfLeader
  <2>2. \A e \in Logged' : e.seq <= last_sequence' \/ e \in updates'[w]
    BY <1>2, <1>4, NumbersOfLeader
  <2> QED
    BY <1>1, <1>2, <2>1, <2>2 DEF AtomicInv, NumberInv, LogOrdered
<1> QED
  BY <1>2, <1>5, <1>6, <1>7 DEF AtomicInv

\* An inserted operation is logged and above LastSequence().
LEMMA AtomicInsert ==
  ASSUME TypeOK, TypeOK', QueueInv, LogInv, AtomicInv, NEW w \in Writer,
         Insert(w) \/ InsertDone(w)
  PROVE  AtomicInv'
<1>0. pc \in [Writer -> Location] /\ status \in [Writer -> {"ok", "error"}]
  BY DEF TypeOK
<1>1. /\ pc[w] = "insert" /\ pc'[w] \in {"insert", "relock"} /\ status'[w] = status[w]
      /\ pc'[w] = "relock" => updates[w] \subseteq mem_
      /\ mem_ \subseteq mem_' /\ mem_' \subseteq mem_ \cup updates[w]
      /\ UNCHANGED <<log_, synced>>
  BY <1>0 DEF Insert, InsertDone, queueVars, dataVars
<1>2. /\ Leading(w)
      /\ \A x \in Writer \ {w} : pc'[x] = pc[x] /\ status'[x] = status[x]
      /\ UNCHANGED <<writers_, last_writer, updates, batch, sync, seq, done,
                     last_sequence, has_imm_, imm_, tables>>
      /\ LeaderInv' /\ \A x \in Writer : Group(x)' = Group(x)
      /\ \A x \in Writer : Over(x)' <=> Over(x)
  BY LoggingStep
<1>3. /\ updates[w] \subseteq Logged /\ status[w] = "ok"
      /\ \A e \in updates[w] : e.w \in Group(w)
      /\ sync[w] => updates[w] \subseteq synced
  BY <1>1 DEF LogInv, Logged, AtomicInv, LeaderInv, ProgressInv, Logging
<1>4. /\ Stored \subseteq Stored' /\ Stored' \subseteq Stored \cup updates[w]
      /\ Logged' = Logged /\ Kept' \subseteq Kept /\ Visible \subseteq Visible'
  BY <1>1, <1>2, <1>3 DEF Stored, Visible, Kept, Logged
<1>5. KeptInv'
  BY <1>1, <1>2, <1>4, KeptFrame DEF AtomicInv, Keeping
<1>6. ProgressInv'
  <2>1. \A e \in Stored' : e \in Stored \/ e.w \in Group(w)
    BY <1>3, <1>4
  <2> QED
    BY <1>1, <1>2, <1>3, <1>4, <2>1, ProgressOfLeader
<1>7. NumberInv'
  <2>1. \A e \in Stored' : e.seq <= last_sequence' \/ e \in updates'[w]
    BY <1>2, <1>4, NumbersOfLeader
  <2>2. \A e \in Logged' : e.seq <= last_sequence' \/ e \in updates'[w]
    BY <1>2, <1>4, NumbersOfLeader
  <2> QED
    BY <1>1, <1>2, <1>3, <2>1, <2>2 DEF AtomicInv, NumberInv, LogOrdered
<1> QED
  BY <1>2, <1>5, <1>6, <1>7 DEF AtomicInv

\* What Publish shows to readers: the whole group, or nothing when it failed.
LEMMA PublishShows ==
  ASSUME TypeOK, TypeOK', QueueInv, AtomicInv, NEW w \in Writer, Publish(w)
  PROVE  /\ pc[w] = "relock" /\ Leading(w) /\ pc' = [pc EXCEPT ![w] = "pop"]
         /\ UNCHANGED <<writers_, last_writer, updates, batch, sync, seq, done, status,
                        log_, synced, mem_, has_imm_, imm_, tables>>
         /\ last_sequence' = seq[w] /\ GroupWritten(w)
         /\ \A e \in updates[w] : e.w \in Group(w) /\ e.i \in 1..batch[e.w]
         /\ status[w] = "ok" => /\ Visible' = Visible \cup updates[w]
                                /\ updates[w] \subseteq Stored
         /\ status[w] = "error" => /\ Visible' = Visible
                                   /\ updates[w] \cap Stored = {}
<1>1. /\ pc[w] = "relock" /\ pc' = [pc EXCEPT ![w] = "pop"]
      /\ UNCHANGED <<writers_, last_writer, updates, batch, sync, seq, done, status>>
      /\ UNCHANGED <<log_, synced, mem_, has_imm_, imm_, tables>>
      /\ last_sequence' = seq[w]
  BY DEF Publish, LastSequenceAfter, queueVars
<1>2. Leading(w)
  BY <1>1 DEF Leading, Logging
<1>3. /\ GroupWritten(w)
      /\ \A e \in updates[w] : e.w \in Group(w) /\ e.i \in 1..batch[e.w]
  BY <1>1 DEF AtomicInv, LeaderInv, Logging
<1>4. /\ last_sequence \in Nat /\ seq[w] \in Nat /\ last_sequence <= seq[w]
      /\ \A e \in Stored \cup updates[w] : e.seq \in Nat
      /\ \A e \in updates[w] : last_sequence < e.seq /\ e.seq <= seq[w]
  BY <1>3, KeptEntries DEF TypeOK, GroupWritten
<1>5. /\ Visible = {e \in Stored : e.seq <= last_sequence}
      /\ Visible' = {e \in Stored : e.seq <= seq[w]}
  BY <1>1 DEF Visible, Stored
<1>6. \A e \in Stored : e.seq <= last_sequence \/ (status[w] = "ok" /\ e \in updates[w])
  BY <1>1, <1>2, NumbersOfLeader
<1>7. ASSUME status[w] = "ok"
      PROVE  Visible' = Visible \cup updates[w] /\ updates[w] \subseteq Stored
  <2>1. updates[w] \subseteq Stored
    BY <1>1, <1>7 DEF AtomicInv, ProgressInv, Stored
  <2> QED
    BY <1>4, <1>5, <1>6, <2>1
<1>8. ASSUME status[w] = "error"
      PROVE  Visible' = Visible /\ updates[w] \cap Stored = {}
  <2>1. \A e \in Stored : e.seq <= last_sequence
    BY <1>6, <1>8
  <2>2. updates[w] \cap Stored = {}
    BY <1>4, <2>1
  <2> QED
    BY <1>4, <1>5, <2>1, <2>2
<1> QED
  BY <1>1, <1>2, <1>3, <1>7, <1>8

\* The group is visible when its status is OK, and no part of it otherwise.
LEMMA AtomicPublish ==
  ASSUME TypeOK, TypeOK', QueueInv, AtomicInv, NEW w \in Writer, Publish(w)
  PROVE  AtomicInv'
<1>1. /\ pc[w] = "relock" /\ Leading(w) /\ pc' = [pc EXCEPT ![w] = "pop"]
      /\ UNCHANGED <<writers_, last_writer, updates, batch, sync, seq, done, status>>
      /\ UNCHANGED <<log_, synced, mem_, has_imm_, imm_, tables>>
      /\ last_sequence' = seq[w] /\ GroupWritten(w)
      /\ \A e \in updates[w] : e.w \in Group(w) /\ e.i \in 1..batch[e.w]
      /\ status[w] = "ok" => Visible' = Visible \cup updates[w]
      /\ status[w] = "error" => Visible' = Visible /\ updates[w] \cap Stored = {}
  BY PublishShows
<1>2. pc'[w] = "pop" /\ \A x \in Writer \ {w} : pc'[x] = pc[x]
  BY <1>1 DEF TypeOK
<1>3. /\ Stored' = Stored /\ Logged' = Logged /\ Kept' = Kept /\ synced' = synced
      /\ Visible \subseteq Visible' /\ status[w] \in {"ok", "error"}
  BY <1>1 DEF Stored, Kept, Logged, TypeOK
<1>4. /\ \A x \in Writer : Group(x)' = Group(x)
      /\ \A x \in Writer : Over(x)' <=> Over(x)
  BY <1>1, <1>2 DEF Group, Over
<1>5. \A x \in Writer \ {w} : ~Leading(x) /\ ~Leading(x)'
  BY <1>1, <1>2, SoleLeader DEF Leading
<1>6. LeaderInv'
  <2>1. InQueue(last_writer[w])'
    BY <1>1 DEF AtomicInv, LeaderInv, InQueue
  <2>2. \A x \in Writer \ {w} : pc'[x] \notin Logging \cup Making \cup {"pop"}
    BY <1>5 DEF Leading, Making, Logging
  <2> QED
    BY <1>1, <1>2, <1>4, <1>5, <2>1, <2>2 DEF AtomicInv, LeaderInv, Logging, Making
<1>7. KeptInv'
  BY <1>1, <1>2, <1>3, <1>4, KeptFrame DEF AtomicInv, Keeping
<1>8. ASSUME NEW x \in Group(w)
      PROVE  /\ status[w] = "ok" => Served(x)'
             /\ status[w] = "error" => Refused(x)'
  <2>1. Covers(updates[w], x) /\ (sync[x] => sync[w])
    BY <1>1 DEF GroupWritten
  <2>2. ASSUME status[w] = "ok" PROVE Served(x)'
    <3>1. updates[w] \subseteq Visible' /\ (sync[w] => updates[w] \subseteq synced')
      BY <1>1, <1>3, <2>2 DEF AtomicInv, ProgressInv
    <3> QED
      BY <1>1, <2>1, <3>1 DEF Served, Covers
  <2>3. ASSUME status[w] = "error" PROVE Refused(x)'
    <3>1. \A e \in Stored : e.w = x => e \in updates[w]
      BY <1>1, GroupKept DEF Kept
    <3> QED
      BY <1>1, <1>3, <2>3, <3>1 DEF Refused
  <2> QED
    BY <2>2, <2>3
<1>9. ProgressInv'
  <2>1. \A x \in Group(w)' :
          /\ status'[w] = "ok" => Served(x)'
          /\ status'[w] = "error" => Refused(x)'
    BY <1>1, <1>4, <1>8
  <2> QED
    BY <1>1, <1>2, <1>3, <2>1, ProgressOfLeader
<1>10. NumberInv'
  <2>1. last_sequence \in Nat /\ seq[w] \in Nat /\ \A e \in Kept : e.seq \in Nat
    BY KeptEntries DEF TypeOK
  <2>2. /\ last_sequence <= seq[w]
        /\ \A e \in updates[w] : e.seq <= seq[w]
    BY <1>1 DEF GroupWritten
  <2>3. \A e \in Stored \cup Logged : e.seq <= last_sequence \/ e \in updates[w]
    BY <1>1, NumbersOfLeader
  <2>4. \A e \in Stored' \cup Logged' : e.seq <= last_sequence'
    BY <1>1, <1>3, <2>1, <2>2, <2>3 DEF Kept
  <2> QED
    BY <1>1, <2>4 DEF AtomicInv, NumberInv, LogOrdered
<1> QED
  BY <1>6, <1>7, <1>9, <1>10 DEF AtomicInv

\* The group leaves the queue with the leader's status, which holds for all of it.
LEMMA AtomicPop ==
  ASSUME TypeOK, TypeOK', QueueInv, QueueInv', AtomicInv, NEW w \in Writer, Pop(w)
  PROVE  AtomicInv'
<1>1. PICK k \in 1..Len(writers_) :
        /\ writers_[k] = last_writer[w]
        /\ done' = [x \in Writer |-> done[x] \/ x \in Members(w, k)]
        /\ status' = [x \in Writer |->
                        IF x \in Members(w, k) THEN status[w] ELSE status[x]]
        /\ pc' = [x \in Writer |->
                    IF x = w THEN "returned"
                    ELSE IF x \in Signalled(w, k) /\ pc[x] = "cv_wait"
                    THEN "cv_woken"
                    ELSE pc[x]]
  BY DEF Pop
<1>2. /\ pc[w] = "pop" /\ Leading(w)
      /\ UNCHANGED <<batch, sync, last_writer, updates, seq>> /\ UNCHANGED dataVars
  BY DEF Pop, Leading, localVars
<1>3. /\ Stored' = Stored /\ Logged' = Logged /\ Kept' = Kept /\ Visible' = Visible
      /\ synced' = synced
  BY <1>2 DEF dataVars, Stored, Logged, Kept, Visible
<1>4. Group(w) = Members(w, k) \cup {w}
  <2>1. Group(w) = {writers_[j] : j \in 1..k}
    BY <1>1, GroupIsPrefix
  <2>2. w \in Group(w)
    BY <1>2, LeaderInGroup DEF AtomicInv
  <2> QED
    BY <2>1, <2>2 DEF Members
<1>5. \A x \in Group(w) : x \in Writer /\ ~Over(x) /\ pc[x] # "idle"
  BY GroupWaits
<1>6. /\ pc'[w] = "returned"
      /\ \A x \in Writer \ {w} : pc'[x] = pc[x] \/ (pc[x] \in Early /\ pc'[x] \in Early)
  BY <1>1 DEF Early
<1>7. \A x \in Writer : /\ Over(x)' <=> Over(x) \/ x \in Group(w)
                        /\ x \in Group(w) => status'[x] = status[w]
                        /\ x \notin Group(w) => status'[x] = status[x]
  BY <1>1, <1>4, <1>6 DEF Over, Early, Members
<1>8. \A x \in Writer : ~Leading(x)'
  <2>1. \A x \in Writer \ {w} : ~Leading(x)
    BY <1>2, SoleLeader
  <2> QED
    BY <1>6, <2>1 DEF Leading, Logging, Early
<1>9. LeaderInv'
  <2>1. \A x \in Writer : pc'[x] \notin Logging \cup Making \cup {"pop"}
    BY <1>8 DEF Leading, Logging, Making
  <2>2. \A x \in Writer : pc'[x] \notin Logging \cup {"pop", "returned"} => updates'[x] = {}
    BY <1>2, <1>6 DEF AtomicInv, LeaderInv, Early, Logging
  <2>3. \A x \in Writer : pc'[x] = "idle" => ~done'[x]
    <3> SUFFICES ASSUME NEW x \in Writer, pc'[x] = "idle" PROVE ~done'[x]
      OBVIOUS
    <3>1. x # w /\ pc[x] = "idle"
      BY <1>6 DEF Early
    <3>2. x \notin Members(w, k) /\ ~done[x]
      BY <1>4, <1>5, <3>1 DEF AtomicInv, LeaderInv
    <3> QED
      BY <1>1, <3>2
  <2> QED
    BY <1>8, <2>1, <2>2, <2>3 DEF LeaderInv, Making
<1>10. KeptInv'
  <2>1. ASSUME NEW e \in Kept PROVE Over(e.w)'
    <3>1. e.w \in Writer
      BY KeptEntries
    <3>2. CASE Over(e.w)
      BY <1>7, <3>1, <3>2
    <3>3. CASE \E x \in Writer : pc[x] \in Keeping /\ e \in updates[x]
      <4>1. PICK x \in Writer : pc[x] \in Keeping /\ e \in updates[x]
        BY <3>3
      <4>2. x = w
        BY <1>2, <4>1, LeadingAt, SoleLeader
      <4>3. e.w \in Group(w)
        BY <1>2, <4>1, <4>2 DEF AtomicInv, LeaderInv
      <4> QED
        BY <1>7, <3>1, <4>3
    <3> QED
      BY <3>2, <3>3 DEF AtomicInv, KeptInv, Keeping
  <2> QED
    BY <1>2, <1>3, <2>1 DEF AtomicInv, KeptInv
<1>11. \A x \in Writer : (Served(x) => Served(x)') /\ (Refused(x) => Refused(x)')
  BY <1>2, <1>3, OutcomeFrame
<1>12. ProgressInv'
  <2>1. \A x \in Writer : pc'[x] \notin Keeping
    BY <1>8 DEF Leading, Keeping, Logging
  <2>2. \A x \in Writer : Over(x)' =>
          /\ status'[x] = "ok" => Served(x)'
          /\ status'[x] = "error" => Refused(x)'
    <3> SUFFICES ASSUME NEW x \in Writer, Over(x)'
                 PROVE  /\ status'[x] = "ok" => Served(x)'
                        /\ status'[x] = "error" => Refused(x)'
      OBVIOUS
    <3>1. CASE x \in Group(w)
      <4>1. (status[w] = "ok" => Served(x)) /\ (status[w] = "error" => Refused(x))
        BY <1>2, <3>1 DEF AtomicInv, ProgressInv
      <4> QED
        BY <1>7, <1>11, <3>1, <4>1
    <3>2. CASE x \notin Group(w)
      <4>1. (status[x] = "ok" => Served(x)) /\ (status[x] = "error" => Refused(x))
        BY <1>7, <3>2 DEF AtomicInv, ProgressInv
      <4> QED
        BY <1>7, <1>11, <3>2, <4>1
    <3> QED
      BY <3>1, <3>2
  <2> QED
    BY <2>1, <2>2 DEF ProgressInv, Keeping
<1>13. NumberInv'
  <2>1. \A e \in Stored \cup Logged : e.seq <= last_sequence
    BY <1>2, NumbersOfLeader
  <2> QED
    BY <1>2, <1>3, <2>1 DEF AtomicInv, NumberInv, LogOrdered, dataVars
<1> QED
  BY <1>9, <1>10, <1>12, <1>13 DEF AtomicInv

-----------------------------------------------------------------------------
(* The theorems.                                                            *)

\* Before the first call nothing is kept.
LEMMA AtomicInit == Init => AtomicInv
<1> SUFFICES ASSUME Init PROVE AtomicInv
  OBVIOUS
<1>1. /\ \A x \in Writer : pc[x] = "idle" /\ ~done[x] /\ updates[x] = {}
      /\ log_ = << >> /\ synced = {} /\ mem_ = {} /\ imm_ = {} /\ tables = {}
  BY DEF Init
<1>2. Logged = {} /\ Stored = {} /\ Kept = {}
  BY <1>1 DEF Logged, Stored, Kept
<1>3. LeaderInv
  BY <1>1 DEF LeaderInv, Leading, Logging
<1>4. ProgressInv
  BY <1>1 DEF ProgressInv, Over
<1>5. KeptInv /\ NumberInv
  BY <1>1, <1>2 DEF KeptInv, NumberInv, LogOrdered
<1> QED
  BY <1>3, <1>4, <1>5 DEF AtomicInv

(***************************************************************************)
(* In every state: at most one entry for an operation; what is kept comes  *)
(* from calls that are over and from the leader; nothing is numbered above *)
(* LastSequence() but the leader's group; a final status is the truth.     *)
(***************************************************************************)
THEOREM WriteInvariant == Spec => []AtomicInv
<1>1. /\ TypeOK /\ TypeOK' /\ QueueInv /\ QueueInv' /\ LogInv /\ AtomicInv
      /\ [Next]_vars
      => AtomicInv'
  <2> SUFFICES ASSUME TypeOK, TypeOK', QueueInv, QueueInv', LogInv, AtomicInv,
                      [Next]_vars
               PROVE  AtomicInv'
    OBVIOUS
  <2>1. ASSUME NEW w \in Writer, Enqueue(w) \/ WriterStep(w) \/ SpuriousWake(w)
        PROVE  AtomicInv'
    <3>1. CASE Enqueue(w)
      BY <3>1, AtomicEnqueue
    <3>2. CASE \/ WaitTurn(w) \/ Wake(w) \/ SpuriousWake(w) \/ Delay(w)
               \/ DelayOver(w) \/ WaitBackground(w)
               \/ (Room(w) /\ batch[w] # NullBatch)
      BY <3>2, AtomicWaits
    <3>3. CASE \/ BackgroundError(w) \/ SwitchFails(w)
               \/ (Room(w) /\ batch[w] = NullBatch)
      BY <3>3, AtomicGiveUp
    <3>4. CASE ReturnDone(w) \/ Lead(w) \/ SwitchMemTable(w)
      BY <3>4, AtomicReturnDone, AtomicLead, AtomicSwitch
    <3>5. CASE BuildBatchGroup(w) \/ AddRecord(w) \/ SyncLog(w)
      BY <3>5, AtomicBuild, AtomicAddRecord, AtomicSyncLog
    <3>6. CASE Insert(w) \/ InsertDone(w) \/ Publish(w) \/ Pop(w)
      BY <3>6, AtomicInsert, AtomicPublish, AtomicPop
    <3> QED
      BY <2>1, <3>1, <3>2, <3>3, <3>4, <3>5, <3>6 DEF WriterStep
  <2> QED
    BY <2>1, AtomicOther DEF Next
<1> QED
  BY <1>1, AtomicInit, TypeCorrect, QueueDiscipline, LogCovers, PTL DEF Spec

(***************************************************************************)
(* The records of a log file use ever larger sequence numbers, also after  *)
(* failed writes.                                                          *)
(***************************************************************************)
THEOREM OrderedLog == Spec => []LogOrdered
<1>1. AtomicInv => LogOrdered
  BY DEF AtomicInv, NumberInv
<1> QED
  BY <1>1, WriteInvariant, PTL

(***************************************************************************)
(* A synchronous call that returned OK has each operation of its batch on  *)
(* disk, once, whichever writer's group carried it.                        *)
(***************************************************************************)
THEOREM DurableAcknowledgement == Spec => []SyncedWhenAcknowledged
<1>1. TypeOK /\ AtomicInv => SyncedWhenAcknowledged
  <2> SUFFICES ASSUME TypeOK, AtomicInv, NEW w \in Writer,
                      pc[w] = "returned", status[w] = "ok", sync[w]
               PROVE  Cardinality(EntriesOf(synced, w)) =
                        IF batch[w] > 0 THEN batch[w] ELSE 0
    BY DEF SyncedWhenAcknowledged
  <2> DEFINE E == EntriesOf(synced, w)
             f == [e \in E |-> e.i]
  <2>1. batch[w] \in Int
    <3>1. ASSUME NEW b \in Batches \cup {NullBatch} PROVE b \in Int
      BY SizesAssumption DEF NullBatch
    <3> QED
      BY <3>1 DEF TypeOK
  <2>2. Covers(synced, w)
    BY DEF AtomicInv, ProgressInv, Over, Served
  <2>3. \A e \in E : e \in Kept /\ e.w = w
    BY DEF EntriesOf, Kept
  <2>4. \A e \in E : e.i \in 1..batch[w]
    BY <2>3 DEF AtomicInv, KeptInv
  <2>5. \A e, d \in E : e.i = d.i => e = d
    BY <2>3 DEF AtomicInv, KeptInv
  <2>6. \A i \in 1..batch[w] : \E e \in E : e.i = i
    BY <2>2 DEF Covers, EntriesOf
  <2> HIDE DEF E
  <2>7. f \in Bijection(E, 1..batch[w])
    BY <2>4, <2>5, <2>6 DEF Bijection, Injection, Surjection, IsInjective
  <2>8. ExistsBijection(1..batch[w], E)
    <3>1. ExistsBijection(E, 1..batch[w])
      BY <2>7 DEF ExistsBijection
    <3> QED
      BY <3>1, Fun_ExistsBijSymmetric
  <2>9. /\ IsFiniteSet(1..batch[w])
        /\ Cardinality(1..batch[w]) = IF 1 > batch[w] THEN 0 ELSE batch[w] - 1 + 1
    BY <2>1, FS_Interval
  <2>10. Cardinality(E) = Cardinality(1..batch[w])
    BY <2>8, <2>9, FS_Bijection
  <2> QED
    BY <2>1, <2>9, <2>10 DEF E
<1> QED
  BY <1>1, WriteInvariant, TypeCorrect, PTL

-----------------------------------------------------------------------------
(* The refinement: the write path implements AtomicWrites.                  *)

\* A call is new, running, or has returned its status.
LEMMA PhaseAt ==
  ASSUME NEW x \in Writer
  PROVE  /\ pc[x] = "idle" => Phase[x] = "new"
         /\ pc[x] = "returned" => Phase[x] = status[x]
         /\ pc[x] \notin {"idle", "returned"} => Phase[x] = "open"
BY DEF Phase

\* A step that moves no call into or out of Write() keeps the phases.
LEMMA PhaseFrame ==
  ASSUME \A x \in Writer :
           \/ pc'[x] = pc[x] /\ status'[x] = status[x]
           \/ pc[x] \notin {"idle", "returned"} /\ pc'[x] \notin {"idle", "returned"}
  PROVE  Phase' = Phase
<1>1. \A x \in Writer : Phase'[x] = Phase[x]
  BY DEF Phase
<1>2. Phase = [x \in Writer |-> Phase[x]] /\ Phase' = [x \in Writer |-> Phase'[x]]
  BY DEF Phase
<1> QED
  BY <1>1, <1>2

\* A step of one call changes the phase of this call only.
LEMMA PhaseStep ==
  ASSUME NEW w \in Writer, NEW p, Phase'[w] = p,
         \A x \in Writer \ {w} :
           \/ pc'[x] = pc[x] /\ status'[x] = status[x]
           \/ pc[x] \notin {"idle", "returned"} /\ pc'[x] \notin {"idle", "returned"}
  PROVE  Phase' = [Phase EXCEPT ![w] = p]
<1>1. \A x \in Writer \ {w} : Phase'[x] = Phase[x]
  BY DEF Phase
<1>2. Phase = [x \in Writer |-> Phase[x]] /\ Phase' = [x \in Writer |-> Phase'[x]]
  BY DEF Phase
<1> QED
  BY <1>1, <1>2

\* Joining the queue begins a call.
LEMMA BeginRefines ==
  ASSUME TypeOK, TypeOK', NEW w \in Writer, Enqueue(w)
  PROVE  Promise!Begin(w)
<1>1. /\ pc[w] = "idle" /\ pc' = [pc EXCEPT ![w] = "queue"]
      /\ UNCHANGED status /\ UNCHANGED dataVars
      /\ \E b \in Batches : batch' = [batch EXCEPT ![w] = b]
  BY DEF Enqueue
<1>2. pc'[w] = "queue" /\ \A x \in Writer \ {w} : pc'[x] = pc[x]
  BY <1>1 DEF TypeOK
<1>3. Phase[w] = "new" /\ Phase'[w] = "open"
  BY <1>1, <1>2 DEF Phase
<1>4. Phase' = [Phase EXCEPT ![w] = "open"]
  BY <1>1, <1>2, <1>3, PhaseStep
<1>5. Visible' = Visible
  BY <1>1 DEF Visible, dataVars
<1> QED
  BY <1>1, <1>3, <1>4, <1>5 DEF Promise!Begin

\* What a reader can see of a call whose outcome is known.
LEMMA OutcomeShows ==
  ASSUME TypeOK, AtomicInv, NEW x \in Writer
  PROVE  /\ Served(x) => Promise!OpsOf(Visible, x) = 1..batch[x]
         /\ Refused(x) => Promise!OpsOf(Visible, x) = {}
<1>1. \A e \in Visible : e \in Kept /\ e \in Stored
  BY DEF Visible, Stored, Kept
<1>2. \A e \in Visible : e.w = x => e.i \in 1..batch[x]
  BY <1>1 DEF AtomicInv, KeptInv
<1> QED
  BY <1>1, <1>2 DEF Promise!OpsOf, Served, Refused, Covers

\* The leader and the members of its group return what is true of their batches.
LEMMA ReturnRefines ==
  ASSUME TypeOK, TypeOK', QueueInv, AtomicInv, NEW w \in Writer, Pop(w) \/ ReturnDone(w)
  PROVE  Promise!Return(w)
<1>1. /\ pc[w] \notin {"idle", "returned"} /\ pc'[w] = "returned"
      /\ status'[w] = status[w]
      /\ UNCHANGED batch /\ UNCHANGED dataVars
      /\ \A x \in Writer \ {w} :
           \/ pc'[x] = pc[x] /\ status'[x] = status[x]
           \/ pc[x] \notin {"idle", "returned"} /\ pc'[x] \notin {"idle", "returned"}
  <2>1. CASE ReturnDone(w)
    BY <2>1 DEF ReturnDone, queueVars, TypeOK
  <2>2. CASE Pop(w)
    <3>1. PICK k \in 1..Len(writers_) :
            /\ status' = [x \in Writer |->
                            IF x \in Members(w, k) THEN status[w] ELSE status[x]]
            /\ pc' = [x \in Writer |->
                        IF x = w THEN "returned"
                        ELSE IF x \in Signalled(w, k) /\ pc[x] = "cv_wait"
                        THEN "cv_woken"
                        ELSE pc[x]]
      BY <2>2 DEF Pop
    <3>2. pc[w] = "pop" /\ UNCHANGED batch /\ UNCHANGED dataVars
      BY <2>2 DEF Pop
    <3>3. \A x \in Members(w, k) : x \in Writer /\ pc[x] \notin {"idle", "returned"}
      <4>1. writers_ \in Seq(Writer)
        BY DEF TypeOK
      <4>2. \A j \in 1..k : j \in 1..Len(writers_) /\ writers_[j] \in Writer
        BY <4>1
      <4>3. \A j \in 1..k : InQueue(writers_[j])
        BY <4>2 DEF InQueue
      <4> QED
        BY <4>2, <4>3 DEF Members, QueueInv
    <3>4. \A x \in Writer \ {w} :
            \/ pc'[x] = pc[x]
            \/ pc[x] \notin {"idle", "returned"} /\ pc'[x] \notin {"idle", "returned"}
      BY <3>1
    <3>5. \A x \in Writer \ {w} :
            status'[x] = status[x] \/ pc[x] \notin {"idle", "returned"}
      BY <3>1, <3>3
    <3>6. pc'[w] = "returned" /\ status'[w] = status[w]
      BY <3>1 DEF Members
    <3> QED
      BY <3>2, <3>4, <3>5, <3>6
  <2> QED
    BY <2>1, <2>2
<1>2. /\ status[w] \in {"ok", "error"}
      /\ status[w] = "ok" => Served(w)
      /\ status[w] = "error" => Refused(w)
  <2>1. status[w] \in {"ok", "error"}
    BY DEF TypeOK
  <2>2. CASE ReturnDone(w)
    BY <2>1, <2>2 DEF ReturnDone, AtomicInv, ProgressInv, Over
  <2>3. CASE Pop(w)
    <3>1. pc[w] = "pop" /\ Leading(w)
      BY <2>3 DEF Pop, Leading
    <3>2. w \in Group(w)
      BY <3>1, LeaderInGroup DEF AtomicInv
    <3> QED
      BY <2>1, <3>1, <3>2 DEF AtomicInv, ProgressInv
  <2> QED
    BY <2>2, <2>3
<1>3. Phase[w] = "open" /\ Phase'[w] = status[w]
  BY <1>1 DEF Phase
<1>4. /\ status[w] = "ok" => Phase' = [Phase EXCEPT ![w] = "ok"]
      /\ status[w] = "error" => Phase' = [Phase EXCEPT ![w] = "error"]
  <2>1. ASSUME NEW p, status[w] = p PROVE Phase' = [Phase EXCEPT ![w] = p]
    BY <1>1, <1>3, <2>1, PhaseStep
  <2> QED
    BY <2>1
<1>5. Visible' = Visible
  BY <1>1 DEF Visible, dataVars
<1> QED
  BY <1>1, <1>2, <1>3, <1>4, <1>5, OutcomeShows DEF Promise!Return

\* Publish shows a group whole, or shows nothing.
LEMMA PublishRefines ==
  ASSUME TypeOK, TypeOK', QueueInv, AtomicInv, NEW w \in Writer, Publish(w)
  PROVE  Promise!Commit \/ UNCHANGED Promise!vars
<1>1. /\ pc[w] = "relock" /\ Leading(w) /\ pc' = [pc EXCEPT ![w] = "pop"]
      /\ UNCHANGED <<batch, status>> /\ GroupWritten(w)
      /\ \A e \in updates[w] : e.w \in Group(w) /\ e.i \in 1..batch[e.w]
      /\ status[w] = "ok" => Visible' = Visible \cup updates[w]
      /\ status[w] = "error" => Visible' = Visible
  BY PublishShows
<1>2. Phase' = Phase
  <2>1. \A x \in Writer : pc'[x] = pc[x] \/ (pc[x] = "relock" /\ pc'[x] = "pop")
    BY <1>1 DEF TypeOK
  <2> QED
    BY <1>1, <2>1, PhaseFrame
<1>3. CASE Visible' = Visible
  BY <1>1, <1>2, <1>3 DEF Promise!vars
<1>4. CASE Visible' # Visible
  <2>1. Visible' = Visible \cup updates[w]
    BY <1>1, <1>4 DEF TypeOK
  <2>2. /\ last_sequence \in Nat
        /\ \A e \in Visible \cup updates[w] : e.seq \in Nat /\ e.w \in Writer
        /\ \A e \in Visible : e.seq <= last_sequence /\ e \in Kept
    BY KeptEntries DEF Visible, Stored, Kept, TypeOK
  <2>3. \A e \in updates[w] : last_sequence < e.seq
    BY <1>1 DEF GroupWritten
  <2>4. Visible' \ Visible = updates[w]
    BY <2>1, <2>2, <2>3
  <2>5. \A x \in Group(w) : Phase[x] = "open"
    <3> TAKE x \in Group(w)
    <3>1. x \in Writer /\ pc[x] # "idle" /\ pc[x] # "returned"
      BY GroupWaits DEF Over
    <3> QED
      BY <3>1, PhaseAt
  <2>6. \A x \in Group(w) : Promise!OpsOf(Visible, x) = {}
    <3> SUFFICES ASSUME NEW x \in Group(w), NEW e \in Visible, e.w = x PROVE FALSE
      BY DEF Promise!OpsOf
    <3>1. e \in updates[w]
      BY <1>1, <2>2, GroupKept
    <3> QED
      BY <2>2, <2>3, <3>1
  <2>7. \A x \in Group(w) : Promise!OpsOf(updates[w], x) = 1..batch[x]
    <3> TAKE x \in Group(w)
    <3>1. Covers(updates[w], x)
      BY <1>1 DEF GroupWritten
    <3>2. \A e \in updates[w] : e.w = x => e.i \in 1..batch[x]
      BY <1>1
    <3> QED
      BY <3>1, <3>2 DEF Covers, Promise!OpsOf
  <2>8. \A e, f \in updates[w] : /\ e.seq = f.seq => e = f
                                 /\ e.w = f.w => e.seq - f.seq = e.i - f.i
    BY <1>1 DEF GroupWritten
  <2>9. \A e \in Visible, f \in updates[w] : e.seq < f.seq
    BY <2>2, <2>3
  <2>10. updates[w] # {} /\ Visible \subseteq Visible'
    BY <1>4, <2>1
  <2>11. \A c \in {e.w : e \in updates[w]} : c \in Group(w)
    BY <1>1
  <2> QED
    BY <1>1, <1>2, <2>4, <2>5, <2>6, <2>7, <2>8, <2>9, <2>10, <2>11 DEF Promise!Commit
<1> QED
  BY <1>3, <1>4

\* The other steps show nothing and end no call.
LEMMA OtherRefines ==
  ASSUME TypeOK, TypeOK', QueueInv, AtomicInv, [Next]_vars,
         \A w \in Writer : ~Enqueue(w) /\ ~Pop(w) /\ ~ReturnDone(w) /\ ~Publish(w)
  PROVE  UNCHANGED Promise!vars
<1>0. pc \in [Writer -> Location] /\ status \in [Writer -> {"ok", "error"}]
  BY DEF TypeOK
<1>1. ASSUME NEW w \in Writer, WriterStep(w) \/ SpuriousWake(w)
      PROVE  Phase' = Phase /\ batch' = batch /\ Visible' = Visible
  <2>1. CASE \/ WaitTurn(w) \/ Wake(w) \/ Lead(w) \/ BackgroundError(w) \/ Delay(w)
             \/ DelayOver(w) \/ Room(w) \/ WaitBackground(w) \/ SwitchFails(w)
             \/ BuildBatchGroup(w) \/ SpuriousWake(w) \/ SwitchMemTable(w)
    <3>1. UNCHANGED batch
      BY <2>1 DEF WaitTurn, Wake, Lead, BackgroundError, Delay, DelayOver, Room,
        WaitBackground, SwitchFails, BuildBatchGroup, SpuriousWake, SwitchMemTable,
        queueVars
    <3>2. \A x \in Writer :
            \/ pc'[x] = pc[x] /\ status'[x] = status[x]
            \/ pc[x] \notin {"idle", "returned"} /\ pc'[x] \notin {"idle", "returned"}
      BY <1>0, <2>1 DEF WaitTurn, Wake, ResumeAt, Lead, BackgroundError, Delay,
        DelayOver, Room, WaitBackground, SwitchFails, BuildBatchGroup, SpuriousWake,
        SwitchMemTable, queueVars
    <3>3. CASE SwitchMemTable(w)
      BY <3>1, <3>2, <3>3, PhaseFrame
         DEF SwitchMemTable, MaySwitch, Visible, AtomicInv, NumberInv
    <3>4. CASE ~SwitchMemTable(w)
      <4>1. UNCHANGED dataVars
        BY <2>1, <3>4 DEF WaitTurn, Wake, Lead, BackgroundError, Delay, DelayOver,
          Room, WaitBackground, SwitchFails, BuildBatchGroup, SpuriousWake
      <4> QED
        BY <3>1, <3>2, <4>1, PhaseFrame DEF dataVars, Visible
    <3> QED
      BY <3>3, <3>4
  <2>2. CASE AddRecord(w) \/ SyncLog(w) \/ Insert(w) \/ InsertDone(w)
    <3>1. /\ pc[w] \in Logging /\ pc'[w] \in Logging /\ Leading(w)
          /\ \A x \in Writer \ {w} : pc'[x] = pc[x] /\ status'[x] = status[x]
          /\ UNCHANGED <<batch, last_sequence, imm_, tables>>
      BY <2>2, LoggingStep
    <3>2. Phase' = Phase
      BY <3>1, PhaseFrame DEF Logging
    <3>3. Visible' = Visible
      <4>1. CASE Insert(w)
        <5>1. PICK e \in updates[w] : mem_' = mem_ \cup {e} /\ pc[w] = "insert"
          BY <4>1 DEF Insert
        <5>2. last_sequence < e.seq /\ last_sequence \in Nat /\ e.seq \in Nat
          BY <5>1, KeptEntries DEF AtomicInv, LeaderInv, GroupWritten, Logging, TypeOK
        <5> QED
          BY <3>1, <5>1, <5>2 DEF Visible
      <4>2. CASE ~Insert(w)
        <5>1. UNCHANGED mem_
          BY <2>2, <4>2 DEF AddRecord, SyncLog, InsertDone, dataVars
        <5> QED
          BY <3>1, <5>1 DEF Visible
      <4> QED
        BY <4>1, <4>2
    <3> QED
      BY <3>1, <3>2, <3>3
  <2> QED
    BY <1>1, <2>1, <2>2 DEF WriterStep
<1>2. ASSUME \/ GetBegin
             \/ \E charged \in BOOLEAN : GetEnd(charged)
             \/ BackgroundStep
             \/ CloseBegin \/ CloseWoken
             \/ Quiescent
             \/ UNCHANGED vars
      PROVE  Phase' = Phase /\ batch' = batch /\ Visible' = Visible
  <2>1. UNCHANGED <<batch, status, last_sequence, mem_>>
    BY <1>2 DEF GetBegin, GetEnd, BackgroundStep, BgFlush, BgCompact, BgNothing,
      BgTableBuilt, BgApplied, BgMerged, BgSpin, BgInstalled, BgFinish, CloseBegin,
      CloseWoken, Quiescent, vars, queueVars, dataVars
  <2>2. pc' = pc \/ pc' = SignalAll(pc)
    BY <1>2 DEF GetBegin, GetEnd, BackgroundStep, BgFlush, BgCompact, BgNothing,
      BgTableBuilt, BgApplied, BgMerged, BgSpin, BgInstalled, BgFinish, CloseBegin,
      CloseWoken, Quiescent, vars, BgResumeMerge, BgFails, CompactionFails
  <2>3. \/ UNCHANGED <<imm_, tables>>
        \/ imm_' = {} /\ tables' = tables \cup imm_
    BY <1>2 DEF GetBegin, GetEnd, BackgroundStep, BgFlush, BgCompact, BgNothing,
      BgTableBuilt, BgApplied, BgMerged, BgSpin, BgInstalled, BgFinish, CloseBegin,
      CloseWoken, Quiescent, vars, dataVars
  <2>4. \A x \in Writer : pc'[x] = pc[x] \/ (pc[x] = "bg_wait" /\ pc'[x] = "bg_woken")
    BY <2>2 DEF SignalAll
  <2>5. Phase' = Phase
    BY <2>1, <2>4, PhaseFrame
  <2> QED
    BY <2>1, <2>3, <2>5 DEF Visible
<1>3. Phase' = Phase /\ batch' = batch /\ Visible' = Visible
  BY <1>1, <1>2 DEF Next
<1> QED
  BY <1>3 DEF Promise!vars

(***************************************************************************)
(* Group commit implements AtomicWrites: a batch becomes visible whole,    *)
(* once, in order and between call and return; a call that failed never    *)
(* becomes visible; nothing visible is lost.                               *)
(***************************************************************************)
THEOREM AtomicGroupCommit == Spec => WritesAreAtomic
<1>1. Init => Promise!Init
  <2> SUFFICES ASSUME Init PROVE Promise!Init
    OBVIOUS
  <2>1. Visible = {}
    BY DEF Init, Visible
  <2>2. Phase = [c \in Writer |-> "new"]
    <3>1. \A x \in Writer : Phase[x] = "new"
      BY DEF Init, Phase
    <3>2. Phase = [x \in Writer |-> Phase[x]]
      BY DEF Phase
    <3> QED
      BY <3>1, <3>2
  <2>3. batch = [c \in Writer |-> -1]
    BY DEF Init, NullBatch
  <2> QED
    BY <2>1, <2>2, <2>3 DEF Promise!Init
<1>2. /\ TypeOK /\ TypeOK' /\ QueueInv /\ AtomicInv /\ [Next]_vars
      => [Promise!Next]_(Promise!vars)
  <2> SUFFICES ASSUME TypeOK, TypeOK', QueueInv, AtomicInv, [Next]_vars
               PROVE  [Promise!Next]_(Promise!vars)
    OBVIOUS
  <2>1. ASSUME NEW w \in Writer, Enqueue(w) PROVE Promise!Next
    BY <2>1, BeginRefines DEF Promise!Next
  <2>2. ASSUME NEW w \in Writer, Pop(w) \/ ReturnDone(w) PROVE Promise!Next
    BY <2>2, ReturnRefines DEF Promise!Next
  <2>3. ASSUME NEW w \in Writer, Publish(w) PROVE [Promise!Next]_(Promise!vars)
    BY <2>3, PublishRefines DEF Promise!Next
  <2>4. ASSUME \A w \in Writer : ~Enqueue(w) /\ ~Pop(w) /\ ~ReturnDone(w) /\ ~Publish(w)
        PROVE  UNCHANGED Promise!vars
    BY <2>4, OtherRefines
  <2> QED
    BY <2>1, <2>2, <2>3, <2>4
<1>3. Spec => Promise!Spec
  BY <1>1, <1>2, WriteInvariant, TypeCorrect, QueueDiscipline, PTL
     DEF Spec, Promise!Spec
<1> QED
  BY <1>3 DEF WritesAreAtomic
=============================================================================
