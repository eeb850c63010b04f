----------------------------- MODULE LogFormat ------------------------------
(***************************************************************************)
(* The record format of log files and MANIFESTs: log::Writer               *)
(* (db/log_writer.cpp) over PosixMmapFile (util/env_posix.cpp), what a     *)
(* crash leaves of the file, and log::Reader (db/log_reader.cpp).          *)
(*                                                                         *)
(* One behaviour writes records, ends by a close or a crash and reads the  *)
(* file.  A step is one iteration of AddRecord()'s loop, or one physical   *)
(* record read.                                                            *)
(*                                                                         *)
(* Data: a file is a sequence of cells.  A cell is a part of a header, a   *)
(* byte of a record's payload, or a zero.  A header knows the payload its  *)
(* checksum was computed from; the checksum detects every other payload.   *)
(***************************************************************************)
EXTENDS Integers, Sequences, FiniteSets

CONSTANTS
  BlockSize,   \* kBlockSize
  HeaderSize,  \* kHeaderSize
  RegionSize,  \* map_size_ of PosixMmapFile, a multiple of BlockSize
  Sizes,       \* the sizes of the records that are written
  MaxRecords,  \* bound: the calls of AddRecord()
  MaxFaults    \* bound: the failures of ftruncate() or mmap()

ASSUME LogAssumption ==
  /\ HeaderSize \in Nat \ {0}
  /\ BlockSize \in Nat /\ BlockSize > HeaderSize
  /\ RegionSize \in Nat \ {0} /\ RegionSize % BlockSize = 0
  /\ Sizes \subseteq Nat
  /\ MaxRecords \in Nat /\ MaxFaults \in Nat

VARIABLES
  file,          \* the cells of the file
  block_offset_, \* log::Writer
  records,       \* the sizes of the records passed to AddRecord() so far
  returned,      \* the records whose AddRecord() returned OK
  done,          \* the bytes of the current record that were emitted; -1: no
                 \* call is running
  begin,         \* the local of AddRecord(): no fragment of it was emitted
  faults,        \* the appends and reads of the file that failed
  phase,         \* "write", "read", "eof"
  ended,         \* how writing ended: "close", "kill", "kill_inside", "power"
  next,          \* log::Reader: how much of the file has been read,
  buffer_,       \* what is left of the block,
  eof_,
  in_fragmented_record, scratch,
  out,           \* the records returned, and
  reported       \* whether Reporter::Corruption() was called

writerVars == <<file, block_offset_, records, returned, done, begin, faults>>
readerVars == <<next, buffer_, eof_, in_fragmented_record, scratch, out, reported>>
vars == <<writerVars, phase, ended, readerVars>>

RecordType == {"full", "first", "middle", "last"}

Zero == [kind |-> "zero", r |-> 0, i |-> 0, type |-> "zero", at |-> 0, len |-> 0]
Byte(r, i) == [Zero EXCEPT !.kind = "byte", !.r = r, !.i = i]
HeaderCell(r, i, type, at, len) ==
  [kind |-> "header", r |-> r, i |-> i, type |-> type, at |-> at, len |-> len]
Cell == [kind : {"zero", "byte", "header"}, r : Nat, i : Nat,
         type : RecordType \cup {"zero"}, at : Nat, len : Nat]

Zeros(n) == [i \in 1..n |-> Zero]
Payload(r, at, len) == [i \in 1..len |-> Byte(r, at + i)]
Header(r, type, at, len) ==
  [i \in 1..HeaderSize |-> HeaderCell(r, i, type, at, len)]
Record(r) == Payload(r, 0, records[r])

Init ==
  /\ file = << >> /\ block_offset_ = 0
  /\ records = << >> /\ returned = {} /\ done = -1 /\ begin = TRUE /\ faults = 0
  /\ phase = "write" /\ ended = "none"
  /\ next = 0 /\ buffer_ = << >> /\ eof_ = FALSE
  /\ in_fragmented_record = FALSE /\ scratch = << >>
  /\ out = << >> /\ reported = FALSE

-----------------------------------------------------------------------------
(* log::Writer (log_writer.cpp:25-98).                                     *)

AddRecord ==
  /\ phase = "write" /\ done = -1
  /\ Len(records) < MaxRecords
  /\ \E n \in Sizes : records' = Append(records, n)
  /\ done' = 0 /\ begin' = TRUE
  /\ UNCHANGED <<file, block_offset_, returned, faults, phase, ended, readerVars>>

\* PosixMmapFile::Append(): data is copied region by region; mapping the next
\* region may fail when the current one is full (env_posix.cpp:250-271).
Appends(f, data) ==
  {[file |-> f \o data, ok |-> TRUE]} \cup
  {[file |-> f \o SubSeq(data, 1, k), ok |-> FALSE] :
     k \in {j \in 0..(Len(data) - 1) : (Len(f) + j) % RegionSize = 0}}

Leftover == BlockSize - block_offset_
NewBlock == Leftover < HeaderSize
Trailer == IF NewBlock THEN Zeros(Leftover) ELSE << >>
OffsetInBlock == IF NewBlock THEN 0 ELSE block_offset_

Left == records[Len(records)] - done
FragmentLength ==
  LET avail == BlockSize - OffsetInBlock - HeaderSize
  IN  IF Left < avail THEN Left ELSE avail

FragmentType_NoLast ==
  LET end == Left = FragmentLength
  IN  CASE begin /\ end -> "full"
        [] begin /\ ~end -> "first"
        [] OTHER -> "middle"
FragmentType ==
  LET end == Left = FragmentLength
  IN  CASE begin /\ end -> "full"
        [] begin /\ ~end -> "first"
        [] ~begin /\ end -> "last"
        [] OTHER -> "middle"

\* The header and the payload of the next fragment.
Physical ==
  LET r == Len(records)
  IN  Header(r, FragmentType, done, FragmentLength)
        \o Payload(r, done, FragmentLength)

\* One iteration of the loop.  The status of the trailer is ignored;
\* block_offset_ advances whether or not the fragment was written.
EmitPhysicalRecord ==
  /\ phase = "write" /\ done >= 0
  /\ \E t \in Appends(file, Trailer) : \E p \in Appends(t.file, Physical) :
       /\ faults' = faults + Cardinality({x \in {1} : ~t.ok})
                           + Cardinality({x \in {1} : ~p.ok})
       /\ faults' <= MaxFaults
       /\ file' = p.file
       /\ LET over == ~p.ok \/ FragmentLength = Left
          IN  /\ done' = IF over THEN -1 ELSE done + FragmentLength
              /\ returned' = IF p.ok /\ over THEN returned \cup {Len(records)}
                             ELSE returned
  /\ begin' = FALSE
  /\ block_offset_' = OffsetInBlock + HeaderSize + FragmentLength
  /\ UNCHANGED <<records, phase, ended, readerVars>>

-----------------------------------------------------------------------------
(* The end of writing (env_posix.cpp:211-226, 273-295).                    *)

\* The file up to the end of the mapped region, which ftruncate() extended.
Preallocated(f) ==
  LET tail == Len(f) % RegionSize
  IN  IF tail = 0 THEN f ELSE f \o Zeros(RegionSize - tail)

\* Close() trims the file.
Close ==
  /\ phase = "write" /\ done = -1
  /\ phase' = "read" /\ ended' = "close"
  /\ UNCHANGED <<writerVars, readerVars>>

\* The process is killed between two calls of AddRecord().
Kill ==
  /\ phase = "write" /\ done = -1
  /\ phase' = "read" /\ ended' = "kill"
  /\ file' = Preallocated(file)
  /\ UNCHANGED <<block_offset_, records, returned, done, begin, faults, readerVars>>

\* The process is killed inside AddRecord(): some of the fragment is there.
KillInside ==
  /\ phase = "write" /\ done >= 0
  /\ phase' = "read" /\ ended' = "kill_inside"
  /\ \E k \in 0..Len(Trailer \o Physical) :
       file' = Preallocated(file \o SubSeq(Trailer \o Physical, 1, k))
  /\ UNCHANGED <<block_offset_, records, returned, done, begin, faults, readerVars>>

\* The machine stops: the file is cut anywhere, and pages of it (a block here)
\* that were not synced may not have been written.
PowerLoss ==
  /\ phase = "write"
  /\ phase' = "read" /\ ended' = "power"
  /\ \E k \in 0..Len(file) : \E hole \in SUBSET (0..(k \div BlockSize)) :
       file' = [i \in 1..k |->
                  IF (i - 1) \div BlockSize \in hole THEN Zero ELSE file[i]]
  /\ UNCHANGED <<block_offset_, records, returned, done, begin, faults, readerVars>>

-----------------------------------------------------------------------------
(* log::Reader (log_reader.cpp:57-160, 177-254), initial_offset 0.         *)

ShortRead_Never(n) == FALSE
\* A short read is the last one.
ShortRead(n) == n < BlockSize

\* file_->Read(kBlockSize): what is left of the last block is a trailer.
ReadBlock ==
  /\ phase = "read"
  /\ Len(buffer_) < HeaderSize /\ ~eof_
  /\ LET to == IF next + BlockSize < Len(file) THEN next + BlockSize ELSE Len(file)
     IN  /\ buffer_' = SubSeq(file, next + 1, to)
         /\ eof_' = ShortRead(to - next)
         /\ next' = to
  /\ UNCHANGED <<writerVars, phase, ended, in_fragmented_record, scratch, out,
                 reported>>

\* file_->Read() fails: ReportDrop(), and the same as at the end of the file.
ReadFails ==
  /\ phase = "read"
  /\ Len(buffer_) < HeaderSize /\ ~eof_
  /\ faults < MaxFaults /\ faults' = faults + 1
  /\ phase' = "eof"
  /\ buffer_' = << >> /\ eof_' = TRUE /\ reported' = TRUE
  /\ UNCHANGED <<file, block_offset_, records, returned, done, begin, ended, next,
                 in_fragmented_record, scratch, out>>

\* The Reporter is told of a corruption, if one was found (initial_offset_ is 0).
ReportCorruption(found) == reported' = (reported \/ found)

\* kEof; a truncated header or a record without its end is reported.
EndOfFile ==
  /\ phase = "read"
  /\ Len(buffer_) < HeaderSize /\ eof_
  /\ phase' = "eof"
  /\ ReportCorruption(buffer_ # << >> \/ in_fragmented_record)
  /\ buffer_' = << >>
  /\ UNCHANGED <<writerVars, ended, next, eof_, in_fragmented_record, scratch, out>>

AtHeader == phase = "read" /\ Len(buffer_) >= HeaderSize
\* The length and the type that the header at the front of buffer_ shows; the
\* type is its last byte.
ShownLength == buffer_[1].len
ShownType == buffer_[HeaderSize].type

Blank_Never == FALSE
\* A zero type and a zero length: preallocated space.
Blank ==
  /\ buffer_[HeaderSize] = Zero
  /\ buffer_[1] = Zero \/ (buffer_[1].kind = "header" /\ ShownLength = 0)

\* The header is whole and its payload is the one its checksum is of.
Intact ==
  LET h == buffer_[1]
  IN  /\ h.kind = "header" /\ h.i = 1
      /\ SubSeq(buffer_, 1, HeaderSize) = Header(h.r, h.type, h.at, h.len)
      /\ HeaderSize + h.len <= Len(buffer_)
      /\ SubSeq(buffer_, HeaderSize + 1, HeaderSize + h.len)
           = Payload(h.r, h.at, h.len)

FragmentedAfterBad_Kept == in_fragmented_record
\* After kBadRecord a record that had begun is given up.
FragmentedAfterBad == FALSE

\* kBadRecord: a bad length, a bad checksum, or (silently) preallocated zeros.
\* The rest of the block is dropped.
BadRecord ==
  /\ AtHeader /\ ~Intact
  /\ buffer_' = << >>
  /\ ReportCorruption(in_fragmented_record \/ ~Blank)
  /\ in_fragmented_record' = FragmentedAfterBad
  /\ scratch' = IF FragmentedAfterBad THEN scratch ELSE << >>
  /\ UNCHANGED <<writerVars, phase, ended, next, eof_, out>>

Fragment == SubSeq(buffer_, HeaderSize + 1, HeaderSize + ShownLength)
Consume ==
  buffer_' = SubSeq(buffer_, HeaderSize + ShownLength + 1, Len(buffer_))

\* kFullType and kFirstType: a record that had begun without an end is reported,
\* unless nothing of it was read.
Start(type) ==
  /\ AtHeader /\ Intact /\ ShownType = type
  /\ Consume
  /\ ReportCorruption(in_fragmented_record /\ scratch # << >>)

FullRecord ==
  /\ Start("full")
  /\ out' = Append(out, Fragment)
  /\ in_fragmented_record' = FALSE
  /\ scratch' = << >>
  /\ UNCHANGED <<writerVars, phase, ended, next, eof_>>

FirstFragment ==
  /\ Start("first")
  /\ in_fragmented_record' = TRUE
  /\ scratch' = Fragment
  /\ UNCHANGED <<writerVars, phase, ended, next, eof_, out>>

\* kMiddleType and kLastType; without a start they are dropped.
MiddleFragment ==
  /\ AtHeader /\ Intact /\ ShownType = "middle"
  /\ Consume
  /\ ReportCorruption(~in_fragmented_record)
  /\ scratch' = IF in_fragmented_record THEN scratch \o Fragment ELSE scratch
  /\ UNCHANGED <<writerVars, phase, ended, next, eof_, in_fragmented_record, out>>

LastFragment ==
  /\ AtHeader /\ Intact /\ ShownType = "last"
  /\ Consume
  /\ ReportCorruption(~in_fragmented_record)
  /\ out' = IF in_fragmented_record THEN Append(out, scratch \o Fragment) ELSE out
  /\ scratch' = IF in_fragmented_record THEN << >> ELSE scratch
  /\ in_fragmented_record' = FALSE
  /\ UNCHANGED <<writerVars, phase, ended, next, eof_>>

\* ReadRecord() has returned false.
Done == phase = "eof" /\ UNCHANGED vars

ReaderStep ==
  \/ ReadBlock \/ ReadFails \/ EndOfFile \/ BadRecord
  \/ FullRecord \/ FirstFragment \/ MiddleFragment \/ LastFragment

Next ==
  \/ AddRecord \/ EmitPhysicalRecord
  \/ Close \/ Kill \/ KillInside \/ PowerLoss
  \/ ReaderStep \/ Done

Spec == Init /\ [][Next]_vars

\* DB::Open calls ReadRecord() until it returns false.
FairSpec == Spec /\ WF_vars(ReaderStep)

-----------------------------------------------------------------------------
(* Properties.                                                             *)

\* The types of writer, file and reader; block_offset_ stays within a block
\* ("assert(block_offset_ + kHeaderSize + n <= kBlockSize)", log_writer.cpp:75).
TypeOK ==
  /\ file \in Seq(Cell)
  /\ block_offset_ \in 0..BlockSize
  /\ records \in Seq(Sizes)
  /\ returned \subseteq DOMAIN records
  /\ done \in Nat \cup {-1} /\ begin \in BOOLEAN
  /\ faults \in 0..MaxFaults
  /\ phase \in {"write", "read", "eof"}
  /\ ended \in {"none", "close", "kill", "kill_inside", "power"}
  /\ next \in 0..Len(file)
  /\ buffer_ \in Seq(Cell)
  /\ eof_ \in BOOLEAN /\ in_fragmented_record \in BOOLEAN /\ reported \in BOOLEAN
  /\ scratch \in Seq(Cell) /\ out \in Seq(Seq(Cell))

\* The reader returns the records that were written, in order and from the
\* first on, and it ends only after every record whose AddRecord() returned OK,
\* wherever the process was killed (options.h:125-127); in a file without a failed
\* append, and when its blocks can be read.  (After a failed append block_offset_ and
\* the file disagree, log_writer.cpp:96, and later records may be missed.)
ReadBack ==
  faults = 0 /\ ended # "power" =>
    /\ Len(out) <= Len(records)
    /\ \A i \in 1..Len(out) : out[i] = Record(i)
    /\ phase = "eof" => returned \subseteq 1..Len(out)

\* No record is made up of parts of two: whatever failed and wherever the file
\* was cut, a record that is returned was passed to AddRecord() as it is.  The
\* fields of the writer and the reader have their types.
NoPhantom ==
  /\ TypeOK
  /\ \A i \in 1..Len(out) : \E r \in DOMAIN records : out[i] = Record(r)

\* No corruption is reported for a file that was closed, or whose writer was
\* killed between two records and left preallocated zeros (log_reader.cpp:218);
\* VersionSet::Recover refuses a MANIFEST for which one is.
CleanIsSilent == faults = 0 /\ ended \in {"close", "kill"} => ~reported

\* Reading ends: no file sends ReadPhysicalRecord() round its loop for ever.
ReadingEnds == phase = "read" ~> phase = "eof"
=============================================================================
